# Formal models of xrpl-ledger-archive

TLA+ models of the program, TLC configurations that check them on small
instances, and TLAPS proofs of their main properties for every instance. Paths
below are relative to the repository (`src/`); `wr` stands for
`crates/xrla-nudb/src/writer.rs`, `imp` for `crates/xrla-import/src/main.rs`,
`exp` for `crates/xrla-export/src/main.rs`, `ser` for
`crates/xrla-common/src/serialize.rs`, `rd` for `crates/xrla-nudb/src/reader.rs`.

```
tlc -workers 2 -config NuDbPublish.cfg NuDbPublish.tla     # one run
tlapm ChunkReplay_proofs.tla                               # one proof module
```

## 1. The system

Four programs around one file format. `xrla-export` reads a rippled node's
NuDB store and writes *chunk files*: a checkpoint (a whole state tree) and one
delta per following ledger. `xrla-import` replays chunk files, checks them, and
writes a NuDB store, `ledger.db` and `transaction.db` for an xrpld node.
`xrla-index` builds a SQLite index beside each chunk and answers account
queries from it. `xrla-difftest` compares such an index, and the decoder it was
built with, with the `transaction.db` of an xrpld node.

| Component | State it keeps | Operations | Talks to |
|---|---|---|---|
| **NuDbSink** (`wr`) | an open `<dat>.tmp`, entries in memory, then `<key>.tmp`, `<key>.bak` and the final pair | `create`, `write_node`, `finish` (key file, swap of two files, rollback), `Drop` | called by the importer from several threads; its files are opened by xrpld and by `keyfile.rs` |
| **Chunk replay** (`imp`, `state_tree.rs`, `chunk.rs`) | the live map hash → node, `current_root`, `prev_ledger_hash`, ledger rows | checkpoint, one step per delta with its checks, final walk, `chunk_hash`; a streamed path (v3) and one in memory (v2) | reads ChunkReader, writes NuDbSink, `transaction.db`, rows for `ledger.db` |
| **Export loop** (`exp`) | the running state, `prev_account_hash`, `chunk_start`, the open ChunkWriter | walk of the first tree, batches of concurrent diffs, apply, write, close and open a chunk | reads NuDBReader and the ledger index, writes ChunkWriter |
| **ChunkWriter / ChunkReader** (`ser`) | a file under `<name>.tmp`, a running hash | create, checkpoint, TX_MAPs, deltas, `finish` (footer, hash, rename), `Drop`; deserialize | export loop, chunk replay |
| **NuDBReader** (`rd`, `shamap.rs`) | the open shards of a store; per call a stack or frontier and `visited` | tree walk (serial and level by level), `diff`, `diff_batch_concurrent`, `collect_transactions`, `calibrate_concurrency` | called by the export loop; looks nodes up by key file |
| **Key file lookup** (`keyfile.rs`) | open `.key`, `.dat` | `Shard::open`, bucket index, `fetch` through spill chains | NuDbSink's files |
| **Value codecs** (`dat.rs`) | none | `encode_wire_to_value`, `encode_object_to_value`, `decode_value_to_wire` | NuDbSink writes, NuDBReader reads; xrpld does both |
| **Import outputs** (`imp`, `txdb.rs`) | `transaction.db` under a temporary name, rows of `ledger.db` | create, write per ledger, rename; ledger rows inserted last | chunk replay, NuDbSink |
| **Transaction tree** (`tx_tree.rs`) | none | `build_tx_tree` | chunk replay, import outputs |
| **Index** (`xrla-index`) | `<out>.tmp`, then `<out>` | build, query an account page by page, locate a transaction | chunk files, metadata decoding |
| **Metadata decoding** (`meta_decode.rs`) | a cursor in a blob | `summarize_meta`: affected accounts and TransactionIndex | index, difftest |
| **xrla-difftest** | counters of what differs | compare decoder and index with xrpld's rows, both ways | index, `transaction.db` |
| **LedgerIndex** (`exp`) | a connection to xrpld's ledger database | `get`, `verify_ledger_hash` | export loop |

### What is hard in each of them, and what makes it correct

- **NuDbSink.** Two files have to change together and the file system only
  renames one at a time. Crashes fall between the renames, either rename may
  fail, and a later run meets the files of a dead one. *Correct*: a reader
  never opens a key with another run's data; a failed run changes nothing; a
  run that reports success is served.
- **Chunk replay.** The contents of a file are untrusted, nodes go into the
  sink before they are checked, the first write of a hash wins, only the first
  and the last tree of a chunk are walked, and the hash of a v3 file is known
  last. A node's hash says what the node is only together with its type, and for
  the type there is only the file's word. *Correct*: as long as the files call each
  node what it is, every ledger given a row is wholly in the store; whatever they
  say, its hash is that of what the row says, rows chain back to a checkpoint, and
  nothing is published from a damaged file.
- **Export loop.** Three periods that need not agree (batch, chunk, range)
  drive one running state; a header says in advance what its file will hold;
  runs fail, are killed and repeated over their own leftovers. *Correct*: each
  final file replays to the source's trees and holds the ledgers it names;
  together the files hold each ledger once; a run that succeeds covers the
  range; every run ends.
- **NuDBReader.** A recursive comparison of two trees of different shapes, with
  nodes that may be missing, spread over shards and encoded in two ways;
  concurrency found by timing. *Correct*: a walk has every node once; the lists
  applied to the old tree give the new one, in the order of the batch; what
  calibration picks was tried and did not queue up.
- **Chunk format.** Two layouts, two readers, counts cut to their width, and a
  header that no hash covers. *Correct*: a file a reader accepts holds what was
  written, and the readers agree.
- **Key file.** Writer and reader derive bucket positions each for itself;
  buckets overflow into chains. *Correct*: every stored hash is found.
- **Import outputs.** Three outputs get their names one after the other; the
  last is filled in place.
  *Correct*: no output in place refers to what another lacks, or a rerun
  repairs it.
- **Index.** Two builders may share a temporary file; pages must neither skip
  nor repeat. *Correct*: a final index is complete; the pages of a query are
  its result.
- **Metadata.** One pass over a nested format without lengths: a value skipped
  wrongly makes the rest mean something else. *Correct*: the accounts found are
  those of xrpld's rule, or there is an error.
- **Difftest.** Agreement on nothing looks like agreement. *Correct*: PASS means
  the same rows.

`PROJECT.json` lists the hazards line by line, with the properties that watch
each, and for those without one the reason.

## 2. Modules

| Module | Models | Proofs |
|---|---|---|
| `StoreService` | what NuDbSink promises to a program opening the store | |
| `NuDbPublish` | NuDbSink on disk: create to finish, rollback, Drop, crashes, reruns | `NuDbPublish_proofs` |
| `NuDbTable`, `MCNuDbTable` | the contents of `.dat` and `.key`, and looking a hash up | `NuDbTable_proofs` |
| `NodeMap` | the importer's live map and the checks made on it | |
| `ChunkReplay`, `MCChunkReplay` | xrla-import's replay and all its checks, on arbitrary files | `ChunkReplay_proofs` |
| `ImportRun`, `MCImportRun` | one xrla-import command: its three outputs in order, over `NuDbPublish` | `ImportRun_proofs` |
| `NodeDiff` | what a diff of two trees may answer, and how xrla-export applies it | |
| `LedgerArchive` | what xrla-export promises about its output directory | |
| `ChunkExport`, `MCChunkExport` | xrla-export's loop and ChunkWriter's file handling, over `NodeDiff` | `ChunkExport_proofs` |
| `SHAMap` | nodes, `build_tx_tree`, the content of a transaction leaf | |
| `ValueCodec` | the values of `.dat`, written and read | |
| `NuDBReader`, `MCNuDBReader` | walks, diffs, transactions and calibration, over `ValueCodec`; meets `NodeDiff`, satisfies `NodeMap` | `NuDBReader_proofs` |
| `ChunkCodec`, `MCChunkCodec` | the bytes of a chunk file, both layouts and both readers | |
| `IndexBuild` | xrla-index build on disk, several builders | `IndexBuild_proofs` |
| `TxMeta` | xrpld's rule for affected accounts and its serialization (external) | |
| `MetaDecode` | `summarize_meta` | |
| `DiffTest` | xrla-difftest's two comparisons | |
| `IndexQuery`, `MCIndexQuery` | what an index holds, its pages, and its comparison with xrpld, over the last three | `IndexQuery_proofs` |

A definition that begins "Mutant" or stands in a section of variants is a
plausible mistake in the definition next to it. No specification uses one: they
are there so that each property can be seen to fail when the code is wrong.

### NuDbPublish and StoreService

*State.* `disk` gives for the five names (`dat`, `dat.tmp`, `key`, `key.tmp`,
`key.bak`) which run wrote the file and whether it is complete. `pc` is where
`create`/`finish`/`Drop` stand, `hadOld` is `had_old_key`, `base` remembers the
pair found by the run.

*Actions.* One per file-system call of `wr` 141–293 that a crash can separate
from the next: `Create`, `CloseDat`, `OpenKeyTmp`, `FillKeyTmp`,
`MoveOldKeyAside`, `SwapDat`, `SwapKey`, `RemoveBak`, their failures where the
code handles one, `PutOldKeyBack`, `RemoveKeyTmp`, `DropSink`, and `Crash`.
`Abort` is the importer giving up during the write phase. Which calls may
return an error is the constant `Fallible`.

*Abstraction.* What is in a complete file is left out: only the run that wrote
it decides whether a key fits a data file. One import process at a time. A
crash is the death of the process; nothing in the writer calls `fsync`, so
power loss is outside the code's promises and the model's.

*Refinement.* `StoreService` has one variable for what is in service.
`NuDbPublish` maps a missing file to "out of service", a pair of one run to that
run, and any other pair to a value `StoreService` never takes.

### ChunkReplay

*State.* `state`, `root`, `prev` are `state`, `current_root` and
`prev_ledger_hash` of `replay_chunk`; `store`, `trees`, `headers` the objects
the sink holds; `txdb`, `rows` what goes to the two databases; `intact` whether
each file opened so far matches its own `chunk_hash`; `anchors` the checkpoint
hashes. `faithful` is no variable of the program: it is there for the properties
and says of the files read so far what no check of the importer looks at.

*Actions.* `OpenChunk` (checkpoint read, checked, written), `ReplayDelta` (one
iteration with every check and every write in the code's order of effect),
`FinishChunk`, `Publish`, and a `Reject…` for each place that bails out. Since
everything written is discarded when a check fails, failing is one state. The
two replay functions make the same checks on the same data; the difference kept
is *when* the chunk hash is compared (`HashCheckedFirst`).

*Inputs.* Whatever a file can say: any list of nodes, also with forged contents,
with a type a node does not have in a ledger, with an inner node that does not
parse or is in compressed form, or with a hash listed twice for different nodes;
any list of deleted hashes, any TX_MAP, right or wrong ledger hash.

*Abstraction.* A node is its hash, its type, whether it parses, and the child hash
in each slot. `hashed` is what its content hashes to when hashed as its type
demands (`recompute_node_hash`), and `Authentic` compares it with the hash the node
is listed under. SHA-512Half is taken to be collision free for contents of one
type, so that hash and type together determine the slots (`NodeAssumption`). The
hash alone does not: the content of an inner node with the prefix `MIN\0` before
it, listed as a leaf, has the inner node's hash and no children. `Genuine` gives
for a hash the node it stands for in a ledger, and `Labelled` says that the file
gives each node that node's type. The walk of `check_tree_complete` counts visits
(`Visits`), not nodes; `NoNodeTwice` says that the two are the same. `faithful` is
both, over all files so far. A list that repeats a hash with the very same node is
not distinguished from one that has it once. A transaction set stands for the root
`build_tx_tree` gives.

### ChunkExport and LedgerArchive

*State.* `state`, `next` (`seq`), `prev` (the ledger `prev_account_hash` belongs
to), `chunkStart`, `conc` and `batch` are `main`'s variables; `writer` is what
the open ChunkWriter has written; `tmps` and `archive` are the directory.

*Actions.* `Begin`, `FetchBatch` (the pairs given to `diff_batch_concurrent`),
`WriteDelta` or `ChunkIsFull` for the next result, `FillHash`, `Rename`,
`OpenNextChunk`, `RangeIsDone`; `Fails` (any `?`, with `ChunkWriter::drop`),
`BeginFails`, `Crash`. A rerun uses the same arguments.

*Abstraction.* A tree is its set of nodes. What `NuDBReader::diff` returns for
two trees is not computed but chosen from `NodeDiff!DiffLists`: the difference of the
two, with any nodes that changed depth in both lists and, if `OldNodesGone`,
without the nodes under an unreadable one. `NuDBReader` is proved to answer
nothing else (`DiffIsExact`). Transactions pass through unchanged.

*Refinement.* `LedgerArchive` has no chunks, batches or temporary files: the
archive read back holds the first ledgers of the range with the right trees, and
grows at its end. The mapping reads the archive back as the importer does, by
replaying from the checkpoint of the file a ledger is in.

### ImportRun

*State.* The variables of `NuDbPublish`, whose steps it takes (`Sink`); `at` is
where `main` stands, `pending` is `ledger_rows`, `txTmp` and `txdb` are
`transaction.db` under its two names (with the number of times each ledger's
account rows are in it), `ledgerDb` the ledgers with a row.

*Actions.* `Begin` creates the sink; `CreateTxdb`, `RefuseTxdb` (a file is
there); `ReplayChunk` per file; `CommitTxdb` and `PublishTxdb`; `SwapStep`,
`SwapDone`; `WriteRow` per row; `Complete`. `GiveUp` and `SinkDropped` are an
early return, in which the destructors run; `Crash` is the death of the process
anywhere. Two steps are not the program's: `XrpldStarts` creates a
`transaction.db`, `TxdbTakenAway` is the operator making room for another run.

*Abstraction.* A chunk file is the list of its ledgers; its first, the
checkpoint, gets no row. A rerun has the same arguments.

### NuDbTable

*State.* `records` and `blocks` give the node or the spill block at a position
of `.dat`, `length` is how long the file is, `offset` the sink's counter, from
which it takes every offset it stores; `placed`, `buckets`, `spillOffsets`,
`overflow` and `nextSpill` are `finish`'s; `keyFile` is the sequence of blocks of
`.key`; `fetch` is a call of `Shard::fetch` with the block it is reading.

*Actions.* `WriteNode`; then `SizeTable`, `PlaceEntry` per entry, and for each
bucket `SplitBucket` (sort, keep what fits), `WriteSpillBlock` from the tail of
the chain on, `ChainWritten`; `WriteKeyFile`. A lookup is `Fetch`, `NextBlock`
along the chain, `Found` or `Absent`.

*Abstraction.* A value is its length. The 48-bit prefix of a hash is any element
of `Nhash`, so that prefixes collide. A stable sort is a permutation that puts
equal prefixes in the order they had. Writer and reader each take the number of
buckets from what they have (the entries written, the blocks read) and each has
its own bucket function.

### SHAMap, ValueCodec and NuDBReader

*State.* A behaviour is one call: `call` holds its operation, roots and shards,
`pc` where it stands. `stack` and `visited` are the locals of those names (or
the frontier of a level), `found` the result, `probes` what each rung of the
ladder measured, `conc` the level returned, `answers` the results of a batch.

*Actions.* `Sample`, `StartProbing` or `TooFewToCalibrate`, then per rung
`ProbeGains`, `ProbeIsMarginal` or `ProbeIsSlow`, and `LadderEnds`; `StartWalk`,
`Visit` per node when serial, `VisitLevel` per level when not; `Diff` per pair
of a batch, in any order when concurrent; and for each of them the error.

*Abstraction.* SHA-512Half is taken to be collision free, so that a node's hash
is its content. The store does not change during a call: a parallel iterator is
a choice of order, and its errors give no partial result. The recursions of
`diff_nodes`, its helpers and `build_level` are recursive functions on the nodes
of the trees at hand. The order in which children are pushed is the model's own:
it decides when a walk meets a node, not which nodes it meets. The lists of a diff
are not sorted by hash, as hashes have no order here. A probe is what it measures
when every request takes the time chosen from `Latencies`: as many rounds of it as
its nodes need with the level's workers. In `ValueCodec` the values of a store are
those xrpld writes (sparse or full inner nodes, compressed leaves) and those
xrla-import does (all raw); lz4 is its own inverse, and varints are left out.

*Composition.* `DiffExact` says that the lists are members of
`NodeDiff!DiffLists`, which is all `ChunkExport` assumes; `ImporterAccepts`
replays a batch with `NodeMap`'s operators, of which `ChunkReplay` is made.

### ChunkCodec

*State.* `chunk` is what was written, `file` what the readers meet after
`damage`; `at`, `remaining` and `got` are ChunkReader's place,
`deltas_remaining` and what it has handed out; `stream` and `whole` are the
verdicts of the two readers.

*Actions.* ChunkReader's calls in the order the importer makes them (`Open`,
`ReadCheckpoint`, `ReadPair`, `Finish`) with their errors, then `Deserialize`.

*Abstraction.* A body is a sequence of numbers, one for each field of fixed
length and each byte of content, so that a reader that lost its place goes on
reading what it finds. Counts and lengths are cut to `U16` and `U32`, and
`end - start` wraps as in a release build. A body stands for its hash.

### IndexBuild

*State.* `tmp` and `out` are the file each name leads to, `file` says of every
file whether it has its tables and its meta rows, `conn` is the file a builder
has open, which may no longer have a name. *Actions*: the calls of
`build_index` in order, `Fail` (any error, with `TmpGuard`), `Kill`.
*Abstraction*: the ledgers indexed are one step, which the chunk's hash ends.

### IndexQuery, TxMeta, MetaDecode, DiffTest

*State.* `chunk` is what was read, `rows` and `locator` are the two tables,
`refused` metadata that ended the build; `ask`, `marker` and `got` a query,
where its last page ended and all rows shown; `xrpld` and `verdict` a comparison.

*Actions.* `IndexAnyTx`, `FinishLedger` with its check of the TransactionIndex
values, `Abort`; `Ask`, `FullPage` and `LastPage`, after which the user goes on
with the printed marker or stops; `CompareAny`.

A page is any sequence that fits what the query says of it (WHERE, ORDER BY,
LIMIT); SQLite is not modelled further.

*Metadata* is written by `TxMeta` (xrpld's serialization and its
`getAffectedAccounts`, modelled from the account of them at the top of
`meta_decode.rs`) as a sequence of cells, a field header or the bytes a decoder
takes at once, and read by `MetaDecode`, which fails or goes astray if the next
cell is not what it takes it for. One transaction in a chunk of its own has any
of some hundred kinds of metadata, cut after any cell; the others have one field
per account.

*Comparison.* `Databases` are the tables of an xrpld that saved the same
ledgers, and all that differ from them in one row or one transaction; the range
compared may reach past the index.

## 3. Runs

| Run | Bounds | Shows |
|---|---|---|
| `publish` | 4 runs, 3 crashes, all failures but the key's rename | pairing, complete files only under final names, nothing lost, failed runs change nothing, successful ones are served; refines `StoreService` |
| `replay` | 8 hashes, 1 file, 2 deltas | rows chained, and complete in the store as long as the file calls each node what it is |
| `replay_shared` | 8 hashes, 2 files of 1 delta, no transactions | files sharing one sink: no live node missing or, with the same proviso, replaced; the hash of each file checked before anything is published |
| `export` | 5 ledgers, chunk sizes 1, 2, 3, 5, batches of 1, 2, 4, 2 runs | files replay, headers right, the range covered, refines `LedgerArchive`, every run ends |
| `reader` | trees of up to 4 leaves, binary, keys of 3 nibbles; ladders 1, 3, 4 and 1, 3, 4, 5, 8; a sample of 6 | a walk has every node once; a diff is in `DiffLists` and the importer accepts it; calibration's level was tried and safe; the transactions found are those of the tree |
| `chunk_codec` | chunks of 1 to 3 ledgers, both layouts, every single damage; U16 = 3, U32 = 16 | what is written is read; what is accepted was written; the readers agree |
| `import_run` | 2 chunk files of 3 and 2 ledgers, 3 runs, 2 crashes, all 4 choices of outputs | `transaction.db` exact, `ledger.db` not ahead of the store, "Import complete." means all of it |
| `table` | 5 hashes, 3 prefixes, 2 entries to a block | every node found, no other; chains end; offsets right |
| `index_build` | 2 builders, 4 runs | unless runs overlap a final index is complete and failures leave the old one; in any case an index that opens is verified |
| `index_query` | 3 transactions, 2 ledgers, 2 accounts, pages of 1 and 2; some hundred kinds of metadata in a chunk of one, cut anywhere; comparisons of up to 2 transactions | decoding gives xrpld's answer or an error; pages are the query's result, in order; paging ends; a PASS means equal rows |

*Why the bounds are enough.* A run of NuDbSink depends on earlier ones only
through five files; three crashed runs followed by one that ends reach every
combination of leftovers (a fourth adds no state but the run numbers). In
`MCChunkReplay` six of the hashes make two trees of depth two and three in which a
leaf moves up, a root moves down and an inner node is added or dropped; the others
are an inner node that names a child twice and a compressed one. The lists are all
that hold these nodes, right or forged, and one for each way of calling a node what
it is not (`OddLists`). Two deltas are what it takes for a ledger to be neither
checkpoint nor last, two files for one to meet another's nodes. In `MCChunkExport` batches and chunks
divide the range evenly, unevenly and not at all, a chunk may be one ledger, and
the trees replace, keep, restore and drop nodes. A second run meets every state
a first one can leave; so it does in `ImportRun`. In `NuDbTable` five entries
make three, four or five buckets over a modulus of four or eight, so that the
fold is used, and in one bucket they fill it and a chain of two blocks. Two
builders of an index are enough for one to remove, take over or rename the
other's file, and four runs for each to come back to what that left. In
`IndexQuery` a page ends inside a ledger, between ledgers and exactly at the
end; `MaxRows` is never reached.

In `MCNuDBReader` the trees differ in every shape of pair the diff tells apart:
equal, empty, two inner nodes, a leaf against an inner node above or below it,
at each depth; and a node may be missing from the old tree, the new one or both.
Its `Latencies` let a rung gain 15 % or miss it by the least, and queue up or
just not; its ladders are longer than the sample of the smaller trees, so that
the sample runs out before the ladder does. The blobs of transactions have
lengths on both sides of the limits of the variable-length prefix. In `MCChunkCodec` lists and blobs
are empty, of one and of two entries; `Long` has `U16` bytes, so that a length
is cut; hashes are larger than any file, so that one taken for a count ends the
reading, as four bytes of a real one do but for odds of one in millions; a
damage puts into each cell a small count, the footer or a hash. The metadata of
`MCIndexQuery` has each type of field the decoder tells apart, in `NewFields`,
`FinalFields` and outside of them, with the zero account and the absent one. A type
the decoder does not know (`XCHAIN_BRIDGE`) is among them, alone and beside a
TransactionIndex.
The databases
compared differ from the right one in one row or one transaction: two
differences that hide each other would have to be in the same transaction.

*Deadlock* is not checked in any run: every program and every call here ends.

*Fairness.* `PagingEnds` is about a user who follows the markers: weak fairness
on asking for the next page, nothing else. Only `RunsEnd` needs it of the
program. `ChunkExport!FairSpec` has weak fairness on `Work`, the steps of a run
in progress: the program is sequential there and nothing waits for anything, so
a run that is neither killed nor in error goes on. Starting a run is not fair,
nor is failing.

### Runs that find a disagreement

| Run | Property | What happens |
|---|---|---|
| `publish_torn` | `PairedStore` | If the *second* rename of the swap returns an error, the rollback puts the old key beside the new data file: the pairing the comment at `wr` 244 rules out. Only this run lets that rename fail (`"swap_key"` in `Fallible`). |
| `export_gone` | `CheckpointsExact` | `collect_deleted` (`rd` 446) ignores an unreadable old node; the nodes under it stay in the running state and enter the next checkpoint, which the importer then rejects. |

Other disagreements the models show, each a few steps from the initial state,
for which no run is kept:

- *A checkpoint without its header* (`ChunkReplay!OpenChunk`). With `--txdb` the
  transactions of the checkpoint ledger are written (`imp` 589) but not its
  header, which only the loop over the deltas stores; `imp` 73 says the option
  "also writes each ledger's header".
- *A node that is called what it is not* (`ChunkReplay!Labelled`). A node's type is
  the file's (`state_tree.rs` 33), and no check looks at it. An inner node listed as
  a leaf, with the hash prefix in its content (`AsLeaf` in `MCChunkReplay`), has
  the same hash, is walked as one without children (`imp` 213), and the checkpoint
  passes with the nodes under it missing; `imp` 55 says that an accepted one "is
  complete (every child present, no extra nodes)". In the sink it takes the place
  of the inner node, whichever file lists that later. Without `faithful`,
  `RowsServed` and `LiveNodesStored` fail in their runs.
- *A node visited twice* (`NodeMap!Visits`). `imp` 203 says a SHAMap holds no node
  twice, so that no visited set is needed, and compares the visits with the size
  of the map. That is so of a ledger's tree, but the map is the file's: an inner
  node that names a child twice (`d` in `MCChunkReplay`) is counted once too often,
  and a node that is not in the tree makes up for it. It stays in the live map,
  with its children missing, and a delta may refer to it.
- *A v2 checkpoint is walked before it is rehashed* (`imp` 370, 374). Until then
  nothing says that its nodes form a tree: with two that name each other the walk
  does not end. The model's walk is over nodes already rehashed, so that it does;
  the outcome is otherwise the same, since either check ends the import.
- *Overlapping index builds* (`IndexBuild`, `CompleteAtOut` without its
  `~overlap`). A builder removes the temporary file of another and opens its own;
  the other renames that one, unfinished, to the final name and reports success
  (`build.rs` 76, 138; its comment at 4 says the name is reached only after the
  check). `OpenedIsVerified` shows that a reader still refuses it until it is
  complete.
- *transaction.db replaced* (`ImportRun`: `CreateTxdb`, `XrpldStarts`,
  `PublishTxdb`). The file is looked for at the start and renamed over at the
  end; one that xrpld has created in between is replaced (`txdb.rs` 51 says an
  existing one is refused because xrpld owns it).
- *An import that cannot be repeated* (`ImportRun`: `PublishTxdb`, `Crash`,
  `RefuseTxdb`). With `--txdb`, a run cut short after `transaction.db` got its
  name leaves rows of `ledger.db` missing, and its repetition is refused before
  it comes to them (`imp` 778 calls rerunning idempotent).
- *Chunk sizes near 2^32* (`ChunkExport`, `ChunkSizes = {15}` with
  `WordSize = 16`). `chunk_start + chunk_size - 1` wraps in u32, and the header
  and file name get an end before the start (`exp` 122). `NoWrap` excludes it.
- *Linking chunks.* `spec/chunk-format.md` 275 says `checkpoint_hash` of chunk
  N+1 should equal the last `ledger_hash` of chunk N; the exporter starts the
  chunk with the ledger after it (`OpenNextChunk`).
- *Bytes after the footer* (`ChunkCodec`, the third case of `ReadersAgree`).
  `spec/chunk-format.md` 86 and 246 say the hash covers everything to the end of
  the file. `deserialize_chunk` hashes that; `ChunkReader::finish` hashes what it
  has read and does not ask whether anything follows.
- *Lengths that do not fit* (`ChunkCodec`, `RoundTrip` without `Fits`). A node of
  2^16 bytes, or that many transactions in a ledger, is written with its count
  cut (`ser` 443), and no reader gets the chunk back.
- *The other direction of difftest* (`DiffTest!compare_index`). Its comment
  (`crates/xrla-difftest/src/main.rs` 304) says that anything the index holds and
  xrpld does not is reported; a row of `tx_locator` without rows in `account_tx`
  is not. `PassMeansEqual` is stated for what is compared.
- *The latency of a probe* (`NuDBReader!QueuesUp`). `rd` 197 calls it the
  per-request latency; the code divides the time of a probe by its nodes, so with
  L workers a request may take up to L times the limit before the ladder is
  abandoned. Beyond the first rung a level that queues up is not 15 % faster
  either, so that `CalibrationSafe` holds by the other check.
- *`--limit 0`* (`IndexQuery` with 0 in `Limit`). An empty page counts as a full
  one, and its last row is unwrapped (`crates/xrla-index/src/main.rs` 112).

## 4. Proofs

All theorems are checked by TLAPS with no assumption but the ones listed.

**NuDbPublish_proofs** (any number of runs and crashes). The invariant `IInv`
says, for each step of `finish`, which files of this run are complete and where
the old pair is; without it nothing rules out renaming a temporary file left by
another run. Proved: `TypeOK`; `FinalFilesComplete` and `PublishedIsServed`
whichever calls fail; under `KeySwapNeverFails` ("swap_key" is not fallible, the
case `publish_torn` refutes) `PairedStore`, `KeyOfDatOnDisk` and
`ImplementsService`; `FailedRunLeavesStore` if putting the old key back does not
fail either.

**ChunkReplay_proofs** (any hashes, files, numbers of files and deltas). What is
proved of every file, whatever it says: `TypeOK`, `RowsChained`,
`OnlyIntactPublished` (which does not depend on verification), and that the hash of
every live node is in the store. `RowsServed` and the rest of `LiveNodesStored` have
`faithful` as a premise, as the code does not make them true without it (see the
disagreements above). They need `StoreInv`: while the files are faithful, the store
holds nothing but ledgers' own nodes, so that "first write wins" cannot matter, and
is closed under their slots. It holds only such nodes because rehashing and the right
type fix the slots (`LabelledIsGenuine`). It is closed by the central argument of
incremental verification: the walk of a checkpoint that counts no node twice has met
every node of the map (`CompleteIsClosed`); and if the store is closed and has the
live map, the added nodes are authentic and their children are in the new map, it
stays closed, whichever nodes were deleted, since it only grows. No tree between the
checkpoint and the last has to be walked.

**ChunkExport_proofs** (any range, trees, chunk and batch sizes, runs, failures
and kills). Five invariants: `Flow`, the batch holds the ledgers from `prev + 1`
on, each paired with the one before; `Bounds`, the open chunk has a delta for
each ledger from `chunkStart + 1` to `prev` and is closed exactly when full or
at the end; `Cover`, everything before the open chunk is in the archive;
`Trees`, the running state is the tree of `prev`; `Gapless`, the ledgers in
files are those from `Start` to some ledger. They give `TypeOK`;
`FinalFilesReplay` under `StoreKeepsNodes` (`~OldNodesGone`, the case
`export_gone` refutes); `HeaderTellsRange` and `DoneCoversRange` under `NoWrap`
(end + chunk size fits the word, the case of chunk sizes near 2^32); and under
both `ImplementsArchive`. Its mapping replays the file a ledger is in, whichever
of several is chosen. `ReadBackIsTree` shows by induction on the place in the
file that every one of them gives the source's tree, so that the archive depends
on `Held` only. `Held` grows by a rename, of a chunk that begins at the latest
where the files end (`Cover`), so that a rename extends the archive at its end or
leaves it as it is, and no other step touches it.

**NuDbTable_proofs** (any nodes, prefixes, values, block capacity).
`CounterExact` is inductive as it stands. `FetchExact` and `ChainDescends` need
`IInv`: every entry in `placed`, in a bucket, in `overflow` or in a spill block
tells the position, size and prefix of a record, and lies in the bucket its
prefix goes to (`EntriesInv`); no record is without an entry (`RecordsInv`); the
spill blocks of a bucket form one chain in which each points to the nearest one
before it (`ChainInv`); and a lookup has the record it is after in its block or,
if anywhere, in one before it on the chain (`FetchInv`), so that the end of the
chain means there is none. Writer and reader compute the bucket from `Modulus`
of the same number: `ModulusFacts` says that the doubling loop is a function of
it, ends, and ends at a number whose half is below it, and `BucketExists` that
the fold of linear hashing then lands in the table. The loop is a recursive
function, defined on what doubling can reach; the lemma is an induction on the
distance to the end, taken through a least counterexample.

**IndexBuild_proofs** (any builders and runs). `OpenedIsVerified`, whatever the
builders do to each other's names: only a builder whose chunk had the right hash
completes a file (`VerifiedInv`). For runs that do not overlap, `AloneInv` says
that the one builder at work holds the temporary name and has left the final one
as it found it, up to the rename; it gives `CompleteAtOut` and
`FailureKeepsOldIndex`.

**ImportRun_proofs** (any chunk files, options, crashes, reruns).
`CommandImplementsSink`: each step of the command is one of `NuDbPublish` or
leaves the sink's variables alone, so that the theorems about the swap hold here.
With them, `CompleteMeansAll` (a row is in `ledger.db` or still pending,
`RowsInv`); `TxdbExact` if no two chunk files share a ledger, which nothing in
the importer checks (`ChunksDisjoint`); and `RowsAfterStore` under
`KeySwapNeverFails`: once there are rows, the key in place *and* the one a
rollback would put back are of a run (`NewerInv`). Under the same condition the
command as a whole implements `StoreService` (`CommandImplementsService`).

**IndexQuery_proofs** (any chunk, page size, database). `PassMeansEqual` needs
nothing but the tables' primary keys, which make the rows of a transaction agree
on ledger and index (`RowsInv`), and what the two comparisons of difftest say
together; it holds of any database and any decoder. The other three rest on
`DecoderExact`, that a blob of the chunk, whole or cut, is read as xrpld reads
it or refused: never accepted with a field of an unknown type, and never refused if
it is whole, has an index and all its types are known (`Decodable`). It is a hypothesis because `summarize_meta` is a recursion over
its blob; the run checks it of each kind of metadata (`DecodedExact` with one
transaction to a chunk). From it `IndexInv`: the tables hold the rows of the
chunk's transactions and no others, each transaction comes once, and the indices
of every finished ledger are 0..n. That gives `DecodedExact` for chunks of any
size, and `LocatorExact`, since an index is then the number of transactions
before it. `AnswerComplete` is `PagingInv`: the rows shown so far are an initial
part of those asked for, and the marker is the last of them.

**NuDBReader_proofs** (any trees, shards, ladders that climb and latencies; the
largest module, in three parts).
`CalibrationSafe` needs that while the ladder is climbed the last probe is the
best so far and none has queued up (`ClimbInv`), since the property compares the
level chosen with every rung and the code only with the one before. The rest is
arithmetic: the order of throughputs, compared crosswise, is transitive, and a
probe that queues up cannot be faster than one that does not, which is why the
probe the code throws away does not matter. Of the constants it assumes that each
ladder has two rungs and climbs, and that no latency is 0. `WalkExact` is proved
under `WalksAreSound`: the root is a SHAMap's, no deeper than keys are long, and a
shard holds under a hash that hash's node or no node. Its invariant is that the
children of a visited node are visited or on the stack (`SerialInv`), or found or
in the frontier (`LevelsInv`), and that nothing found is found again; with nothing
left to visit, the nodes found are closed under children, and `NodesAreReached`
says that a tree has no more: `NodesOf` is unfolded level by level, with the
induction used for `ModulusFacts`.

`DiffExact` and `ImporterAccepts` are proved under `DiffsAreSound`: the shards are
as before and the trees are ordered by keys (`IsKeyed`: every leaf under a slot has
the slot's number as its nibble at that depth, and an inner node other than the
root has more than one leaf). What has to be seen is that the recursion, which
compares position by position, never lists a node twice or deletes one it should
keep, although a leaf may change its depth. Two facts about SHAMaps carry this. Nodes
under different slots are different, also when one is of the old tree and the
other of the new (`SlotsDisjoint`); and an inner node is at the same depth
in every tree it is in, since the keys under it agree exactly up to there
(`InnerNodesStay`), so that an inner node replaced at one place cannot be needed at
another. `collect_added`, `collect_deleted` and `diff_nodes` are recursive
functions; that they are what their equations say, and that every result is right
(`DiffsAreRight`: no repetitions, added and deleted what the subtrees differ by, up
to nodes in both), goes by `TreeInduction`, from the leaves up, on the sets of
nodes at a depth. `DiffInv` then says of a batch that each answer that is there is
the right one of its own pair, in whichever order they came. For
`ImporterAccepts` the deltas are replayed in order (`NextTree`), and the new root
is the one added inner node that no other refers to, as a root is under no node
(`OneNewRoot`).

`WalksAreSound` and `DiffsAreSound` take the codecs for granted. The run's trees
satisfy what they say of trees (`MCTrees`, which TLC evaluates), and its shards
are written by `ValueCodec`, so that there the properties are about the codecs as well.

*Model-checked only.*

- `RunsEnd` and `PagingEnds`: liveness under fairness is beyond the prover.
- `TxTreeExact`: `build_level` recurses over a set of leaves and a depth at once,
  and the result is sorted with an order given as an operator, which the
  provers do not take.
- `RoundTrip`, `AcceptedIsWritten` and `ReadersAgree` of `chunk_codec`: what folds
  over lists of numbers compute, with operators as parameters.
- The value codecs (what `WalksAreSound` and `DiffsAreSound` say of shards) and the
  metadata decoder (`DecoderExact`), for the same reason.

*The leaves of the proofs* are kept small: each is found by SMT or Zenon in a
fraction of a second, so that the modules also check on a slow or busy machine.

## 5. Plan

Every component is modelled but for the parts listed below, and every property
within the provers' reach is proved. If the code changes, the next candidates are
a codec for chunks written as a recursive function on positions, about which
`AcceptedIsWritten` could be proved for any damage, and `build_level` as a function
of the leaves under a prefix.

*Not modelled.*

- `xrla-inspect`, the command line, progress and printing; `parse_tx_fields` and
  base58 addresses; the bit layout of ledger headers, varints and
  variable-length prefixes; lz4; SQLite and the connection to xrpld's ledger
  database: formatting and I/O without control of their own.
- `scan_dat` (`dat.rs`): nothing calls it. Its comment that zero sizes are only
  found at the end of a file is not true of a file with spill records.
- A reader that opens `.dat` and `.key` while the importer swaps them, and two
  importers of one store: there is no lock, and the code promises nothing for
  either.
- `--verify-only`: the replay of `ChunkReplay` with a sink that discards what it is
  given (`NullSink`). The checks are the same; nothing is written or published.
- Power loss: nothing calls `fsync`, and the code speaks of crashes of the
  process only.
