----------------------------- MODULE NuDbTable -----------------------------
(***************************************************************************)
(* The contents of a NuDB store: NuDbSink appends the nodes to .dat, and   *)
(* at the end places their entries in buckets, spills what a bucket cannot *)
(* hold into chains of blocks behind the nodes, and writes the buckets to  *)
(* .key; Shard::fetch finds a node again from its hash alone.              *)
(*                                                                         *)
(* A value is its length.  Files are bytes appended one after the other:   *)
(* `length` is how long .dat really is, `offset` what the sink believes.   *)
(* How the two files come into place is NuDbPublish.                       *)
(***************************************************************************)
EXTENDS Naturals, Sequences, Functions

CONSTANTS
  Key,        \* the hashes of nodes
  Nhash,      \* what xxh64(key, salt) >> 16 may be: equal for several keys
  Value,      \* the lengths of values
  Capacity    \* BUCKET_CAPACITY, 227

ASSUME TableAssumption ==
  /\ Nhash \subseteq Nat /\ Value \subseteq Nat /\ Capacity \in Nat \ {0}

VARIABLES
  nhashOf,    \* the prefix of each key; it is only looked at when needed
  records, blocks,   \* the nodes and the spill blocks in .dat, by position
  length, offset,
  placed,     \* entries in the order of writing, until they are in a bucket
  buckets,    \* entries by bucket, bucket i in buckets[i + 1]
  spillOffsets,
  overflow,   \* of the bucket being spilled, the entries not yet written
  nextSpill,
  keyFile,    \* the blocks of .key
  pc,
  fetch       \* a call of Shard::fetch

store == <<nhashOf, records, blocks, length, offset, placed, buckets, spillOffsets, overflow,
           nextSpill, keyFile>>
vars == <<nhashOf, records, blocks, length, offset, placed, buckets, spillOffsets, overflow,
          nextSpill, keyFile, pc, fetch>>

DatHeader == 92
RecHeader == 38
BucketBytes(entries) == 8 + 18 * Len(entries)

Entry == [nhash : Nhash, off : Nat, size : Value]
Idle == [state |-> "idle"]

Put(file, position, piece) ==
  [p \in DOMAIN file \cup {position} |-> IF p = position THEN piece ELSE file[p]]

Records == DOMAIN records
Blocks == DOMAIN blocks
Seen == {records[p].key : p \in Records}

Init ==
  /\ nhashOf \in [Key -> Nhash]
  /\ records = <<>> /\ blocks = <<>> /\ length = DatHeader /\ offset = DatHeader
  /\ placed = <<>> /\ buckets = <<>> /\ spillOffsets = <<>>
  /\ overflow = <<>> /\ nextSpill = 0 /\ keyFile = <<>>
  /\ pc = "writing" /\ fetch = Idle

-----------------------------------------------------------------------------
(* NuDbSink                                                                *)

\* "first write wins": a key seen before is skipped.
WriteNode(k, v) ==
  /\ pc = "writing" /\ k \notin Seen
  /\ records' = Put(records, length, [key |-> k, value |-> v])
  /\ length' = length + RecHeader + v
  /\ placed' = Append(placed, [nhash |-> nhashOf[k], off |-> offset, size |-> v])
  /\ offset' = offset + RecHeader + v
  /\ UNCHANGED <<nhashOf, blocks, buckets, spillOffsets, overflow, nextSpill, keyFile, pc, fetch>>

\* For a load of one half, and at least one bucket.
NumBuckets(entries) ==
  IF entries = 0 THEN 1 ELSE (2 * entries + Capacity - 1) \div Capacity

\* `while modulus < num_buckets { modulus <<= 1 }`, from 1.
Modulus(n) ==
  LET doubled[m \in 1..2 * n] == IF m < n THEN doubled[2 * m] ELSE m
  IN doubled[1]

\* Linear hashing: what falls behind the last bucket goes to the lower half.
Bucket(nhash, modulus, n) ==
  LET b == nhash % modulus IN IF b >= n THEN b - modulus \div 2 ELSE b

\* The table is sized for the nodes written.
SizeTable ==
  /\ pc = "writing"
  /\ buckets' = [i \in 1..NumBuckets(Len(placed)) |-> <<>>]
  /\ pc' = "filling"
  /\ UNCHANGED <<nhashOf, records, blocks, length, offset, placed, spillOffsets, overflow,
                 nextSpill, keyFile, fetch>>

PlaceEntry ==
  /\ pc = "filling" /\ placed # <<>>
  /\ LET n == Len(buckets)
         b == Bucket(Head(placed).nhash, Modulus(n), n)
     IN buckets' = [buckets EXCEPT ![b + 1] = Append(@, Head(placed))]
  /\ placed' = Tail(placed)
  /\ UNCHANGED <<nhashOf, records, blocks, length, offset, spillOffsets, overflow, nextSpill,
                 keyFile, pc, fetch>>

\* Entries in another order, and by prefix; sort_by_key is stable.
Reordered(entries, order) == [i \in DOMAIN entries |-> entries[order[i]]]

Sorts(order, entries) ==
  \A i, j \in DOMAIN entries : i < j =>
    LET e == entries[order[i]]
        f == entries[order[j]]
    IN e.nhash < f.nhash \/ (e.nhash = f.nhash /\ order[i] < order[j])

\* The next bucket is sorted and keeps as many entries as fit.
SplitBucket ==
  /\ pc = "filling" /\ placed = <<>> /\ Len(spillOffsets) < Len(buckets)
  /\ LET i == Len(spillOffsets) + 1
         n == Len(buckets[i])
         kept == IF n < Capacity THEN n ELSE Capacity
     IN \E order \in Bijection(DOMAIN buckets[i], DOMAIN buckets[i]) :
          /\ Sorts(order, buckets[i])
          /\ buckets' = [buckets EXCEPT ![i] = SubSeq(Reordered(@, order), 1, kept)]
          /\ overflow' = SubSeq(Reordered(buckets[i], order), kept + 1, n)
  /\ nextSpill' = 0
  /\ pc' = "spilling"
  /\ UNCHANGED <<nhashOf, records, blocks, length, offset, placed, spillOffsets, keyFile, fetch>>

\* Mutant: the chain is written from its head; next_spill points ahead, to where
\* the following block will be if it is as long.
WriteSpillBlockAhead ==
  /\ pc = "spilling" /\ overflow # <<>>
  /\ LET fits == IF Len(overflow) < Capacity THEN Len(overflow) ELSE Capacity
         block == SubSeq(overflow, 1, fits)
         bytes == 8 + BucketBytes(block)
     IN /\ blocks' = Put(blocks, length + 8, [entries |-> block,
                        spill |-> IF fits < Len(overflow) THEN offset + bytes + 8 ELSE 0])
        /\ length' = length + bytes
        /\ nextSpill' = IF nextSpill = 0 THEN offset + 8 ELSE nextSpill
        /\ offset' = offset + bytes
        /\ overflow' = SubSeq(overflow, fits + 1, Len(overflow))
  /\ UNCHANGED <<nhashOf, records, placed, buckets, spillOffsets, keyFile, pc, fetch>>

\* Mutant: the counter passes over the block's body only.
WriteSpillBlockMiscounted ==
  /\ pc = "spilling" /\ overflow # <<>>
  /\ LET start == ((Len(overflow) - 1) \div Capacity) * Capacity
         block == SubSeq(overflow, start + 1, Len(overflow))
     IN /\ blocks' = Put(blocks, length + 8, [entries |-> block, spill |-> nextSpill])
        /\ length' = length + 8 + BucketBytes(block)
        /\ nextSpill' = offset + 8
        /\ offset' = offset + BucketBytes(block)
        /\ overflow' = SubSeq(overflow, 1, start)
  /\ UNCHANGED <<nhashOf, records, placed, buckets, spillOffsets, keyFile, pc, fetch>>

\* write_spill_chain, from the tail: a block of six zero bytes and a size, then
\* the body that the block before it, or the bucket, points to.
WriteSpillBlock ==
  /\ pc = "spilling" /\ overflow # <<>>
  /\ LET start == ((Len(overflow) - 1) \div Capacity) * Capacity
         block == SubSeq(overflow, start + 1, Len(overflow))
     IN /\ blocks' = Put(blocks, length + 8, [entries |-> block, spill |-> nextSpill])
        /\ length' = length + 8 + BucketBytes(block)
        /\ nextSpill' = offset + 8
        /\ offset' = offset + 8 + BucketBytes(block)
        /\ overflow' = SubSeq(overflow, 1, start)
  /\ UNCHANGED <<nhashOf, records, placed, buckets, spillOffsets, keyFile, pc, fetch>>

ChainWritten ==
  /\ pc = "spilling" /\ overflow = <<>>
  /\ spillOffsets' = Append(spillOffsets, nextSpill)
  /\ pc' = "filling"
  /\ UNCHANGED <<nhashOf, records, blocks, length, offset, placed, buckets, overflow, nextSpill,
                 keyFile, fetch>>

WriteKeyFile ==
  /\ pc = "filling" /\ Len(spillOffsets) = Len(buckets)
  /\ keyFile' = [i \in DOMAIN buckets |-> [entries |-> buckets[i], spill |-> spillOffsets[i]]]
  /\ pc' = "open"
  /\ UNCHANGED <<nhashOf, records, blocks, length, offset, placed, buckets, spillOffsets, overflow,
                 nextSpill, fetch>>

-----------------------------------------------------------------------------
(* Shard                                                                   *)

\* Mutant: the reader does not know of the buckets not split yet.
BucketIndexUnfolded(nhash) == (nhash % Modulus(Len(keyFile))) % Len(keyFile)

\* From the number of blocks in .key.
BucketIndex(nhash) ==
  LET modulus == Modulus(Len(keyFile))
      n == nhash % modulus
  IN IF n >= Len(keyFile) THEN n - modulus \div 2 ELSE n

Fetch(k) ==
  /\ pc = "open" /\ fetch.state # "reading"
  /\ fetch' = [state |-> "reading", key |-> k, from |-> length,
               block |-> keyFile[BucketIndex(nhashOf[k]) + 1]]
  /\ UNCHANGED <<store, pc>>

\* The entries of the block with the right prefix whose record has the key.
Matching ==
  {i \in DOMAIN fetch.block.entries :
     LET e == fetch.block.entries[i]
     IN /\ e.nhash = nhashOf[fetch.key]
        /\ e.off \in Records /\ records[e.off].key = fetch.key}

\* The first of them.
Found ==
  /\ pc = "open" /\ fetch.state = "reading"
  /\ \E i \in Matching :
       /\ \A j \in Matching : i <= j
       /\ fetch' = [state |-> "found", key |-> fetch.key, size |-> fetch.block.entries[i].size]
  /\ UNCHANGED <<store, pc>>

NextBlock ==
  /\ pc = "open" /\ fetch.state = "reading" /\ Matching = {}
  /\ fetch.block.spill # 0
  /\ fetch' = IF fetch.block.spill \in Blocks
              THEN [fetch EXCEPT !.from = fetch.block.spill, !.block = blocks[fetch.block.spill]]
              ELSE [fetch EXCEPT !.state = "garbage"]
  /\ UNCHANGED <<store, pc>>

Absent ==
  /\ pc = "open" /\ fetch.state = "reading" /\ Matching = {}
  /\ fetch.block.spill = 0
  /\ fetch' = [state |-> "absent", key |-> fetch.key]
  /\ UNCHANGED <<store, pc>>

Next ==
  \/ \E k \in Key, v \in Value : WriteNode(k, v)
  \/ SizeTable \/ PlaceEntry \/ SplitBucket \/ WriteSpillBlock \/ ChainWritten \/ WriteKeyFile
  \/ \E k \in Key : Fetch(k)
  \/ Found \/ NextBlock \/ Absent

Spec == Init /\ [][Next]_vars

-----------------------------------------------------------------------------
(* Properties                                                              *)

Block == [entries : Seq(Entry), spill : Nat]

Lookup ==
  {Idle} \cup [state : {"reading", "garbage"}, key : Key, from : Nat, block : Block]
    \cup [state : {"found"}, key : Key, size : Value] \cup [state : {"absent"}, key : Key]

\* No block holds more entries than its 4096 bytes.
TypeOK ==
  /\ nhashOf \in [Key -> Nhash]
  /\ \A p \in Records : p \in Nat /\ records[p] \in [key : Key, value : Value]
  /\ \A p \in Blocks : p \in Nat /\ blocks[p] \in Block
  /\ {length, offset, nextSpill} \subseteq Nat
  /\ {placed, overflow} \subseteq Seq(Entry)
  /\ buckets \in Seq(Seq(Entry)) /\ spillOffsets \in Seq(Nat) /\ keyFile \in Seq(Block)
  /\ pc \in {"writing", "filling", "spilling", "open"}
  /\ fetch \in Lookup
  /\ \A i \in DOMAIN keyFile : Len(keyFile[i].entries) <= Capacity

\* The counter from which all entries and spill pointers get their offsets is
\* the position at which the bytes really are.
CounterExact == offset = length

\* What was written first under a hash is what a lookup finds, and nothing is
\* found under any other, whichever hashes share a prefix, a bucket or a chain.
FetchExact ==
  /\ fetch.state = "found" =>
       \E p \in Records :
         /\ records[p].key = fetch.key /\ records[p].value = fetch.size
         /\ \A q \in Records : records[q].key = fetch.key => p <= q
  /\ fetch.state = "absent" => fetch.key \notin Seen
  /\ fetch.state # "garbage"

\* A lookup never goes round: every block of a chain lies before the one that
\* points to it ("building the chain from the tail backward").
ChainDescends == [][NextBlock => fetch'.from < fetch.from]_vars

-----------------------------------------------------------------------------
(* The inductive invariant of the proofs                                   *)

\* The bucket split, or the next to be.
Current == Len(spillOffsets)

Goes(e) == Bucket(e.nhash, Modulus(Len(buckets)), Len(buckets))

\* What an entry says of its record.
Exact(e) ==
  /\ e.off \in Records
  /\ e.size = records[e.off].value /\ e.nhash = nhashOf[records[e.off].key]

Holds(entries, p) == \E i \in DOMAIN entries : entries[i].off = p

\* The spill blocks of a bucket, and a pointer to the last of a chain below p.
Chain(b) == {q \in Blocks : \E i \in DOMAIN blocks[q].entries : Goes(blocks[q].entries[i]) = b}

PointsBelow(spill, p, chain) ==
  /\ spill # 0 => spill \in chain /\ spill < p
  /\ \A q \in chain : q < p => spill # 0 /\ q <= spill

PhaseInv ==
  /\ pc = "writing" => Blocks = {} /\ buckets = <<>> /\ spillOffsets = <<>>
  /\ pc # "writing" => buckets # <<>>
  /\ pc = "spilling" \/ spillOffsets # <<>> => placed = <<>>
  /\ pc # "spilling" => overflow = <<>>
  /\ Current <= Len(buckets)
  /\ pc = "spilling" => Current < Len(buckets)
  /\ \A i \in DOMAIN buckets :
       i <= Current \/ (pc = "spilling" /\ i = Current + 1) => Len(buckets[i]) <= Capacity
  /\ pc # "open" => fetch = Idle /\ keyFile = <<>>
  /\ pc = "open" =>
       /\ Current = Len(buckets)
       /\ keyFile = [i \in DOMAIN buckets |-> [entries |-> buckets[i], spill |-> spillOffsets[i]]]

FileInv ==
  /\ CounterExact /\ DatHeader <= length
  /\ \A p \in Records \cup Blocks : DatHeader <= p /\ p < length
  /\ \A p, q \in Records : records[p].key = records[q].key => p = q

\* Every entry is exact and where it belongs.
EntriesInv ==
  /\ \A i \in DOMAIN placed : Exact(placed[i])
  /\ \A i \in DOMAIN buckets : \A j \in DOMAIN buckets[i] :
       Exact(buckets[i][j]) /\ Goes(buckets[i][j]) = i - 1
  /\ \A j \in DOMAIN overflow : Exact(overflow[j]) /\ Goes(overflow[j]) = Current
  /\ \A q \in Blocks : \A j \in DOMAIN blocks[q].entries : Exact(blocks[q].entries[j])

\* No record is without an entry.
RecordsInv ==
  \A p \in Records :
    \/ Holds(placed, p) \/ Holds(overflow, p)
    \/ \E i \in DOMAIN buckets : Holds(buckets[i], p)
    \/ \E q \in Blocks : Holds(blocks[q].entries, p)

\* A block is in one chain, and each points to the block before it.
ChainInv ==
  /\ \A q \in Blocks : \A b, c \in Nat : q \in Chain(b) /\ q \in Chain(c) => b = c
  /\ \A b \in Nat : \A q \in Chain(b) :
       /\ PointsBelow(blocks[q].spill, q, Chain(b))
       /\ b < Current \/ (b = Current /\ pc = "spilling")
  /\ \A i \in 1..Current : PointsBelow(spillOffsets[i], length, Chain(i - 1))
  /\ pc = "spilling" => PointsBelow(nextSpill, length, Chain(Current))

\* A lookup has the node in its block, or still before it.
FetchInv ==
  fetch.state = "reading" =>
    LET b == BucketIndex(nhashOf[fetch.key])
    IN /\ \A j \in DOMAIN fetch.block.entries : Exact(fetch.block.entries[j])
       /\ PointsBelow(fetch.block.spill, fetch.from, Chain(b))
       /\ \A p \in Records : records[p].key = fetch.key =>
            \/ Holds(fetch.block.entries, p)
            \/ \E q \in Chain(b) : q < fetch.from /\ Holds(blocks[q].entries, p)

IInv ==
  /\ TypeOK /\ PhaseInv /\ FileInv /\ EntriesInv /\ RecordsInv /\ ChainInv /\ FetchInv

=============================================================================
