----------------------------- MODULE ChunkCodec -----------------------------
(***************************************************************************)
(* The bytes of a chunk file: what serialize_chunk (format v2) and         *)
(* ChunkWriter (v3) write, and what the two readers make of a file, whole  *)
(* (deserialize_chunk) or piece by piece (ChunkReader), if some of it was  *)
(* damaged in between.                                                     *)
(*                                                                         *)
(* The body of a file is a sequence of cells, one per field of fixed       *)
(* length and one per byte of a node's content or of a blob.  Cells are    *)
(* numbers, so that a reader that lost its place goes on reading.  A body  *)
(* stands for its SHA-512Half, taken to be collision free.                 *)
(***************************************************************************)
EXTENDS Integers, Sequences, FiniteSets, SequencesExt

CONSTANTS
  Chunks,      \* chunks to write
  Damages,     \* damages a file may suffer, see Damaged
  U16, U32,    \* 2^16 and 2^32 in the code: counts and lengths are cut to these
  FOOTER       \* the cell for "ENDX"

ASSUME WidthAssumption == U16 \in Nat \ {0} /\ U32 \in Nat \ {0} /\ FOOTER \in Nat

VARIABLES
  chunk,      \* what was written
  file,       \* header fields and body, as the readers meet them
  damage,     \* what happened to it
  pc,         \* where the reading is
  at,         \* ChunkReader: the next cell
  remaining,  \* ChunkReader: deltas_remaining
  got,        \* ChunkReader: what it has handed out
  stream,     \* its verdict: "none" yet, "ok" or "error"
  whole       \* what deserialize_chunk answered

vars == <<chunk, file, damage, pc, at, remaining, got, stream, whole>>

-----------------------------------------------------------------------------
(* Writing                                                                 *)

\* write_node
write_node(n) == <<n.hash, n.type, Len(n.content) % U16>> \o n.content

write_hash(h) == <<h>>

write_tx(t) == <<t.hash, Len(t.tx) % U32>> \o t.tx \o <<Len(t.meta) % U32>> \o t.meta

\* A count and the entries.
write_list(seq, Write(_), width) ==
  <<Len(seq) % width>> \o FlattenSeq([k \in DOMAIN seq |-> Write(seq[k])])

\* sort_by hash: the lists are sets of entries with different hashes.
ByHash(S) == SetToSortSeq(S, LAMBDA x, y : x.hash < y.hash)
Sorted(S) == SetToSortSeq(S, LAMBDA x, y : x < y)

write_node_list(nodes) == write_list(ByHash(nodes), write_node, U32)

write_delta(d) ==
  <<d.seq>> \o write_node_list(d.added) \o write_list(Sorted(d.deleted), write_hash, U32)

\* The fields between account_hash and the count have fixed lengths: one cell.
write_tx_map(m) ==
  <<m.seq, m.ledger_hash, m.account_hash, m.fields>> \o write_list(ByHash(m.txns), write_tx, U16)

\* serialize_body: all deltas, then all tx_maps.
serialize_body(c) ==
  write_node_list(c.checkpoint)
    \o FlattenSeq([k \in DOMAIN c.deltas |-> write_delta(c.deltas[k])])
    \o FlattenSeq([k \in DOMAIN c.tx_maps |-> write_tx_map(c.tx_maps[k])])
    \o <<FOOTER>>

\* Mutant: the delta of a ledger after its TX_MAP.
StreamedBodySwapped(c) ==
  write_node_list(c.checkpoint)
    \o write_tx_map(c.tx_maps[1])
    \o FlattenSeq([k \in DOMAIN c.deltas |->
                     write_tx_map(c.tx_maps[k + 1]) \o write_delta(c.deltas[k])])
    \o <<FOOTER>>

\* What ChunkWriter's calls add up to: each ledger's delta before its tx_map.
streamed_body(c) ==
  write_node_list(c.checkpoint)
    \o write_tx_map(c.tx_maps[1])
    \o FlattenSeq([k \in DOMAIN c.deltas |->
                     write_delta(c.deltas[k]) \o write_tx_map(c.tx_maps[k + 1])])
    \o <<FOOTER>>

Body(c, version) == IF version = 3 THEN streamed_body(c) ELSE serialize_body(c)

\* The header; network_id and checkpoint_hash are copied and left out.
serialize(c, version) ==
  [version |-> version, start |-> c.start, end |-> c.end,
   chunk_hash |-> Body(c, version), body |-> Body(c, version)]

-----------------------------------------------------------------------------
(* Reading: what was read, and the next cell; the end of the file or a     *)
(* value out of range is an error                                          *)

Eof == [ok |-> FALSE, at |-> 0, val |-> <<>>]
Read(val, next) == [ok |-> TRUE, at |-> next, val |-> val]

read_cells(b, i, n) ==
  IF i + n - 1 <= Len(b) THEN Read(SubSeq(b, i, i + n - 1), i + n) ELSE Eof

\* A count and the entries.  Each entry takes a cell or more.
read_list(b, i, ReadOne(_, _)) ==
  IF i > Len(b) \/ i + b[i] > Len(b) THEN Eof
  ELSE FoldLeft(LAMBDA r, k :
                  IF ~r.ok THEN r
                  ELSE LET one == ReadOne(b, r.at)
                       IN  IF one.ok THEN Read(Append(r.val, one.val), one.at) ELSE Eof,
                Read(<<>>, i + 1), [k \in 1..b[i] |-> k])

\* A length and that many cells.
read_blob(b, i) == IF i > Len(b) THEN Eof ELSE read_cells(b, i + 1, b[i])

\* NodeType::try_from
NodeTypes == 0..4

read_node(b, i) ==
  IF i + 2 > Len(b) \/ b[i + 1] \notin NodeTypes \/ ~read_blob(b, i + 2).ok THEN Eof
  ELSE Read([hash |-> b[i], type |-> b[i + 1], content |-> read_blob(b, i + 2).val],
            read_blob(b, i + 2).at)

read_hash(b, i) == IF i > Len(b) THEN Eof ELSE Read(b[i], i + 1)

read_tx(b, i) ==
  LET tx   == read_blob(b, i + 1)
      meta == read_blob(b, tx.at)
  IN  IF ~tx.ok THEN Eof
      ELSE IF ~meta.ok THEN Eof
      ELSE Read([hash |-> b[i], tx |-> tx.val, meta |-> meta.val], meta.at)

read_delta(b, i) ==
  LET added   == read_list(b, i + 1, read_node)
      deleted == read_list(b, added.at, read_hash)
  IN  IF ~added.ok THEN Eof
      ELSE IF ~deleted.ok THEN Eof
      ELSE Read([seq |-> b[i], added |-> added.val, deleted |-> deleted.val], deleted.at)

read_tx_map(b, i) ==
  LET txns == read_list(b, i + 4, read_tx)
  IN  IF i + 4 > Len(b) THEN Eof
      ELSE IF ~txns.ok THEN Eof
      ELSE Read([seq |-> b[i], ledger_hash |-> b[i + 1], account_hash |-> b[i + 2],
                 fields |-> b[i + 3], txns |-> txns.val], txns.at)

\* One reader after another: x, then Read2 from where x ended, put under the
\* name list of what has been read.
AndThen(x, list, Read2(_, _), b) ==
  IF ~x.ok THEN Eof
  ELSE LET y == Read2(b, x.at)
       IN  IF y.ok THEN Read([x.val EXCEPT ![list] = Append(@, y.val)], y.at) ELSE Eof

Footer(b, i) == i <= Len(b) /\ b[i] = FOOTER

\* end_ledger - start_ledger, in u32: in a release build it wraps.
DeltaCount(f) == (f.end - f.start) % U32

Contents(checkpoint) == [checkpoint |-> checkpoint, deltas |-> <<>>, tx_maps |-> <<>>]

Repeat(x, n, Step(_)) == FoldLeft(LAMBDA r, k : Step(r), x, [k \in 1..n |-> k])

\* deserialize_chunk: the hash of everything to the end of the file first,
\* then the layout the version tells.  Asking for more memory than there is
\* (delta_count wrapped) counts as an error.
Refused == [ok |-> FALSE, chunk |-> Contents(<<>>)]

deserialize_chunk(f) ==
  LET b      == f.body
      nodes  == read_list(b, 1, read_node)
      start  == IF nodes.ok THEN Read(Contents(nodes.val), nodes.at) ELSE Eof
      Delta(r) == AndThen(r, "deltas", read_delta, b)
      TxMap(r) == AndThen(r, "tx_maps", read_tx_map, b)
      Pair(r)  == TxMap(Delta(r))
      all == IF f.version = 3
             THEN Repeat(TxMap(start), DeltaCount(f), Pair)
             ELSE Repeat(Repeat(start, DeltaCount(f), Delta), DeltaCount(f) + 1, TxMap)
  IN  IF f.version \in {2, 3} /\ f.chunk_hash = b /\ all.ok /\ Footer(b, all.at)
      THEN [ok |-> TRUE, chunk |-> all.val]
      ELSE Refused

-----------------------------------------------------------------------------
(* A file is written, and may be damaged                                   *)

\* One cell changed or added, the rest cut off, or a field of the header
\* changed.
Damaged(f, d) ==
  CASE d.what = "cell"   -> [f EXCEPT !.body[d.at] = d.to]
    [] d.what = "cut"    -> [f EXCEPT !.body = SubSeq(@, 1, d.at - 1)]
    [] d.what = "append" -> [f EXCEPT !.body = Append(@, d.to)]
    [] d.what = "header" -> [f EXCEPT ![d.field] = d.to]
    [] d.what = "hash"   -> [f EXCEPT !.chunk_hash = <<>>]
    [] d.what = "none"   -> f

\* Is there anything in the file for this damage to change?
Applies(f, d) == d.what \in {"cell", "cut"} => d.at <= Len(f.body)

Init ==
  /\ chunk \in Chunks
  /\ \E version \in {2, 3}, d \in Damages :
       LET f == serialize(chunk, version)
       IN  /\ Applies(f, d) /\ (d.what = "none" \/ Damaged(f, d) # f)
           /\ damage = d
           /\ file = Damaged(f, d)
  /\ pc = "open" /\ at = 1 /\ remaining = 0
  /\ got = Contents(<<>>) /\ stream = "none" /\ whole = Refused

-----------------------------------------------------------------------------
(* ChunkReader                                                             *)

\* Any `?`: the caller drops what it has read.
Gives(verdict) ==
  /\ stream' = verdict
  /\ pc' = "whole"
  /\ UNCHANGED <<chunk, file, damage, remaining, got, whole>>

\* ChunkReader::open streams version 3 only.
Open ==
  /\ pc = "open" /\ file.version = 3
  /\ remaining' = DeltaCount(file)
  /\ pc' = "checkpoint"
  /\ UNCHANGED <<chunk, file, damage, at, got, stream, whole>>

OpenFails ==
  /\ pc = "open" /\ file.version # 3
  /\ Gives("error") /\ UNCHANGED at

\* read_checkpoint and read_checkpoint_tx_map
First == LET nodes == read_list(file.body, 1, read_node)
         IN  IF nodes.ok
             THEN AndThen(Read(Contents(nodes.val), nodes.at), "tx_maps", read_tx_map, file.body)
             ELSE Eof

ReadCheckpoint ==
  /\ pc = "checkpoint" /\ First.ok
  /\ got' = First.val /\ at' = First.at
  /\ pc' = "deltas"
  /\ UNCHANGED <<chunk, file, damage, remaining, stream, whole>>

ReadCheckpointFails ==
  /\ pc = "checkpoint" /\ ~First.ok
  /\ Gives("error") /\ UNCHANGED at

\* next_delta_tx_map
Pair == AndThen(AndThen(Read(got, at), "deltas", read_delta, file.body),
                "tx_maps", read_tx_map, file.body)

ReadPair ==
  /\ pc = "deltas" /\ remaining # 0 /\ Pair.ok
  /\ got' = Pair.val /\ at' = Pair.at
  /\ remaining' = remaining - 1
  /\ UNCHANGED <<chunk, file, damage, pc, stream, whole>>

ReadPairFails ==
  /\ pc = "deltas" /\ remaining # 0 /\ ~Pair.ok
  /\ Gives("error") /\ UNCHANGED at

\* Mutant: the hash of what was read is not compared.
FooterOnly ==
  /\ pc = "deltas" /\ remaining = 0
  /\ Footer(file.body, at)
  /\ at' = at + 1
  /\ Gives("ok")

\* finish: the footer, and the hash of what was read, footer included.
Finish ==
  /\ pc = "deltas" /\ remaining = 0
  /\ Footer(file.body, at)
  /\ file.chunk_hash = SubSeq(file.body, 1, at)
  /\ at' = at + 1
  /\ Gives("ok")

FinishFails ==
  /\ pc = "deltas" /\ remaining = 0
  /\ ~(Footer(file.body, at) /\ file.chunk_hash = SubSeq(file.body, 1, at))
  /\ Gives("error") /\ UNCHANGED at

\* The same file, read whole.
Deserialize ==
  /\ pc = "whole"
  /\ whole' = deserialize_chunk(file)
  /\ pc' = "done"
  /\ UNCHANGED <<chunk, file, damage, at, remaining, got, stream>>

Next == \/ Open \/ OpenFails
        \/ ReadCheckpoint \/ ReadCheckpointFails
        \/ ReadPair \/ ReadPairFails
        \/ Finish \/ FinishFails
        \/ Deserialize

Spec == Init /\ [][Next]_vars

-----------------------------------------------------------------------------
(* Properties                                                              *)

\* No length or count is cut, and the header tells the number of deltas.
Fits ==
  LET nodes == chunk.checkpoint \cup UNION {d.added : d \in ToSet(chunk.deltas)}
  IN  /\ \A n \in nodes : Len(n.content) < U16
      /\ \A m \in ToSet(chunk.tx_maps) : Cardinality(m.txns) < U16
      /\ Len(chunk.tx_maps) = Len(chunk.deltas) + 1
      /\ chunk.end - chunk.start = Len(chunk.deltas)

\* The chunk as a reader hands it out: every list sorted by hash.
Written ==
  [checkpoint |-> ByHash(chunk.checkpoint),
   deltas  |-> [k \in DOMAIN chunk.deltas |->
                  [chunk.deltas[k] EXCEPT !.added = ByHash(@), !.deleted = Sorted(@)]],
   tx_maps |-> [k \in DOMAIN chunk.tx_maps |-> [chunk.tx_maps[k] EXCEPT !.txns = ByHash(@)]]]

\* A file that was not damaged is read back as the chunk that was written, in
\* either layout and by either reader (serialize_chunk, ChunkWriter,
\* deserialize_chunk, ChunkReader).
RoundTrip ==
  pc = "done" /\ damage.what = "none" /\ Fits =>
    /\ whole = [ok |-> TRUE, chunk |-> Written]
    /\ file.version = 3 => stream = "ok" /\ got = Written

\* Whatever single damage a file suffers, in its body or in the header that no
\* hash covers, a reader that accepts it has read what was written, with as
\* many ledgers as the header now says: also if end_ledger is now below
\* start_ledger and their difference wraps (ChunkReader, deserialize_chunk).
AcceptedIsWritten ==
  Fits =>
    /\ stream = "ok" => got = Written /\ DeltaCount(file) = Len(got.deltas)
    /\ whole.ok => whole.chunk = Written /\ DeltaCount(file) = Len(whole.chunk.deltas)

\* The two readers give the same answer for a v3 file of any content, but for
\* one thing: bytes after the footer are not in the hash the streaming reader
\* compares (ChunkReader::finish, deserialize_chunk).
ReadersAgree ==
  pc = "done" /\ file.version = 3 =>
    \/ stream = "ok" /\ whole = [ok |-> TRUE, chunk |-> got]
    \/ stream = "error" /\ ~whole.ok
    \/ stream = "ok" /\ at <= Len(file.body)

=============================================================================
