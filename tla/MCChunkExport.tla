--------------------------- MODULE MCChunkExport ---------------------------
(* Five ledgers for ChunkExport: one node replaced, an empty diff, a node   *)
(* that comes back, a tree that shrinks.                                    *)
EXTENDS ChunkExport

CONSTANTS a, b, c

MCTree == [s \in Start..End |->
  CASE s = Start     -> {a, b}
    [] s = Start + 1 -> {a, c}
    [] s = Start + 2 -> {a, c}
    [] s = Start + 3 -> {a, b, c}
    [] OTHER         -> {b}]

=============================================================================
