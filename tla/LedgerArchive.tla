--------------------------- MODULE LedgerArchive ---------------------------
(***************************************************************************)
(* What xrla-export promises about its output directory, without chunks,   *)
(* batches or temporary files: at any time the archive, read back, holds   *)
(* the ledgers from Start to some ledger, each with the state tree the     *)
(* source has for it.  It only grows, and at its end.                      *)
(***************************************************************************)
EXTENDS Naturals

CONSTANTS
  Start, End,   \* the ledgers asked for, both included
  Tree          \* the nodes of each ledger's state tree

VARIABLES
  last,      \* the last ledger in the archive; Start - 1 when empty
  readBack   \* the tree the archive gives for each ledger it holds

vars == <<last, readBack>>

Init ==
  /\ last = Start - 1
  /\ readBack = [s \in {} |-> {}]

Extend ==
  /\ \E upTo \in (last + 1)..End :
       /\ last' = upTo
       /\ readBack' = [s \in Start..upTo |-> Tree[s]]

Next == Extend

Spec == Init /\ [][Next]_vars

=============================================================================
