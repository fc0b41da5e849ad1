---------------------------- MODULE StoreService ----------------------------
(***************************************************************************)
(* What NuDbSink promises to a program that opens the store it writes      *)
(* (xrpld, or Shard::open in keyfile.rs), without saying how: at any time  *)
(* the store is either out of service, and opening it fails loudly, or it  *)
(* serves exactly what one complete import run wrote.  A run may take the  *)
(* store out of service, then put its own output in service or restore     *)
(* what it found.  It never puts anything else in service, and it never    *)
(* replaces a served store in place.                                       *)
(***************************************************************************)
EXTENDS Naturals

CONSTANT MaxRuns

None == MaxRuns + 1        \* out of service

VARIABLES
  run,      \* number of the last run started; 0 before the first
  served,   \* the run whose output is served, or None
  found     \* what was served when the last run started

vars == <<run, served, found>>

Init ==
  /\ run = 0
  /\ served \in {0, None}
  /\ found = served

Begin ==
  /\ run < MaxRuns
  /\ run' = run + 1
  /\ found' = served
  /\ UNCHANGED served

TakeDown ==
  /\ served = found
  /\ served' = None
  /\ UNCHANGED <<run, found>>

PutInService ==
  /\ served = None
  /\ served' = run
  /\ UNCHANGED <<run, found>>

Restore ==
  /\ served = None
  /\ served' = found
  /\ UNCHANGED <<run, found>>

Next == Begin \/ TakeDown \/ PutInService \/ Restore

Spec == Init /\ [][Next]_vars

=============================================================================
