----------------------------- MODULE IndexBuild -----------------------------
(***************************************************************************)
(* xrla-index build (build_index): an index is written to <out>.tmp while  *)
(* the chunk is read, and renamed to <out> once the chunk's hash has been  *)
(* verified.  Any step may fail, a builder may be killed anywhere and run  *)
(* again, and several may work on the same output at once.                 *)
(*                                                                         *)
(* A name leads to a file, and a builder's connection stays with its file  *)
(* when the name is removed or taken over by another.  What the index of a *)
(* good chunk contains is IndexQuery.                                      *)
(***************************************************************************)
EXTENDS Naturals, FiniteSets

CONSTANTS
  Builder,   \* who runs the command
  MaxRuns,   \* bound: runs in all
  None       \* no file

ASSUME BuildAssumption == MaxRuns \in Nat /\ None \notin Nat

VARIABLES
  intact,   \* does the chunk match its chunk_hash
  tmp, out, \* the file each name leads to
  file,     \* every file: has it a schema, is it complete
  pc,       \* where each builder is
  conn,     \* the file it has open
  found,    \* what <out> led to when it started
  runs,     \* runs started
  made,     \* files created
  overlap   \* history: were two runs ever under way at the same time

vars == <<intact, tmp, out, file, pc, conn, found, runs, made, overlap>>

\* Files are numbered as they are created; 0 is an index built before.
File == 0..MaxRuns

Ended == {"idle", "refused", "failed", "unsynced", "done", "killed"}

Init ==
  /\ intact \in BOOLEAN
  /\ tmp = None /\ out \in {0, None}
  /\ file = [f \in File |-> [schema |-> f = 0, complete |-> f = 0]]
  /\ pc = [b \in Builder |-> "idle"]
  /\ conn = [b \in Builder |-> None]
  /\ found = [b \in Builder |-> None]
  /\ runs = 0 /\ made = 0 /\ overlap = FALSE

Goto(b, where) == pc' = [pc EXCEPT ![b] = where]

-----------------------------------------------------------------------------
(* build_index                                                             *)

\* Without --force an index in place ends the run, and so does a chunk that
\* cannot be opened.
Start(b) ==
  /\ pc[b] \in Ended /\ runs < MaxRuns
  /\ runs' = runs + 1
  /\ found' = [found EXCEPT ![b] = out]
  /\ conn' = [conn EXCEPT ![b] = None]
  /\ overlap' = (overlap \/ \E c \in Builder : pc[c] \notin Ended)
  /\ \E force \in BOOLEAN :
       \/ Goto(b, "refused")
       \/ (out = None \/ force) /\ Goto(b, "clean")
  /\ UNCHANGED <<intact, tmp, out, file, made>>

\* Mutant: --force makes room for the new index at once.
CleanBoth(b) ==
  /\ pc[b] = "clean"
  /\ tmp' = None /\ out' = None
  /\ Goto(b, "open")
  /\ UNCHANGED <<intact, file, conn, found, runs, made, overlap>>

\* "a stale one from a killed run"
Clean(b) ==
  /\ pc[b] = "clean"
  /\ tmp' = None
  /\ Goto(b, "open")
  /\ UNCHANGED <<intact, out, file, conn, found, runs, made, overlap>>

\* Connection::open creates the file, or opens the one another builder has
\* put there meanwhile.
Open(b) ==
  /\ pc[b] = "open"
  /\ \/ tmp = None /\ made' = made + 1 /\ tmp' = made'
     \/ tmp # None /\ UNCHANGED <<made, tmp>>
  /\ conn' = [conn EXCEPT ![b] = tmp']
  /\ Goto(b, "schema")
  /\ UNCHANGED <<intact, out, file, found, runs, overlap>>

\* CREATE TABLE fails if the table exists: of two builders with one file open
\* only one goes on.
CreateSchema(b) ==
  /\ pc[b] = "schema"
  /\ ~file[conn[b]].schema
  /\ file' = [file EXCEPT ![conn[b]].schema = TRUE]
  /\ Goto(b, "stream")
  /\ UNCHANGED <<intact, tmp, out, conn, found, runs, made, overlap>>

\* Mutant: reader.finish() is not called.
StreamUnverified(b) ==
  /\ pc[b] = "stream"
  /\ Goto(b, "commit")
  /\ UNCHANGED <<intact, tmp, out, file, conn, found, runs, made, overlap>>

\* Every ledger is indexed, then reader.finish() verifies the chunk's hash.
Stream(b) ==
  /\ pc[b] = "stream"
  /\ intact
  /\ Goto(b, "commit")
  /\ UNCHANGED <<intact, tmp, out, file, conn, found, runs, made, overlap>>

\* Mutant: the transaction is dropped, which rolls it back.
CloseUncommitted(b) ==
  /\ pc[b] = "commit"
  /\ Goto(b, "sync")
  /\ UNCHANGED <<intact, tmp, out, file, conn, found, runs, made, overlap>>

\* The meta rows, "complete" last, and the commit; the connection is closed.
Commit(b) ==
  /\ pc[b] = "commit"
  /\ file' = [file EXCEPT ![conn[b]].complete = TRUE]
  /\ Goto(b, "sync")
  /\ UNCHANGED <<intact, tmp, out, conn, found, runs, made, overlap>>

\* File::open goes by the name again.
Sync(b) ==
  /\ pc[b] = "sync" /\ tmp # None
  /\ Goto(b, "rename")
  /\ UNCHANGED <<intact, tmp, out, file, conn, found, runs, made, overlap>>

Rename(b) ==
  /\ pc[b] = "rename" /\ tmp # None
  /\ out' = tmp
  /\ tmp' = None
  /\ Goto(b, "placed")
  /\ UNCHANGED <<intact, file, conn, found, runs, made, overlap>>

\* The directory is synced.  If that fails the run returns an error, but the
\* guard is disarmed and the index is in place.
SyncDir(b) ==
  /\ pc[b] = "placed"
  /\ Goto(b, "done") \/ Goto(b, "unsynced")
  /\ UNCHANGED <<intact, tmp, out, file, conn, found, runs, made, overlap>>

-----------------------------------------------------------------------------
(* Failures                                                                *)

\* An error anywhere while the guard is armed: TmpGuard removes what it finds
\* under the temporary name.
Fail(b) ==
  /\ pc[b] \in {"open", "schema", "stream", "commit", "sync", "rename"}
  /\ tmp' = None
  /\ Goto(b, "failed")
  /\ UNCHANGED <<intact, out, file, conn, found, runs, made, overlap>>

Kill(b) ==
  /\ pc[b] \notin Ended
  /\ Goto(b, "killed")
  /\ UNCHANGED <<intact, tmp, out, file, conn, found, runs, made, overlap>>

\* Index::open refuses a file without the meta rows, the last of which is
\* "complete".
Opens(f) == file[f].complete

Work(b) ==
  \/ Clean(b) \/ Open(b) \/ CreateSchema(b) \/ Stream(b) \/ Commit(b)
  \/ Sync(b) \/ Rename(b) \/ SyncDir(b) \/ Fail(b)

Next == \E b \in Builder : Start(b) \/ Work(b) \/ Kill(b)

Spec == Init /\ [][Next]_vars

-----------------------------------------------------------------------------
(* Properties                                                              *)

TypeOK ==
  /\ intact \in BOOLEAN
  /\ {tmp, out} \subseteq File \cup {None}
  /\ file \in [File -> [schema : BOOLEAN, complete : BOOLEAN]]
  /\ pc \in [Builder -> Ended \cup {"clean", "open", "schema", "stream", "commit",
                                    "sync", "rename", "placed"}]
  /\ conn \in [Builder -> File \cup {None}] /\ found \in [Builder -> File \cup {None}]
  /\ runs \in 0..MaxRuns /\ made \in 0..runs /\ overlap \in BOOLEAN
  /\ \A b \in Builder : pc[b] \in {"schema", "stream", "commit"} => conn[b] # None

\* "the index only reaches its final name after that check passes" (build.rs):
\* what the final name leads to is complete.  Not so when runs overlap: one may
\* rename, by its name, the temporary file another has just begun.
CompleteAtOut == ~overlap /\ out # None => file[out].complete

Ends(b) == pc[b] \notin Ended /\ pc'[b] \in Ended

\* "A bad chunk, a decode failure, or a kill at any point leaves nothing at the
\* final path - and a previously built index there is left exactly as it was."
FailureKeepsOldIndex ==
  [][\A b \in Builder :
       Ends(b) /\ pc'[b] \in {"failed", "killed"} /\ ~overlap =>
         out' = found[b] \/ (pc[b] = "placed" /\ out' = conn[b] /\ file[out'].complete)]_vars

\* Whatever builders do to each other, an index that Index::open accepts was
\* built from a chunk that passed its hash.
OpenedIsVerified == out \notin {None, 0} /\ Opens(out) => intact

-----------------------------------------------------------------------------
(* The inductive invariants of the proofs                                  *)

\* Files are numbered within bounds: whoever may still create one has a run of
\* its own.
Opening == {b \in Builder : pc[b] \in {"clean", "open"}}

FilesInv ==
  /\ IsFiniteSet(Opening) /\ made + Cardinality(Opening) <= runs
  /\ tmp # None => tmp \in 1..made

\* Only a verified chunk completes a file.
VerifiedInv ==
  /\ \A b \in Builder : pc[b] = "commit" => intact
  /\ \A f \in File \ {0} : file[f].complete => intact

\* As long as runs have not overlapped the builder at work has the names to
\* itself: up to the rename, the final name leads to what it found there and the
\* temporary one to the file it has open.
AloneInv ==
  ~overlap =>
    /\ \A b, c \in Builder : pc[b] \notin Ended /\ pc[c] \notin Ended => b = c
    /\ \A b \in Builder :
         /\ pc[b] = "open" => tmp = None
         /\ pc[b] \in {"schema", "stream", "commit", "sync", "rename"} => tmp = conn[b]
         /\ pc[b] \in {"sync", "rename"} /\ conn[b] # None => file[conn[b]].complete
         /\ pc[b] = "placed" => out = conn[b] /\ out # None
         /\ pc[b] \notin Ended \cup {"placed"} => out = found[b]

IInv == TypeOK /\ FilesInv /\ VerifiedInv /\ AloneInv /\ CompleteAtOut

=============================================================================
