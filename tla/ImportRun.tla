----------------------------- MODULE ImportRun -----------------------------
(***************************************************************************)
(* xrla-import as a whole: the order in which one command creates, fills   *)
(* and publishes its three outputs, and what failures, kills and reruns of *)
(* the same command leave.  The NuDB store is NuDbPublish, step by step;   *)
(* transaction.db (TxDbSink) is built under a temporary name and renamed;  *)
(* the rows of ledger.db go into the live database one at a time.          *)
(*                                                                         *)
(* What is replayed and checked is ChunkReplay.  Here a chunk file is the  *)
(* ledgers it holds, and its replay succeeds or ends the command.          *)
(***************************************************************************)
EXTENDS Naturals, Sequences, FiniteSets

CONSTANTS
  Chunks,                         \* the --chunk files, each as its ledgers
  MaxRuns, MaxCrashes, Fallible   \* those of NuDbPublish

Ledgers == UNION {{Chunks[n][k] : k \in DOMAIN Chunks[n]} : n \in DOMAIN Chunks}

ASSUME ChunksAssumption == Chunks \in Seq(Seq(Nat) \ {<<>>}) /\ Chunks # <<>>

VARIABLES
  disk, pc, run, hadOld, result, base, crashes,   \* those of NuDbPublish
  options,    \* which of --txdb and --ledger-db every run is given
  at,         \* where main is; "down" when no import runs
  chunk,      \* chunk files replayed
  pending,    \* ledger_rows not yet in ledger.db
  txTmp,      \* <txdb>.tmp
  txdb,       \* transaction.db
  ledgerDb,   \* the ledgers with a row in ledger.db
  outcome     \* how the last run ended

sinkVars == <<disk, pc, run, hadOld, result, base, crashes>>
vars == <<disk, pc, run, hadOld, result, base, crashes,
          options, at, chunk, pending, txTmp, txdb, ledgerDb, outcome>>

Sink == INSTANCE NuDbPublish

ASSUME SinkAssumption ==
  MaxRuns \in Nat /\ MaxCrashes \in Nat /\ Fallible \subseteq Sink!Step

-----------------------------------------------------------------------------
(* transaction.db                                                          *)

\* How many times the AccountTransactions rows of each ledger are in a file.
NoRows == [l \in Ledgers |-> 0]

NoFile == [by |-> "nobody", rows |-> NoRows]
OurFile(rows) == [by |-> "import", rows |-> rows]

\* AccountTransactions has no key: a ledger written twice is there twice.
WithLedgersOf(file, ledgers) ==
  [file EXCEPT !.rows = [l \in Ledgers |->
     @[l] + Cardinality({k \in DOMAIN ledgers : ledgers[k] = l})]]

-----------------------------------------------------------------------------
(* Runs                                                                    *)

TypeOK ==
  /\ Sink!TypeOK
  /\ options \subseteq {"txdb", "ledger_db"}
  /\ at \in {"down", "txdb", "replay", "publish", "swap", "rows", "giving_up"}
  /\ chunk \in 0..Len(Chunks)
  /\ pending \in Seq(Ledgers)
  /\ txTmp \in [by : {"nobody", "import"}, rows : [Ledgers -> Nat]]
  /\ txdb \in [by : {"nobody", "import", "xrpld"}, rows : [Ledgers -> Nat]]
  /\ ledgerDb \subseteq Ledgers
  /\ outcome \in {"none", "ok", "err", "refused", "crash"}
  /\ pc = "down" <=> at \in {"down", "rows"}

Init ==
  /\ Sink!Init
  /\ options \in SUBSET {"txdb", "ledger_db"}
  /\ at = "down" /\ chunk = 0 /\ pending = <<>>
  /\ txTmp = NoFile
  /\ txdb \in {NoFile, [by |-> "xrpld", rows |-> NoRows]}
  /\ ledgerDb = {}
  /\ outcome = "none"

Begin ==
  /\ at = "down"
  /\ Sink!Create
  /\ at' = IF "txdb" \in options THEN "txdb" ELSE "replay"
  /\ chunk' = 0 /\ pending' = <<>> /\ outcome' = "none"
  /\ UNCHANGED <<options, txTmp, txdb, ledgerDb>>

\* The command ends with an error: the sink is dropped.
GiveUp(how) ==
  /\ Sink!Abort
  /\ at' = "giving_up"
  /\ outcome' = how
  /\ UNCHANGED <<options, chunk, pending, ledgerDb>>

SinkDropped ==
  /\ at = "giving_up"
  /\ Sink!DropSink
  /\ at' = "down"
  /\ UNCHANGED <<options, chunk, pending, txTmp, txdb, ledgerDb, outcome>>

-----------------------------------------------------------------------------
(* TxDbSink::create                                                        *)

\* Mutant: <txdb>.tmp is opened, not removed first; SQLite keeps its rows.
CreateTxdbOverOldTmp ==
  /\ at = "txdb" /\ txdb.by = "nobody"
  /\ txTmp' = OurFile(txTmp.rows)
  /\ at' = "replay"
  /\ UNCHANGED <<sinkVars, options, chunk, pending, txdb, ledgerDb, outcome>>

CreateTxdb ==
  /\ at = "txdb" /\ txdb.by = "nobody"
  /\ txTmp' = OurFile(NoRows)
  /\ at' = "replay"
  /\ UNCHANGED <<sinkVars, options, chunk, pending, txdb, ledgerDb, outcome>>

\* "already exists; refusing to overwrite or merge"
RefuseTxdb ==
  /\ at = "txdb" /\ txdb.by # "nobody"
  /\ GiveUp("refused")
  /\ UNCHANGED <<txTmp, txdb>>

\* An error after the file was opened leaves it: there is no TxDbSink to drop.
CreateTxdbFails ==
  /\ at = "txdb" /\ txdb.by = "nobody"
  /\ GiveUp("err")
  /\ txTmp' = OurFile(NoRows)
  /\ UNCHANGED txdb

-----------------------------------------------------------------------------
(* The chunk files                                                         *)

\* Mutant: `ledger_rows = replay.ledger_rows` for `extend`.
ReplayForgetsRows ==
  /\ at = "replay" /\ chunk < Len(Chunks)
  /\ chunk' = chunk + 1
  /\ pending' = Tail(Chunks[chunk + 1])
  /\ txTmp' = IF "txdb" \in options THEN WithLedgersOf(txTmp, Chunks[chunk + 1]) ELSE txTmp
  /\ UNCHANGED <<sinkVars, options, at, txdb, ledgerDb, outcome>>

\* The first ledger of a chunk is its checkpoint: its transactions are
\* written, but it gets no row.
ReplayChunk ==
  /\ at = "replay" /\ chunk < Len(Chunks)
  /\ chunk' = chunk + 1
  /\ pending' = pending \o Tail(Chunks[chunk + 1])
  /\ txTmp' = IF "txdb" \in options THEN WithLedgersOf(txTmp, Chunks[chunk + 1]) ELSE txTmp
  /\ UNCHANGED <<sinkVars, options, at, txdb, ledgerDb, outcome>>

\* A check or a write fails.  Dropping a TxDbSink removes its file.
ReplayFails ==
  /\ at = "replay" /\ chunk < Len(Chunks)
  /\ GiveUp("err")
  /\ txTmp' = IF "txdb" \in options THEN NoFile ELSE txTmp
  /\ UNCHANGED txdb

-----------------------------------------------------------------------------
(* TxDbSink::finish, then NuDbSink::finish                                 *)

\* COMMIT, the indexes, close.
CommitTxdb ==
  /\ at = "replay" /\ chunk = Len(Chunks)
  /\ "txdb" \in options
  /\ at' = "publish"
  /\ UNCHANGED <<sinkVars, options, chunk, pending, txTmp, txdb, ledgerDb, outcome>>

NoTxdb ==
  /\ at = "replay" /\ chunk = Len(Chunks)
  /\ "txdb" \notin options
  /\ at' = "swap"
  /\ UNCHANGED <<sinkVars, options, chunk, pending, txTmp, txdb, ledgerDb, outcome>>

PublishTxdb ==
  /\ at = "publish"
  /\ txdb' = txTmp
  /\ txTmp' = NoFile
  /\ at' = "swap"
  /\ UNCHANGED <<sinkVars, options, chunk, pending, ledgerDb, outcome>>

\* Commit, indexes or rename fail.  finish has taken the connection, so Drop
\* leaves the file.
FinishTxdbFails ==
  /\ \/ at = "replay" /\ chunk = Len(Chunks) /\ "txdb" \in options
     \/ at = "publish"
  /\ GiveUp("err")
  /\ UNCHANGED <<txTmp, txdb>>

\* NuDbSink::finish up to its last step.
SwapStep ==
  /\ at = "swap"
  /\ \/ Sink!CloseDat \/ Sink!OpenKeyTmp \/ Sink!FillKeyTmp \/ Sink!KeyTmpFails
     \/ Sink!MoveOldKeyAside \/ Sink!MoveOldKeyAsideFails
     \/ Sink!SwapDat \/ Sink!SwapDatFails \/ Sink!SwapKey
     \/ Sink!PutOldKeyBack \/ Sink!RemoveKeyTmp
  /\ UNCHANGED <<options, at, chunk, pending, txTmp, txdb, ledgerDb, outcome>>

SwapDone ==
  /\ at = "swap"
  /\ Sink!RemoveBak
  /\ at' = "rows"
  /\ UNCHANGED <<options, chunk, pending, txTmp, txdb, ledgerDb, outcome>>

\* finish returns an error, or a write of its own fails before the key file.
SwapFailed ==
  /\ at = "swap"
  /\ \/ Sink!DropSink /\ at' = "down"
     \/ Sink!Abort /\ at' = "swap"
  /\ outcome' = "err"
  /\ UNCHANGED <<options, chunk, pending, txTmp, txdb, ledgerDb>>

-----------------------------------------------------------------------------
(* write_ledger_db                                                         *)

\* Mutant: the rows are written before the store is in place.
WriteRowEarly ==
  /\ at \in {"swap", "rows"} /\ "ledger_db" \in options /\ pending # <<>>
  /\ ledgerDb' = ledgerDb \cup {Head(pending)}
  /\ pending' = Tail(pending)
  /\ UNCHANGED <<sinkVars, options, at, chunk, txTmp, txdb, outcome>>

\* INSERT OR IGNORE, each in a transaction of its own.
WriteRow ==
  /\ at = "rows" /\ "ledger_db" \in options /\ pending # <<>>
  /\ ledgerDb' = ledgerDb \cup {Head(pending)}
  /\ pending' = Tail(pending)
  /\ UNCHANGED <<sinkVars, options, at, chunk, txTmp, txdb, outcome>>

WriteRowFails ==
  /\ at = "rows" /\ "ledger_db" \in options
  /\ at' = "down"
  /\ outcome' = "err"
  /\ UNCHANGED <<sinkVars, options, chunk, pending, txTmp, txdb, ledgerDb>>

Complete ==
  /\ at = "rows"
  /\ "ledger_db" \in options => pending = <<>>
  /\ at' = "down"
  /\ outcome' = "ok"
  /\ UNCHANGED <<sinkVars, options, chunk, pending, txTmp, txdb, ledgerDb>>

-----------------------------------------------------------------------------
(* The process dies; what else happens to the files                        *)

Crash ==
  /\ at # "down"
  /\ IF pc = "down" THEN UNCHANGED sinkVars ELSE Sink!Crash
  /\ at' = "down"
  /\ outcome' = "crash"
  /\ UNCHANGED <<options, chunk, pending, txTmp, txdb, ledgerDb>>

\* xrpld is started: it creates the database it does not find.
XrpldStarts ==
  /\ txdb.by = "nobody"
  /\ txdb' = [by |-> "xrpld", rows |-> NoRows]
  /\ UNCHANGED <<sinkVars, options, at, chunk, pending, txTmp, ledgerDb, outcome>>

\* The operator moves transaction.db out of the way of another run.
TxdbTakenAway ==
  /\ at = "down" /\ txdb.by # "nobody"
  /\ txdb' = NoFile
  /\ UNCHANGED <<sinkVars, options, at, chunk, pending, txTmp, ledgerDb, outcome>>

Next ==
  \/ Begin \/ SinkDropped
  \/ CreateTxdb \/ RefuseTxdb \/ CreateTxdbFails
  \/ ReplayChunk \/ ReplayFails
  \/ CommitTxdb \/ NoTxdb \/ PublishTxdb \/ FinishTxdbFails
  \/ SwapStep \/ SwapDone \/ SwapFailed
  \/ WriteRow \/ WriteRowFails \/ Complete
  \/ Crash \/ XrpldStarts \/ TxdbTakenAway

Spec == Init /\ [][Next]_vars

-----------------------------------------------------------------------------
(* Properties                                                              *)

\* The ledgers that get a row: all but the checkpoints.
RowLedgers == UNION {{Chunks[n][k] : k \in 2..Len(Chunks[n])} : n \in DOMAIN Chunks}

\* transaction.db, once published, has every ledger of the chunks, each once:
\* "a crashed import never leaves a half-written transaction.db that xrpld
\* would trust" (txdb.rs), and no rows of a dead run are mixed in.
TxdbExact == txdb.by = "import" => txdb.rows = [l \in Ledgers |-> 1]

\* xrpld finds a ledger by its row in ledger.db.  When it does, the store it
\* opens, if it opens, is one an import of that ledger has written, whichever
\* run crashed or failed where.
RowsAfterStore ==
  ledgerDb # {} /\ Sink!Exists("key") => disk["key"].gen >= 1 /\ disk["dat"] = disk["key"]

\* "Import complete.": this run's store is in place and ledger.db has a row
\* for every ledger but the checkpoints, of all chunk files together.
CompleteMeansAll ==
  outcome = "ok" /\ at = "down" =>
    /\ disk["dat"] = Sink!Whole(run) /\ disk["key"] = Sink!Whole(run)
    /\ "ledger_db" \in options => ledgerDb = RowLedgers

-----------------------------------------------------------------------------
(* The inductive invariant of the proofs                                   *)

\* How main and the sink keep step.
StepInv ==
  /\ at \in {"txdb", "replay", "publish"} => pc = "writing"
  /\ at = "giving_up" => pc = "dropping"
  /\ at = "rows" => result = "ok"
  /\ outcome = "ok" => at = "down" /\ result = "ok"
  /\ at = "txdb" => chunk = 0
  /\ at = "publish" => "txdb" \in options
  /\ at \in {"publish", "swap", "rows"} => chunk = Len(Chunks)
  /\ pc # "down" \/ result = "ok" => run >= 1

\* The database under its temporary name has what was replayed; Once(n) is each
\* ledger of the first n chunk files once.
Once(n) ==
  [l \in Ledgers |-> IF \E m \in 1..n : \E k \in DOMAIN Chunks[m] : Chunks[m][k] = l
                     THEN 1 ELSE 0]

TxdbInv ==
  at \in {"replay", "publish"} /\ "txdb" \in options => txTmp = OurFile(Once(chunk))

\* A row is in ledger.db or still pending.
RowsOf(n) == UNION {{Chunks[m][k] : k \in 2..Len(Chunks[m])} : m \in 1..n}

Pending == {pending[i] : i \in DOMAIN pending}

RowsInv ==
  /\ at \in {"txdb", "replay", "publish", "swap"} => Pending = RowsOf(chunk)
  /\ ledgerDb \subseteq RowLedgers
  /\ at = "rows" => Pending \cup ledgerDb = RowLedgers
  /\ outcome = "ok" /\ "ledger_db" \in options => ledgerDb = RowLedgers

\* Once there are rows the store from before the first run has left: the key in
\* place, and the one a rollback would put back, are of a run.
NewerInv ==
  ledgerDb # {} =>
    /\ Sink!Exists("key") => disk["key"].gen >= 1
    /\ pc # "down" /\ base.key # Sink!Absent => base.key.gen >= 1

IInv == TypeOK /\ StepInv /\ TxdbInv /\ TxdbExact /\ RowsInv /\ NewerInv

=============================================================================
