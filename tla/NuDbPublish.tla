---------------------------- MODULE NuDbPublish ----------------------------
(***************************************************************************)
(* How xrla-nudb's NuDbSink replaces a NuDB store (nudb.dat / nudb.key) on *)
(* disk: create, the long write phase, finish with its swap of two files,  *)
(* its rollback, and Drop.  A run is one import process; it may stop at    *)
(* any step (Crash) and the operator may start another run afterwards.     *)
(*                                                                         *)
(* A file is Absent, or the output of some run that is complete or not.    *)
(* What is inside a complete file is the subject of other modules: here    *)
(* only the run that wrote it matters, because the bucket offsets of a key *)
(* file are meaningful for the data file of the same run and no other.     *)
(*                                                                         *)
(* A crash is the death of the process.  Nothing in the writer calls       *)
(* fsync, so what a power loss leaves is outside the code's promises and   *)
(* outside this model.                                                     *)
(***************************************************************************)
EXTENDS Naturals

CONSTANTS
  MaxRuns,      \* bound: how many import runs are started
  MaxCrashes,   \* bound: how many of them die
  Fallible      \* the file-system steps that may return an error

Step == {"key_write", "aside", "swap_dat", "swap_key", "put_back", "remove"}

ASSUME BoundsAssumption   == MaxRuns \in Nat /\ MaxCrashes \in Nat
ASSUME FallibleAssumption == Fallible \subseteq Step

VARIABLES
  disk,      \* the files of one store directory
  pc,        \* where the import process is; "down" when none runs
  run,       \* number of the current (or last) run
  hadOld,    \* finish's had_old_key
  result,    \* how the last run ended
  base,      \* the data and key file as the current run found them
  crashes    \* crashes so far

vars == <<disk, pc, run, hadOld, result, base, crashes>>

Name == {"dat", "dat.tmp", "key", "key.tmp", "key.bak"}

\* gen 0 is a store that was there before the first run.
File     == [gen : 0..MaxRuns, whole : BOOLEAN]
Absent   == [gen |-> MaxRuns + 1, whole |-> FALSE]
Whole(n)   == [gen |-> n, whole |-> TRUE]
Partial(n) == [gen |-> n, whole |-> FALSE]

Exists(f) == disk[f] # Absent

\* fs::rename: atomic, and it replaces what was at the destination.
Renamed(from, to) == [disk EXCEPT ![to] = disk[from], ![from] = Absent]
Removed(f)        == [disk EXCEPT ![f] = Absent]
Wrote(f, content) == [disk EXCEPT ![f] = content]

\* `let _ = fs::remove_file(f)`: an error is ignored and leaves the file.
RemoveQuietly(f) ==
  \/ disk' = Removed(f)
  \/ "remove" \in Fallible /\ UNCHANGED disk

TypeOK ==
  /\ disk \in [Name -> File \cup {Absent}]
  /\ pc \in {"down", "writing", "flushed", "key_open", "key_full", "aside",
             "dat_in", "key_in", "rollback", "cleanup", "dropping"}
  /\ run \in 0..MaxRuns
  /\ hadOld \in BOOLEAN
  /\ result \in {"none", "running", "ok", "err", "crash"}
  /\ base \in [dat : File \cup {Absent}, key : File \cup {Absent}]
  /\ crashes \in 0..MaxCrashes
  /\ result = "running" => pc # "down"
  /\ pc # "down" => result = "running"

\* The import starts on an empty directory or on a complete store.
Init ==
  /\ \E old \in {Absent, Whole(0)} :
       disk = [f \in Name |-> IF f \in {"dat", "key"} THEN old ELSE Absent]
  /\ pc = "down"
  /\ run = 0
  /\ hadOld = FALSE
  /\ result = "none"
  /\ base = [dat |-> disk["dat"], key |-> disk["key"]]
  /\ crashes = 0

-----------------------------------------------------------------------------
(* Variants of the actions below with a plausible mistake, one per action. *)
(* None is part of Next; each breaks one of the properties.                *)

\* The data file is renamed without having been flushed.
CloseDatUnflushed ==
  /\ pc = "writing"
  /\ pc' = "flushed"
  /\ UNCHANGED <<disk, run, hadOld, result, base, crashes>>

\* The key file is written under its final name.
OpenKeyInPlace ==
  /\ pc = "flushed"
  /\ disk' = [disk EXCEPT !["key"] = Partial(run), !["key.tmp"] = Partial(run)]
  /\ pc' = "key_open"
  /\ UNCHANGED <<run, hadOld, result, base, crashes>>

\* The swap relies on rename replacing the old key.
MoveNothingAside ==
  /\ pc = "key_full"
  /\ hadOld' = Exists("key")
  /\ pc' = "aside"
  /\ UNCHANGED <<disk, run, result, base, crashes>>

\* The old key is deleted instead of moved.
DeleteOldKey ==
  /\ pc = "key_full"
  /\ hadOld' = Exists("key")
  /\ disk' = Removed("key")
  /\ pc' = "aside"
  /\ UNCHANGED <<run, result, base, crashes>>

\* finish forgets to record that it succeeded.
RemoveBakUnfinished ==
  /\ pc = "key_in"
  /\ IF hadOld THEN RemoveQuietly("key.bak") ELSE UNCHANGED disk
  /\ pc' = "down"
  /\ UNCHANGED <<run, hadOld, result, base, crashes>>

\* No rollback.
PutNothingBack ==
  /\ pc = "rollback"
  /\ pc' = "cleanup"
  /\ UNCHANGED <<disk, run, hadOld, result, base, crashes>>

\* The rollback looks for a <key>.bak instead of remembering had_old_key.
PutAnyBakBack ==
  /\ pc = "rollback"
  /\ disk' = IF Exists("key.bak") /\ ~Exists("key")
                THEN Renamed("key.bak", "key") ELSE disk
  /\ pc' = "cleanup"
  /\ UNCHANGED <<run, hadOld, result, base, crashes>>

-----------------------------------------------------------------------------
(* NuDbSink::create and the write phase                                    *)

\* NuDbSink::create: File::create truncates a <dat>.tmp an earlier run left.
Create ==
  /\ pc = "down"
  /\ run < MaxRuns
  /\ run' = run + 1
  /\ disk' = Wrote("dat.tmp", Partial(run + 1))
  /\ base' = [dat |-> disk["dat"], key |-> disk["key"]]
  /\ pc' = "writing"
  /\ hadOld' = FALSE
  /\ result' = "running"
  /\ UNCHANGED crashes

\* finish, first half: the spill chains are appended, the file is flushed
\* and closed.  Every write_node of the run happened before this step.
CloseDat ==
  /\ pc = "writing"
  /\ disk' = Wrote("dat.tmp", Whole(run))
  /\ pc' = "flushed"
  /\ UNCHANGED <<run, hadOld, result, base, crashes>>

\* The caller gives up (a chunk fails verification, a write fails): the sink
\* is dropped with `finished` still false.
Abort ==
  /\ pc = "writing"
  /\ pc' = "dropping"
  /\ UNCHANGED <<disk, run, hadOld, result, base, crashes>>

-----------------------------------------------------------------------------
(* finish: the key file and the swap                                       *)

OpenKeyTmp ==
  /\ pc = "flushed"
  /\ disk' = Wrote("key.tmp", Partial(run))
  /\ pc' = "key_open"
  /\ UNCHANGED <<run, hadOld, result, base, crashes>>

FillKeyTmp ==
  /\ pc = "key_open"
  /\ disk' = Wrote("key.tmp", Whole(run))
  /\ pc' = "key_full"
  /\ UNCHANGED <<run, hadOld, result, base, crashes>>

\* Creating, writing or flushing <key>.tmp returns an error.
KeyTmpFails ==
  /\ pc \in {"flushed", "key_open"}
  /\ "key_write" \in Fallible
  /\ pc' = "cleanup"
  /\ UNCHANGED <<disk, run, hadOld, result, base, crashes>>

\* had_old_key is read, then an old key is moved to <key>.bak.
MoveOldKeyAside ==
  /\ pc = "key_full"
  /\ hadOld' = Exists("key")
  /\ disk' = IF Exists("key") THEN Renamed("key", "key.bak") ELSE disk
  /\ pc' = "aside"
  /\ UNCHANGED <<run, result, base, crashes>>

MoveOldKeyAsideFails ==
  /\ pc = "key_full"
  /\ Exists("key")
  /\ "aside" \in Fallible
  /\ hadOld' = TRUE
  /\ pc' = "cleanup"
  /\ UNCHANGED <<disk, run, result, base, crashes>>

SwapDat ==
  /\ pc = "aside"
  /\ disk' = Renamed("dat.tmp", "dat")
  /\ pc' = "dat_in"
  /\ UNCHANGED <<run, hadOld, result, base, crashes>>

SwapDatFails ==
  /\ pc = "aside"
  /\ "swap_dat" \in Fallible
  /\ pc' = "rollback"
  /\ UNCHANGED <<disk, run, hadOld, result, base, crashes>>

\* The second rename, and what makes of the new .dat a torn pair if it fails.
SwapKey ==
  /\ pc = "dat_in"
  /\ \/ disk' = Renamed("key.tmp", "key") /\ pc' = "key_in"
     \/ "swap_key" \in Fallible /\ pc' = "rollback" /\ UNCHANGED disk
  /\ UNCHANGED <<run, hadOld, result, base, crashes>>

\* Success: <key>.bak of this run is removed and `finished` becomes true.
RemoveBak ==
  /\ pc = "key_in"
  /\ IF hadOld THEN RemoveQuietly("key.bak") ELSE UNCHANGED disk
  /\ pc' = "down"
  /\ result' = "ok"
  /\ UNCHANGED <<run, hadOld, base, crashes>>

-----------------------------------------------------------------------------
(* Failure paths, Drop and the crash                                       *)

\* Either rename failed: `if had_old_key && !key_path.exists()` the old key
\* is put back, whichever of the two renames it was.
PutOldKeyBack ==
  /\ pc = "rollback"
  /\ IF hadOld /\ ~Exists("key")
       THEN \/ disk' = Renamed("key.bak", "key")
            \/ "put_back" \in Fallible /\ UNCHANGED disk
       ELSE UNCHANGED disk
  /\ pc' = "cleanup"
  /\ UNCHANGED <<run, hadOld, result, base, crashes>>

\* `if result.is_err()`: <key>.tmp is removed.
RemoveKeyTmp ==
  /\ pc = "cleanup"
  /\ RemoveQuietly("key.tmp")
  /\ pc' = "dropping"
  /\ UNCHANGED <<run, hadOld, result, base, crashes>>

\* Drop for NuDbSink with `finished` false.
DropSink ==
  /\ pc = "dropping"
  /\ RemoveQuietly("dat.tmp")
  /\ pc' = "down"
  /\ result' = "err"
  /\ UNCHANGED <<run, hadOld, base, crashes>>

\* The process dies: no destructor runs, the files stay as they are.
Crash ==
  /\ pc # "down"
  /\ crashes < MaxCrashes
  /\ crashes' = crashes + 1
  /\ pc' = "down"
  /\ result' = "crash"
  /\ UNCHANGED <<disk, run, hadOld, base>>

Next ==
  \/ Create \/ CloseDat \/ Abort
  \/ OpenKeyTmp \/ FillKeyTmp \/ KeyTmpFails
  \/ MoveOldKeyAside \/ MoveOldKeyAsideFails
  \/ SwapDat \/ SwapDatFails \/ SwapKey \/ RemoveBak
  \/ PutOldKeyBack \/ RemoveKeyTmp \/ DropSink
  \/ Crash

Spec == Init /\ [][Next]_vars

-----------------------------------------------------------------------------
(* Properties                                                              *)

\* A key file in place belongs to the data file in place.  This is the code's
\* own claim about its swap (writer.rs, finish: "no crash can leave a NEW .dat
\* paired with an OLD .key"): bucket offsets into another run's data file
\* would answer lookups silently wrong.
PairedStore ==
  Exists("key") => disk["key"].whole /\ disk["dat"] = disk["key"]

\* While a run that started from a whole store (or from none) is under way,
\* and after it died or failed, the key of the data file in place is still in
\* the directory under one of its three names: "the old key is still on disk
\* as .bak (and the new one as .tmp), so nothing is lost".  The run after a
\* crash gives no such promise: it truncates <key>.tmp first.
KeyOfDatOnDisk ==
  base.dat = base.key /\ Exists("dat") =>
    \E f \in {"key", "key.tmp", "key.bak"} : disk[f] = disk["dat"]

\* finish or the caller returned an error: the store in place is the one the
\* run found ("Nothing at dat_path is touched until finish succeeds").
FailedRunLeavesStore ==
  result = "err" => base = [dat |-> disk["dat"], key |-> disk["key"]]

\* finish returned Ok: the store in place is this run's output, whatever
\* earlier runs that crashed left in the directory, and no temporary file of
\* it remains.
PublishedIsServed ==
  result = "ok" =>
    /\ disk["dat"] = Whole(run) /\ disk["key"] = Whole(run)
    /\ ~Exists("dat.tmp") /\ ~Exists("key.tmp")

\* Whatever fails and whenever the process dies, a file under a final name is
\* the complete output of some run: the temporary names are never skipped.
FinalFilesComplete ==
  \A f \in {"dat", "key"} : Exists(f) => disk[f].whole

-----------------------------------------------------------------------------
(* What a program that opens the store sees.  A missing file is a loud     *)
(* error; two files of different runs open without complaint, so a torn    *)
(* pair is a state of its own, one StoreService does not have.             *)

Torn == MaxRuns + 2

ServedBy(dat, key) ==
  IF dat = Absent \/ key = Absent THEN MaxRuns + 1
  ELSE IF dat = key /\ key.whole THEN key.gen ELSE Torn

Service == INSTANCE StoreService WITH
  served <- ServedBy(disk["dat"], disk["key"]),
  found  <- ServedBy(base.dat, base.key)

\* The swap of two files implements StoreService: out of service, then the
\* new store or the old one, and nothing else (writer.rs finish).
ImplementsService == Service!Spec

-----------------------------------------------------------------------------
(* The inductive invariant of the proofs: what each phase of a run may     *)
(* rely on.                                                                *)

Before == [dat |-> disk["dat"], key |-> disk["key"]]

\* The files this run has completed and not yet moved, phase by phase.
PhaseInv ==
  /\ pc \in {"flushed", "key_open", "key_full", "aside"}
       => disk["dat.tmp"] = Whole(run)
  /\ pc \in {"key_full", "aside", "dat_in"} => disk["key.tmp"] = Whole(run)
  /\ pc \in {"aside", "dat_in", "rollback"} => ~Exists("key")
  /\ pc \in {"dat_in", "key_in"} => disk["dat"] = Whole(run)
  /\ pc \in {"dat_in", "key_in"} => ~Exists("dat.tmp")
  /\ pc = "key_in" => disk["key"] = Whole(run) /\ ~Exists("key.tmp")

\* What of the old store is where, phase by phase.
OldStoreInv ==
  /\ pc \in {"writing", "flushed", "key_open", "key_full"} => base = Before
  /\ pc \in {"aside", "rollback"} =>
       /\ disk["dat"] = base.dat
       /\ hadOld <=> base.key # Absent
  /\ pc \in {"aside", "dat_in", "rollback"} /\ hadOld =>
       disk["key.bak"] = base.key
  /\ pc \in {"cleanup", "dropping"} =>
       \/ base = Before
       \/ /\ "put_back" \in Fallible
          /\ ~Exists("key")
          /\ disk["dat"] = base.dat
          /\ disk["key.bak"] = base.key

BasePaired ==
  base.key # Absent => base.key.whole /\ base.dat = base.key

IInv == TypeOK /\ PhaseInv /\ OldStoreInv /\ BasePaired /\ PairedStore

=============================================================================
