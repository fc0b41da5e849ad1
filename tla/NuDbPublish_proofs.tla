------------------------- MODULE NuDbPublish_proofs -------------------------
(***************************************************************************)
(* Proofs about NuDbPublish, for any number of runs and crashes and any    *)
(* set of failing file-system steps unless a theorem names one.            *)
(*                                                                         *)
(* Three invariants, each relying on the ones before it: TypeOK; PhaseInv  *)
(* (which files the current run has completed) with FinalInv; and IInv,    *)
(* which adds where the old store is and that a key in place belongs to    *)
(* the data file in place.                                                 *)
(***************************************************************************)
EXTENDS NuDbPublish, TLAPS

\* The one condition the swap needs: the rename of <key>.tmp may be cut short
\* by a crash, but it does not return an error.  Without it the rollback
\* pairs the new data file with the old key.
KeySwapNeverFails == "swap_key" \notin Fallible

(* Every content a step writes is a file.                                  *)
LEMMA FileFacts ==
  /\ \A n \in 0..MaxRuns : Whole(n) \in File /\ Partial(n) \in File
  /\ \A n \in 0..MaxRuns : Whole(n) # Absent /\ Partial(n) # Absent
  /\ \A f \in File : f # Absent
BY BoundsAssumption DEF File, Whole, Partial, Absent

-----------------------------------------------------------------------------
(* Type correctness                                                        *)

(* The import starts in a directory the model describes.                   *)
LEMMA InitType == Init => TypeOK
<1> SUFFICES ASSUME Init PROVE TypeOK
  OBVIOUS
<1>1. PICK old \in {Absent, Whole(0)} :
        disk = [f \in Name |-> IF f \in {"dat", "key"} THEN old ELSE Absent]
  BY DEF Init
<1>2. Whole(0) \in File
  BY FileFacts, BoundsAssumption
<1>3. disk \in [Name -> File \cup {Absent}]
  BY <1>1, <1>2
<1>4. base \in [dat : File \cup {Absent}, key : File \cup {Absent}]
  BY <1>3 DEF Init, Name
<1>5. /\ pc = "down" /\ run = 0 /\ hadOld = FALSE
      /\ result = "none" /\ crashes = 0
  BY DEF Init
<1>6. run \in 0..MaxRuns /\ crashes \in 0..MaxCrashes
  BY <1>5, BoundsAssumption
<1>7. QED
  BY <1>3, <1>4, <1>5, <1>6 DEF TypeOK

(* Every step writes files of runs already started, and counts in bounds.  *)
LEMMA NextType ==
  ASSUME TypeOK, [Next]_vars
  PROVE  TypeOK'
<1> USE BoundsAssumption, FileFacts
    DEF TypeOK, Name, Exists, Renamed, Removed, Wrote
<1>1. CASE Create
  <2> USE <1>1 DEF Create
  <2>1. run + 1 \in 0..MaxRuns
    OBVIOUS
  <2>2. Partial(run + 1) \in File
    BY <2>1
  <2>3. disk' \in [Name -> File \cup {Absent}]
    BY <2>2
  <2>4. base' \in [dat : File \cup {Absent}, key : File \cup {Absent}]
    OBVIOUS
  <2>5. QED
    BY <2>1, <2>3, <2>4
<1>2. CASE CloseDat
  BY <1>2 DEF CloseDat
<1>3. CASE Abort
  BY <1>3 DEF Abort
<1>4. CASE OpenKeyTmp
  BY <1>4 DEF OpenKeyTmp
<1>5. CASE FillKeyTmp
  BY <1>5 DEF FillKeyTmp
<1>6. CASE KeyTmpFails
  BY <1>6 DEF KeyTmpFails
<1>7. CASE MoveOldKeyAside
  BY <1>7 DEF MoveOldKeyAside
<1>8. CASE MoveOldKeyAsideFails
  BY <1>8 DEF MoveOldKeyAsideFails
<1>9. CASE SwapDat
  BY <1>9 DEF SwapDat
<1>10. CASE SwapDatFails
  BY <1>10 DEF SwapDatFails
<1>11. CASE SwapKey
  BY <1>11 DEF SwapKey
<1>13. CASE RemoveBak
  BY <1>13 DEF RemoveBak, RemoveQuietly
<1>14. CASE PutOldKeyBack
  BY <1>14 DEF PutOldKeyBack
<1>15. CASE RemoveKeyTmp
  BY <1>15 DEF RemoveKeyTmp, RemoveQuietly
<1>16. CASE DropSink
  BY <1>16 DEF DropSink, RemoveQuietly
<1>17. CASE Crash
  BY <1>17 DEF Crash
<1>18. CASE UNCHANGED vars
  BY <1>18 DEF vars
<1>19. QED
  BY <1>1, <1>2, <1>3, <1>4, <1>5, <1>6, <1>7, <1>8, <1>9, <1>10, <1>11, <1>13, <1>14, <1>15, <1>16, <1>17, <1>18 DEF Next

(* Every variable keeps its type, whatever fails or crashes.               *)
THEOREM TypeCorrect == Spec => []TypeOK
<1>1. TypeOK /\ [Next]_vars => TypeOK'
  BY NextType
<1>2. QED
  BY InitType, <1>1, PTL DEF Spec

-----------------------------------------------------------------------------
(* No partial file under a final name                                      *)

\* The rollback renames <key>.bak, so that file has to be complete as well.
FinalInv ==
  /\ FinalFilesComplete
  /\ Exists("key.bak") => disk["key.bak"].whole
  /\ PublishedIsServed

(* Nothing of a run exists before the first one starts.                    *)
LEMMA InitFinal == Init => PhaseInv /\ FinalInv
BY BoundsAssumption
   DEF Init, PhaseInv, FinalInv, FinalFilesComplete, PublishedIsServed,
       Exists, Name, Absent, Whole

(* A rename moves only files this run has completed; everything else a     *)
(* step writes has a temporary name.                                       *)
LEMMA NextFinal ==
  ASSUME TypeOK, PhaseInv, FinalInv, [Next]_vars
  PROVE  PhaseInv' /\ FinalInv'
<1> USE BoundsAssumption, FileFacts
    DEF TypeOK, PhaseInv, FinalInv, FinalFilesComplete, PublishedIsServed,
        Name, Whole, Partial, Exists, Renamed, Removed, Wrote
<1>1. CASE Create
  BY <1>1 DEF Create
<1>2. CASE CloseDat
  BY <1>2 DEF CloseDat
<1>3. CASE Abort
  BY <1>3 DEF Abort
<1>4. CASE OpenKeyTmp
  BY <1>4 DEF OpenKeyTmp
<1>5. CASE FillKeyTmp
  BY <1>5 DEF FillKeyTmp
<1>6. CASE KeyTmpFails
  BY <1>6 DEF KeyTmpFails
<1>7. CASE MoveOldKeyAside
  BY <1>7 DEF MoveOldKeyAside
<1>8. CASE MoveOldKeyAsideFails
  BY <1>8 DEF MoveOldKeyAsideFails
<1>9. CASE SwapDat
  <2> USE <1>9 DEF SwapDat
  <2>1. disk'["dat"] = Whole(run) /\ disk'["dat.tmp"] = Absent
    OBVIOUS
  <2>2. \A f \in Name \ {"dat", "dat.tmp"} : disk'[f] = disk[f]
    OBVIOUS
  <2>3. PhaseInv'
    BY <2>1, <2>2
  <2>4. FinalInv'
    BY <2>1, <2>2
  <2>5. QED
    BY <2>3, <2>4
<1>10. CASE SwapDatFails
  BY <1>10 DEF SwapDatFails
<1>11. CASE SwapKey
  BY <1>11 DEF SwapKey
<1>13. CASE RemoveBak
  BY <1>13 DEF RemoveBak, RemoveQuietly
<1>14. CASE PutOldKeyBack
  BY <1>14 DEF PutOldKeyBack
<1>15. CASE RemoveKeyTmp
  BY <1>15 DEF RemoveKeyTmp, RemoveQuietly
<1>16. CASE DropSink
  BY <1>16 DEF DropSink, RemoveQuietly
<1>17. CASE Crash
  BY <1>17 DEF Crash
<1>18. CASE UNCHANGED vars
  BY <1>18 DEF vars
<1>19. QED
  BY <1>1, <1>2, <1>3, <1>4, <1>5, <1>6, <1>7, <1>8, <1>9, <1>10, <1>11, <1>13, <1>14, <1>15, <1>16, <1>17, <1>18 DEF Next

(* The conjunction of the first two invariants is inductive.               *)
LEMMA FinalCorrect == Spec => [](TypeOK /\ PhaseInv /\ FinalInv)
<1>1. (TypeOK /\ PhaseInv /\ FinalInv) /\ [Next]_vars
        => (TypeOK /\ PhaseInv /\ FinalInv)'
  BY NextType, NextFinal
<1>2. QED
  BY InitType, InitFinal, <1>1, PTL DEF Spec

(* A file that carries a final name is the complete output of a run, for   *)
(* every placement of crashes and every failing file-system call.          *)
THEOREM FinalFilesAreComplete == Spec => []FinalFilesComplete
BY FinalCorrect, PTL DEF FinalInv

(* When finish returns Ok the store in place is the run's own, whatever    *)
(* earlier crashed runs left behind.                                       *)
THEOREM PublishedRunIsServed == Spec => []PublishedIsServed
BY FinalCorrect, PTL DEF FinalInv

-----------------------------------------------------------------------------
(* The pair of files                                                       *)

(* A fresh or a complete store is paired.                                  *)
LEMMA InitIInv == Init => IInv
<1> SUFFICES ASSUME Init PROVE IInv
  OBVIOUS
<1>1. PICK old \in {Absent, Whole(0)} :
        disk = [f \in Name |-> IF f \in {"dat", "key"} THEN old ELSE Absent]
  BY DEF Init
<1>2. OldStoreInv
  BY DEF Init, OldStoreInv, Before
<1>3. BasePaired /\ PairedStore
  BY <1>1, BoundsAssumption
     DEF Init, BasePaired, PairedStore, Exists, Name, Absent, Whole
<1>4. QED
  BY <1>2, <1>3, InitType, InitFinal DEF IInv

(* Every step keeps the old store findable and the pair matched.           *)
LEMMA NextIInv ==
  ASSUME KeySwapNeverFails, IInv, TypeOK', PhaseInv', [Next]_vars
  PROVE  IInv'
<1> SUFFICES OldStoreInv' /\ BasePaired' /\ PairedStore'
  BY DEF IInv
<1> USE BoundsAssumption, FallibleAssumption, FileFacts
    DEF IInv, TypeOK, PhaseInv, OldStoreInv, BasePaired, PairedStore, Before,
        Name, Whole, Partial, Exists, Renamed, Removed, Wrote
<1>1. CASE Create
  BY <1>1 DEF Create
<1>2. CASE CloseDat
  BY <1>2 DEF CloseDat
<1>3. CASE Abort
  BY <1>3 DEF Abort
<1>4. CASE OpenKeyTmp
  BY <1>4 DEF OpenKeyTmp
<1>5. CASE FillKeyTmp
  BY <1>5 DEF FillKeyTmp
<1>6. CASE KeyTmpFails
  BY <1>6 DEF KeyTmpFails
<1>7. CASE MoveOldKeyAside
  <2> USE <1>7 DEF MoveOldKeyAside
  <2>1. CASE Exists("key")
    <3>1. /\ disk'["dat"] = disk["dat"]
          /\ disk'["key.bak"] = disk["key"]
          /\ disk'["key"] = Absent
          /\ hadOld' = TRUE
      BY <2>1
    <3>2. QED
      BY <3>1, <2>1
  <2>2. CASE ~Exists("key")
    <3>1. disk' = disk /\ hadOld' = FALSE
      BY <2>2
    <3>2. QED
      BY <3>1, <2>2
  <2>3. QED
    BY <2>1, <2>2
<1>8. CASE MoveOldKeyAsideFails
  BY <1>8 DEF MoveOldKeyAsideFails
<1>9. CASE SwapDat
  BY <1>9 DEF SwapDat
<1>10. CASE SwapDatFails
  BY <1>10 DEF SwapDatFails
<1>11. CASE SwapKey
  <2> USE <1>11 DEF SwapKey
  <2>1. disk'["key"] = Whole(run) /\ disk'["dat"] = Whole(run) /\ pc' = "key_in"
    BY DEF KeySwapNeverFails
  <2>2. QED
    BY <2>1
<1>13. CASE RemoveBak
  BY <1>13 DEF RemoveBak, RemoveQuietly
<1>14. CASE PutOldKeyBack
  BY <1>14 DEF PutOldKeyBack
<1>15. CASE RemoveKeyTmp
  BY <1>15 DEF RemoveKeyTmp, RemoveQuietly
<1>16. CASE DropSink
  BY <1>16 DEF DropSink, RemoveQuietly
<1>17. CASE Crash
  BY <1>17 DEF Crash
<1>18. CASE UNCHANGED vars
  BY <1>18 DEF vars
<1>19. QED
  BY <1>1, <1>2, <1>3, <1>4, <1>5, <1>6, <1>7, <1>8, <1>9, <1>10, <1>11, <1>13, <1>14, <1>15, <1>16, <1>17, <1>18 DEF Next

(* IInv is an invariant when the rename of the key file does not fail.     *)
LEMMA IInvCorrect ==
  ASSUME KeySwapNeverFails
  PROVE  Spec => []IInv
<1>1. IInv /\ (TypeOK /\ PhaseInv)' /\ [Next]_vars => IInv'
  BY NextIInv
<1>2. QED
  BY InitIInv, FinalCorrect, <1>1, PTL DEF Spec

(* No crash, and no failure but that of the key file's rename, leaves a    *)
(* key file in place beside the data file of another run.                  *)
THEOREM StoreStaysPaired ==
  ASSUME KeySwapNeverFails
  PROVE  Spec => []PairedStore
BY IInvCorrect, PTL DEF IInv

-----------------------------------------------------------------------------
(* What a failed or killed run leaves                                      *)

(* The key that goes with the data file is never removed before another    *)
(* file holds it.                                                          *)
LEMMA NextKeyKept ==
  ASSUME IInv, KeyOfDatOnDisk, IInv', [Next]_vars
  PROVE  KeyOfDatOnDisk'
<1> SUFFICES ASSUME base'.dat = base'.key, Exists("dat")'
             PROVE  \E f \in {"key", "key.tmp", "key.bak"} :
                      disk'[f] = disk'["dat"]
  BY DEF KeyOfDatOnDisk
<1> USE BoundsAssumption, FileFacts
    DEF IInv, TypeOK, PhaseInv, OldStoreInv, KeyOfDatOnDisk, Before,
        Name, Whole, Partial, Exists, Renamed, Removed, Wrote
<1>1. CASE Create
  BY <1>1 DEF Create
<1>2. CASE CloseDat
  BY <1>2 DEF CloseDat
<1>3. CASE Abort
  BY <1>3 DEF Abort
<1>4. CASE OpenKeyTmp
  BY <1>4 DEF OpenKeyTmp
<1>5. CASE FillKeyTmp
  BY <1>5 DEF FillKeyTmp
<1>6. CASE KeyTmpFails
  BY <1>6 DEF KeyTmpFails
<1>7. CASE MoveOldKeyAside
  BY <1>7 DEF MoveOldKeyAside
<1>8. CASE MoveOldKeyAsideFails
  BY <1>8 DEF MoveOldKeyAsideFails
<1>9. CASE SwapDat
  BY <1>9 DEF SwapDat
<1>10. CASE SwapDatFails
  BY <1>10 DEF SwapDatFails
<1>11. CASE SwapKey
  BY <1>11 DEF SwapKey
<1>13. CASE RemoveBak
  BY <1>13 DEF RemoveBak, RemoveQuietly
<1>14. CASE PutOldKeyBack
  BY <1>14 DEF PutOldKeyBack
<1>15. CASE RemoveKeyTmp
  BY <1>15 DEF RemoveKeyTmp, RemoveQuietly
<1>16. CASE DropSink
  BY <1>16 DEF DropSink, RemoveQuietly
<1>17. CASE Crash
  BY <1>17 DEF Crash
<1>18. CASE UNCHANGED vars
  BY <1>18 DEF vars
<1>19. QED
  BY <1>1, <1>2, <1>3, <1>4, <1>5, <1>6, <1>7, <1>8, <1>9, <1>10, <1>11, <1>13, <1>14, <1>15, <1>16, <1>17, <1>18 DEF Next

(* A run that starts from a whole store and then dies or fails leaves the  *)
(* key of the data file in place in the directory.                         *)
THEOREM KeyOfDatIsKept ==
  ASSUME KeySwapNeverFails
  PROVE  Spec => []KeyOfDatOnDisk
<1>1. Init => KeyOfDatOnDisk
  BY DEF Init, KeyOfDatOnDisk, Exists, Name, Absent
<1>2. IInv /\ KeyOfDatOnDisk /\ IInv' /\ [Next]_vars => KeyOfDatOnDisk'
  BY NextKeyKept
<1>3. QED
  BY IInvCorrect, <1>1, <1>2, PTL DEF Spec

(* A run that returns an error leaves the store as it found it, if putting *)
(* the old key back does not fail either.                                  *)
THEOREM FailedRunChangesNothing ==
  ASSUME KeySwapNeverFails, "put_back" \notin Fallible
  PROVE  Spec => []FailedRunLeavesStore
<1>1. Init => FailedRunLeavesStore
  BY DEF Init, FailedRunLeavesStore
<1>2. IInv /\ FailedRunLeavesStore /\ [Next]_vars => FailedRunLeavesStore'
  <2> SUFFICES ASSUME IInv, FailedRunLeavesStore, [Next]_vars
               PROVE  FailedRunLeavesStore'
    OBVIOUS
  <2> USE DEF FailedRunLeavesStore
  <2>1. CASE DropSink
    <3>1. disk'["dat"] = disk["dat"] /\ disk'["key"] = disk["key"]
      BY <2>1 DEF DropSink, RemoveQuietly, Removed, IInv, TypeOK, Name
    <3>2. base = Before
      BY <2>1 DEF DropSink, IInv, OldStoreInv
    <3>3. QED
      BY <2>1, <3>1, <3>2 DEF DropSink, Before
  <2>2. CASE UNCHANGED vars
    BY <2>2 DEF vars
  <2>3. CASE Next /\ ~DropSink
    <3>1. result' # "err"
      BY <2>3 DEF Next, IInv, TypeOK, Create, CloseDat, Abort, OpenKeyTmp,
         FillKeyTmp, KeyTmpFails, MoveOldKeyAside, MoveOldKeyAsideFails,
         SwapDat, SwapDatFails, SwapKey, RemoveBak,
         PutOldKeyBack, RemoveKeyTmp, Crash
    <3>2. QED
      BY <3>1
  <2>4. QED
    BY <2>1, <2>2, <2>3
<1>3. QED
  BY IInvCorrect, <1>1, <1>2, PTL DEF Spec

-----------------------------------------------------------------------------
(* The swap implements StoreService                                        *)

(* The steps that touch neither final name change nothing a program that   *)
(* opens the store can see.                                                *)
LEMMA QuietSteps ==
  ASSUME TypeOK,
         \/ CloseDat \/ Abort \/ OpenKeyTmp \/ FillKeyTmp \/ KeyTmpFails
         \/ MoveOldKeyAsideFails \/ SwapDatFails
         \/ RemoveBak \/ RemoveKeyTmp \/ DropSink \/ Crash
         \/ UNCHANGED vars
  PROVE  /\ disk'["dat"] = disk["dat"] /\ disk'["key"] = disk["key"]
         /\ UNCHANGED <<run, base>>
BY DEF TypeOK, Name, Removed, Wrote, RemoveQuietly, vars, CloseDat, Abort,
       OpenKeyTmp, FillKeyTmp, KeyTmpFails, MoveOldKeyAsideFails, SwapDatFails,
       RemoveBak, RemoveKeyTmp, DropSink, Crash

(* Every step of the swap is a step of StoreService or invisible to it.    *)
LEMMA StepImplements ==
  ASSUME KeySwapNeverFails, IInv, IInv', [Next]_vars
  PROVE  [Service!Next]_(Service!vars)
<1> USE BoundsAssumption, FileFacts
    DEF IInv, TypeOK, Exists
<1> USE DEF Service!Next, Service!vars, Service!Begin, Service!TakeDown,
            Service!PutInService, Service!Restore, Service!None
<1>1. CASE Create
  <2>1. disk'["dat"] = disk["dat"] /\ disk'["key"] = disk["key"]
    BY <1>1 DEF Create, Wrote, Name
  <2>2. run < MaxRuns /\ run' = run + 1
    BY <1>1 DEF Create
  <2>3. base' = Before
    BY <1>1 DEF Create, Before
  <2>4. QED
    BY <2>1, <2>2, <2>3 DEF Before, ServedBy
<1>2. CASE MoveOldKeyAside
  <2>1. disk'["dat"] = disk["dat"] /\ UNCHANGED <<run, base>>
    BY <1>2 DEF MoveOldKeyAside, Renamed, Name
  <2>2. disk'["key"] = Absent
    BY <1>2 DEF MoveOldKeyAside, Renamed, Name
  <2>3. base = Before
    BY <1>2 DEF MoveOldKeyAside, OldStoreInv
  <2>4. ServedBy(disk'["dat"], disk'["key"]) = MaxRuns + 1
    BY <2>2 DEF ServedBy
  <2>5. QED
    BY <2>1, <2>3, <2>4 DEF Before
<1>3. CASE SwapDat
  <2>1. disk'["key"] = disk["key"] /\ UNCHANGED <<run, base>>
    BY <1>3 DEF SwapDat, Renamed, Name
  <2>2. disk["key"] = Absent
    BY <1>3 DEF SwapDat, PhaseInv
  <2>3. QED
    BY <2>1, <2>2 DEF ServedBy
<1>4. CASE SwapKey
  <2>1. disk'["key"] = Whole(run) /\ disk'["dat"] = Whole(run)
    BY <1>4 DEF SwapKey, PhaseInv, KeySwapNeverFails
  <2>2. disk["key"] = Absent /\ UNCHANGED <<run, base>>
    BY <1>4 DEF SwapKey, PhaseInv, KeySwapNeverFails
  <2>3. ServedBy(disk["dat"], disk["key"]) = MaxRuns + 1
    BY <2>2 DEF ServedBy
  <2>4. ServedBy(disk'["dat"], disk'["key"]) = run
    BY <2>1 DEF ServedBy, Whole, Absent
  <2>5. QED
    BY <2>2, <2>3, <2>4
<1>5. CASE PutOldKeyBack
  <2>1. disk["key"] = Absent /\ disk["dat"] = base.dat /\ UNCHANGED <<run, base>>
    BY <1>5 DEF PutOldKeyBack, PhaseInv, OldStoreInv
  <2>2. ServedBy(disk["dat"], disk["key"]) = MaxRuns + 1
    BY <2>1 DEF ServedBy
  <2>3. CASE disk' = disk
    BY <2>1, <2>3
  <2>4. CASE hadOld /\ disk' = Renamed("key.bak", "key")
    <3>1. disk'["key"] = base.key /\ disk'["dat"] = base.dat
      BY <1>5, <2>1, <2>4 DEF PutOldKeyBack, OldStoreInv, Renamed, Name
    <3>2. QED
      BY <2>1, <2>2, <3>1
  <2>5. QED
    BY <1>5, <2>3, <2>4 DEF PutOldKeyBack
<1>6. CASE \/ CloseDat \/ Abort \/ OpenKeyTmp \/ FillKeyTmp \/ KeyTmpFails
           \/ MoveOldKeyAsideFails \/ SwapDatFails
           \/ RemoveBak \/ RemoveKeyTmp \/ DropSink \/ Crash
           \/ UNCHANGED vars
  <2>1. /\ disk'["dat"] = disk["dat"] /\ disk'["key"] = disk["key"]
        /\ UNCHANGED <<run, base>>
    BY <1>6, QuietSteps
  <2>2. QED
    BY <2>1
<1>7. QED
  BY <1>1, <1>2, <1>3, <1>4, <1>5, <1>6 DEF Next

(* The swap implements StoreService: whatever crashes, and whatever fails  *)
(* but the rename of the key file, a program that opens the store finds it *)
(* out of service or finds the output of one complete run.                 *)
THEOREM SwapImplementsService ==
  ASSUME KeySwapNeverFails
  PROVE  Spec => ImplementsService
<1>1. Init => Service!Init
  <2> SUFFICES ASSUME Init PROVE Service!Init
    OBVIOUS
  <2>1. PICK old \in {Absent, Whole(0)} :
          disk = [f \in Name |-> IF f \in {"dat", "key"} THEN old ELSE Absent]
    BY DEF Init
  <2>2. disk["dat"] = old /\ disk["key"] = old
    BY <2>1 DEF Name
  <2>3. base = [dat |-> old, key |-> old] /\ run = 0
    BY <2>2 DEF Init
  <2>4. ServedBy(old, old) \in {0, MaxRuns + 1}
    BY BoundsAssumption DEF ServedBy, Absent, Whole
  <2>5. QED
    BY <2>2, <2>3, <2>4 DEF Service!Init, Service!None
<1>2. IInv /\ IInv' /\ [Next]_vars => [Service!Next]_(Service!vars)
  BY StepImplements
<1>3. QED
  BY IInvCorrect, <1>1, <1>2, PTL DEF Spec, ImplementsService, Service!Spec

=============================================================================
