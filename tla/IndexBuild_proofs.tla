------------------------- MODULE IndexBuild_proofs -------------------------
(***************************************************************************)
(* Proofs about IndexBuild, for any builders and any number of runs.       *)
(*                                                                         *)
(* TypeOK needs FilesInv, which keeps the numbers of files within bounds.  *)
(* VerifiedInv does not depend on what builders do to each other's names,  *)
(* AloneInv is about runs that do not overlap.                             *)
(***************************************************************************)
EXTENDS IndexBuild, FiniteSetTheorems, TLAPS

(* Nothing has been started.                                               *)
LEMMA InitInv == Init => TypeOK /\ FilesInv
<1> SUFFICES ASSUME Init PROVE TypeOK /\ FilesInv
  OBVIOUS
<1>1. TypeOK
  <2>1. file \in [File -> [schema : BOOLEAN, complete : BOOLEAN]]
    BY Zenon DEF Init
  <2>2. intact \in BOOLEAN /\ overlap \in BOOLEAN
    BY DEF Init
  <2>3. {tmp, out} \subseteq File \cup {None} /\ runs \in 0..MaxRuns /\ made \in 0..runs
    BY BuildAssumption DEF Init, File
  <2> QED
    BY <2>1, <2>2, <2>3 DEF Init, TypeOK, Ended
<1>2. Opening = {}
  BY DEF Init, Opening
<1>3. FilesInv
  BY <1>2, FS_EmptySet DEF Init, FilesInv
<1> QED
  BY <1>1, <1>3

(* A run is one of those that may create a file until it has opened one.   *)
LEMMA OpeningStep ==
  ASSUME FilesInv, TypeOK, NEW b \in Builder, NEW where, Goto(b, where)
  PROVE  /\ IsFiniteSet(Opening') /\ Cardinality(Opening) \in Nat
         /\ Cardinality(Opening') \in Nat
         /\ Cardinality(Opening') <= Cardinality(Opening) + 1
         /\ pc[b] \in {"clean", "open"} \/ where \notin {"clean", "open"}
              => Cardinality(Opening') <= Cardinality(Opening)
         /\ pc[b] \in {"clean", "open"} /\ where \notin {"clean", "open"}
              => Cardinality(Opening') = Cardinality(Opening) - 1
<1>1. IsFiniteSet(Opening) /\ Cardinality(Opening) \in Nat
  BY FS_CardinalityType DEF FilesInv
<1>2. CASE where \in {"clean", "open"}
  <2>1. Opening' = Opening \cup {b}
    BY <1>2 DEF Goto, Opening, TypeOK
  <2>2. b \in Opening <=> pc[b] \in {"clean", "open"}
    BY DEF Opening
  <2> QED
    BY <1>1, <1>2, <2>1, <2>2, FS_AddElement
<1>3. CASE where \notin {"clean", "open"}
  <2>1. Opening' = Opening \ {b}
    BY <1>3 DEF Goto, Opening, TypeOK
  <2>2. b \in Opening <=> pc[b] \in {"clean", "open"}
    BY DEF Opening
  <2>3. /\ IsFiniteSet(Opening \ {b})
        /\ Cardinality(Opening \ {b}) =
             IF b \in Opening THEN Cardinality(Opening) - 1 ELSE Cardinality(Opening)
    BY <1>1, FS_RemoveElement
  <2>4. Cardinality(Opening \ {b}) \in Nat
    BY <2>3, FS_CardinalityType
  <2> QED
    BY <1>1, <1>3, <2>1, <2>2, <2>3, <2>4
<1> QED
  BY <1>2, <1>3

(* Types and the numbers of files are kept together.                       *)
LEMMA NextType ==
  ASSUME TypeOK, FilesInv, [Next]_vars
  PROVE  TypeOK' /\ FilesInv'
<1> USE BuildAssumption DEF TypeOK, FilesInv, File, Ended
<1>c. IsFiniteSet(Opening) /\ Cardinality(Opening) \in Nat
  BY FS_CardinalityType DEF FilesInv
<1>1. ASSUME NEW b \in Builder, Start(b) PROVE TypeOK' /\ FilesInv'
  <2>1. PICK where \in {"refused", "clean"} : Goto(b, where)
    BY <1>1 DEF Start
  <2>2. IsFiniteSet(Opening') /\ Cardinality(Opening') <= Cardinality(Opening) + 1
          /\ Cardinality(Opening') \in Nat
    BY <2>1, OpeningStep
  <2>3. runs' = runs + 1 /\ runs < MaxRuns /\ made' = made /\ tmp' = tmp /\ out' = out
    BY <1>1 DEF Start
  <2>4. pc' \in [Builder -> Ended \cup {"clean"} \cup {pc[c] : c \in Builder}]
    BY <2>1 DEF Goto
  <2>5. TypeOK'
    BY <1>1, <2>1, <2>3 DEF Start, Goto
  <2>6. FilesInv'
    BY <1>c, <2>2, <2>3
  <2> QED
    BY <2>5, <2>6
<1>2. ASSUME NEW b \in Builder, Open(b) PROVE TypeOK' /\ FilesInv'
  <2>1. Goto(b, "schema") /\ pc[b] = "open"
    BY <1>2 DEF Open
  <2>2. IsFiniteSet(Opening') /\ Cardinality(Opening') = Cardinality(Opening) - 1
          /\ Cardinality(Opening') \in Nat
    BY <2>1, OpeningStep
  <2>3. runs' = runs /\ made' \in {made, made + 1} /\ tmp' \in 1..made'
    BY <1>2 DEF Open
  <2>4. made' + Cardinality(Opening') <= runs'
    BY <1>c, <2>2, <2>3
  <2>5. made' \in 0..runs' /\ tmp' \in 1..MaxRuns
    BY <2>2, <2>3, <2>4
  <2>6. TypeOK'
    BY <1>2, <2>1, <2>3, <2>5 DEF Open, Goto
  <2> QED
    BY <2>2, <2>3, <2>4, <2>6
<1>3. ASSUME NEW b \in Builder, NEW where \in Ended \cup {"open", "stream", "commit", "sync", "rename", "placed"},
             Goto(b, where),
             pc[b] = "clean" \/ where # "open",
             where \in {"stream", "commit"} => pc[b] \in {"schema", "stream", "commit"},
             UNCHANGED <<conn, found, runs, made, intact, overlap>>,
             tmp' \in {tmp, None}, out' \in {out, tmp},
             file' \in [File -> [schema : BOOLEAN, complete : BOOLEAN]]
      PROVE  TypeOK' /\ FilesInv'
  <2>1. IsFiniteSet(Opening') /\ Cardinality(Opening') <= Cardinality(Opening)
          /\ Cardinality(Opening') \in Nat
    BY <1>3, OpeningStep
  <2>2. FilesInv'
    BY <1>c, <1>3, <2>1
  <2>3. TypeOK'
    BY <1>3 DEF Goto
  <2> QED
    BY <2>2, <2>3
<1>4. ASSUME NEW b \in Builder, Clean(b) \/ Sync(b) \/ Rename(b) \/ Fail(b) \/ Stream(b) \/ Kill(b)
      PROVE TypeOK' /\ FilesInv'
  <2>1. CASE Clean(b)
    BY <1>3, <2>1 DEF Clean
  <2>2. CASE Sync(b)
    BY <1>3, <2>2 DEF Sync
  <2>3. CASE Rename(b)
    BY <1>3, <2>3 DEF Rename
  <2>4. CASE Fail(b)
    BY <1>3, <2>4 DEF Fail
  <2>5. CASE Stream(b)
    BY <1>3, <2>5 DEF Stream
  <2>6. CASE Kill(b)
    BY <1>3, <2>6 DEF Kill
  <2> QED
    BY <1>4, <2>1, <2>2, <2>3, <2>4, <2>5, <2>6
<1>5. ASSUME NEW b \in Builder, CreateSchema(b) PROVE TypeOK' /\ FilesInv'
  BY <1>3, <1>5 DEF CreateSchema
<1>6. ASSUME NEW b \in Builder, Commit(b) PROVE TypeOK' /\ FilesInv'
  BY <1>3, <1>6 DEF Commit
<1>7. ASSUME NEW b \in Builder, SyncDir(b) PROVE TypeOK' /\ FilesInv'
  BY <1>3, <1>7 DEF SyncDir
<1>8. CASE UNCHANGED vars
  BY <1>8 DEF vars, Opening
<1> QED
  BY <1>1, <1>2, <1>4, <1>5, <1>6, <1>7, <1>8 DEF Next, Work

LEMMA TypeCorrect == Spec => [](TypeOK /\ FilesInv)
<1>1. TypeOK /\ FilesInv /\ [Next]_vars => TypeOK' /\ FilesInv'
  BY NextType
<1> QED
  BY InitInv, <1>1, PTL DEF Spec

-----------------------------------------------------------------------------
(* What a file holds                                                       *)

(* A file is completed by a builder that has verified the chunk, whoever   *)
(* else has the file open and whatever name it has by then.                *)
LEMMA NextVerified ==
  ASSUME TypeOK, VerifiedInv, [Next]_vars
  PROVE  VerifiedInv'
<1> USE DEF TypeOK, VerifiedInv, Goto
<1>1. ASSUME NEW b \in Builder, Start(b) PROVE VerifiedInv'
  BY <1>1 DEF Start
<1>2. ASSUME NEW b \in Builder, Stream(b) PROVE VerifiedInv'
  BY <1>2 DEF Stream
<1>3. ASSUME NEW b \in Builder, CreateSchema(b) PROVE VerifiedInv'
  <2>1. \A f \in File : file'[f].complete = file[f].complete
    BY <1>3 DEF CreateSchema
  <2> QED
    BY <1>3, <2>1 DEF CreateSchema
<1>4. ASSUME NEW b \in Builder, Commit(b) PROVE VerifiedInv'
  <2>1. intact
    BY <1>4 DEF Commit
  <2> QED
    BY <1>4, <2>1 DEF Commit
<1>5. ASSUME NEW b \in Builder,
             Clean(b) \/ Open(b) \/ Sync(b) \/ Rename(b) \/ SyncDir(b) \/ Fail(b) \/ Kill(b)
      PROVE  VerifiedInv'
  BY <1>5 DEF Clean, Open, Sync, Rename, SyncDir, Fail, Kill
<1>6. CASE UNCHANGED vars
  BY <1>6 DEF vars
<1> QED
  BY <1>1, <1>2, <1>3, <1>4, <1>5, <1>6 DEF Next, Work

(* Index::open accepts no index of a chunk that failed its hash, however   *)
(* the runs of any number of builders overlap, fail and die (build.rs: the *)
(* meta rows are written after reader.finish()).                           *)
THEOREM OpenedIndexIsVerified == Spec => []OpenedIsVerified
<1>1. Init => VerifiedInv
  BY DEF Init, VerifiedInv, File
<1>2. TypeOK /\ VerifiedInv /\ [Next]_vars => VerifiedInv'
  BY NextVerified
<1>3. TypeOK /\ VerifiedInv => OpenedIsVerified
  BY DEF TypeOK, VerifiedInv, OpenedIsVerified, Opens
<1> QED
  BY TypeCorrect, <1>1, <1>2, <1>3, PTL DEF Spec

-----------------------------------------------------------------------------
(* Runs that do not overlap                                                *)

Alone == AloneInv /\ CompleteAtOut

(* A step of the one builder at work: it alone is looked at.               *)
LEMMA NextAlone ==
  ASSUME TypeOK, TypeOK', Alone, [Next]_vars
  PROVE  Alone'
<1> SUFFICES ASSUME ~overlap' PROVE Alone'
  BY DEF Alone, AloneInv, CompleteAtOut
<1> USE BuildAssumption DEF Alone, AloneInv, CompleteAtOut, TypeOK, Goto, Ended
<1>1. ASSUME NEW b \in Builder, Start(b) PROVE Alone'
  <2>1. ~overlap /\ \A c \in Builder : pc[c] \in Ended
    BY <1>1 DEF Start
  <2> QED
    BY <1>1, <2>1 DEF Start
<1>2. ASSUME NEW b \in Builder, Work(b) \/ Kill(b) PROVE Alone'
  <2>1. ~overlap /\ pc[b] \notin Ended
    BY <1>2 DEF Work, Clean, Open, CreateSchema, Stream, Commit, Sync, Rename, SyncDir, Fail, Kill
  <2>2. \A c \in Builder : c # b => pc[c] \in Ended
    BY <2>1
  <2>3. CASE Clean(b)
    BY <2>1, <2>2, <2>3 DEF Clean
  <2>4. CASE Open(b)
    BY <2>1, <2>2, <2>4 DEF Open
  <2>5. CASE CreateSchema(b)
    <3>1. \A f \in File : file'[f].complete = file[f].complete
      BY <2>5 DEF CreateSchema
    <3> QED
      BY <2>1, <2>2, <2>5, <3>1 DEF CreateSchema
  <2>6. CASE Stream(b)
    BY <2>1, <2>2, <2>6 DEF Stream
  <2>7. CASE Commit(b)
    <3>1. file'[conn[b]].complete
      BY <2>7 DEF Commit
    <3>2. \A f \in File : file[f].complete => file'[f].complete
      BY <2>7 DEF Commit
    <3> QED
      BY <2>1, <2>2, <2>7, <3>1, <3>2 DEF Commit
  <2>8. CASE Sync(b)
    BY <2>1, <2>2, <2>8 DEF Sync
  <2>9. CASE Rename(b)
    BY <2>1, <2>2, <2>9 DEF Rename
  <2>10. CASE SyncDir(b)
    BY <2>1, <2>2, <2>10 DEF SyncDir
  <2>11. CASE Fail(b)
    BY <2>1, <2>2, <2>11 DEF Fail
  <2>12. CASE Kill(b)
    BY <2>1, <2>2, <2>12 DEF Kill
  <2> QED
    BY <1>2, <2>3, <2>4, <2>5, <2>6, <2>7, <2>8, <2>9, <2>10, <2>11, <2>12 DEF Work
<1>3. CASE UNCHANGED vars
  BY <1>3 DEF vars
<1> QED
  BY <1>1, <1>2, <1>3 DEF Next

LEMMA AloneCorrect == Spec => []Alone
<1>1. Init => Alone
  <2> SUFFICES ASSUME Init PROVE Alone
    OBVIOUS
  <2>1. AloneInv
    BY DEF Init, AloneInv, Ended
  <2>2. 0 \in File
    BY BuildAssumption DEF File
  <2>3. file[0].complete
    BY <2>2, Zenon DEF Init
  <2>4. CompleteAtOut
    BY <2>3 DEF Init, CompleteAtOut
  <2> QED
    BY <2>1, <2>4 DEF Alone
<1>2. TypeOK /\ TypeOK' /\ Alone /\ [Next]_vars => Alone'
  BY NextAlone
<1> QED
  BY TypeCorrect, <1>1, <1>2, PTL DEF Spec

(* If runs do not overlap, the final name leads to a complete index        *)
(* whatever fails and whenever a builder dies (build_index).               *)
THEOREM FinalIndexIsComplete == Spec => []CompleteAtOut
BY AloneCorrect, PTL DEF Alone

(* A builder that fails or is killed leaves what it found under the final  *)
(* name, or dies after the rename with its own index complete there        *)
(* (build_index, TmpGuard).                                                *)
THEOREM FailureLeavesOldIndex == Spec => FailureKeepsOldIndex
<1> DEFINE Keeps ==
      \A b \in Builder :
        Ends(b) /\ pc'[b] \in {"failed", "killed"} /\ ~overlap =>
          out' = found[b] \/ (pc[b] = "placed" /\ out' = conn[b] /\ file[out'].complete)
<1>1. TypeOK /\ Alone /\ [Next]_vars => Keeps
  <2> SUFFICES ASSUME TypeOK, Alone, [Next]_vars, ~overlap,
                      NEW b \in Builder, Ends(b), pc'[b] \in {"failed", "killed"}
               PROVE  out' = found[b] \/ (pc[b] = "placed" /\ out' = conn[b] /\ file[out'].complete)
    OBVIOUS
  <2> USE DEF TypeOK, Alone, AloneInv, CompleteAtOut, Ends, Goto, Ended
  <2>1. Fail(b) \/ Kill(b)
    <3>1. pc' # pc
      OBVIOUS
    <3>2. PICK c \in Builder : Start(c) \/ Work(c) \/ Kill(c)
      BY <3>1 DEF Next, vars
    <3>3. PICK where : Goto(c, where)
      BY <3>2 DEF Work, Start, Clean, Open, CreateSchema, Stream, Commit, Sync, Rename, SyncDir,
                  Fail, Kill
    <3>4. c = b /\ pc'[b] = where
      BY <3>3
    <3>5. ~Start(b)
      BY DEF Start
    <3> QED
      BY <3>2, <3>4, <3>5
         DEF Work, Clean, Open, CreateSchema, Stream, Commit, Sync, Rename, SyncDir
  <2>2. out' = out
    BY <2>1 DEF Fail, Kill
  <2> QED
    BY <2>1, <2>2 DEF Fail, Kill
<1> QED
  BY TypeCorrect, AloneCorrect, <1>1, PTL DEF Spec, FailureKeepsOldIndex

=============================================================================
