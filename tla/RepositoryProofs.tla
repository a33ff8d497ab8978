-------------------------- MODULE RepositoryProofs --------------------------
(* Theorems about Repository, for all processes, blobs, packs and sources.   *)
EXTENDS Repository, TLAPS

-----------------------------------------------------------------------------
(* The operators on indexes and packs                                        *)

\* Inserting a pack's entries into an index (index.Insert) yields an index.
LEMMA InsertType ==
    ASSUME NEW f \in Index, NEW k \in Packs
    PROVE  Insert(f, k) \in Index
BY DEF Insert, Index

LEMMA EmptyIndexType == EmptyIndex \in Index
BY DEF EmptyIndex, Index

\* What a set of packs holds grows with the set.
LEMMA StoredMonotone ==
    ASSUME NEW P, NEW Q, P \subseteq Q
    PROVE  Stored(P) \subseteq Stored(Q)
BY DEF Stored

-----------------------------------------------------------------------------
(* Type correctness                                                          *)

\* A process that exits leaves well-typed memory behind (any exit path).
LEMMA ExitType ==
    ASSUME TypeOK, NEW p \in Procs, Exit(p)
    PROVE  /\ pc' \in [Procs -> PCs]
           /\ idx' \in [Procs -> Index]
           /\ source' \in [Procs -> SUBSET Blobs]
           /\ queue' \in [Procs -> SUBSET Packs]
           /\ listing' \in [Procs -> SUBSET Packs]
BY EmptyIndexType DEF TypeOK, Exit, Goto, PCs

LEMMA TypeInit == Init => TypeOK
BY EmptyIndexType DEF Init, TypeOK, PCs

LEMMA TypeStep ==
    ASSUME TypeOK, [Next]_vars
    PROVE  TypeOK'
<1>1. CASE UNCHANGED vars
  BY <1>1 DEF TypeOK, vars, store, memory
<1>2. CASE LoseIndex
  BY <1>2 DEF TypeOK, LoseIndex, memory
<1>3. ASSUME NEW p \in Procs, Step(p) PROVE TypeOK'
  <2>1. CASE Create(p)
    BY <2>1 DEF TypeOK, Create, memory
  <2>2. CASE LoadIndex(p)
    BY <2>2 DEF TypeOK, LoadIndex, Goto, PCs, store
  <2>3. CASE RebuildOnOpen(p)
    BY <2>3, EmptyIndexType DEF TypeOK, RebuildOnOpen, StartRebuild, Goto, PCs, store
  <2>4. ASSUME NEW k \in Packs, RebuildPack(p, k) PROVE TypeOK'
    BY <2>4, InsertType DEF TypeOK, RebuildPack, store
  <2>5. ASSUME NEW k \in Packs, RebuildMiss(p, k) PROVE TypeOK'
    BY <2>5 DEF TypeOK, RebuildMiss, store
  <2>6. CASE RebuildDone(p)
    BY <2>6 DEF TypeOK, RebuildDone, Goto, PCs, Collecting, store, memory
  <2>7. ASSUME NEW S \in Sources, NEW Q \in SUBSET Packs, BackupFiles(p, S, Q)
        PROVE  TypeOK'
    BY <2>7, SourcesAssumption DEF TypeOK, BackupFiles, Goto, PCs, store
  <2>8. ASSUME NEW k \in Packs, PutPack(p, k) PROVE TypeOK'
    BY <2>8, InsertType DEF TypeOK, PutPack
  <2>9. CASE SaveIndex(p)
    BY <2>9 DEF TypeOK, SaveIndex, Goto, PCs, memory
  <2>10. CASE SaveSnapshot(p)
    BY <2>10, ExitType DEF TypeOK, SaveSnapshot
  <2>11. CASE ListPacks(p)
    BY <2>11 DEF TypeOK, ListPacks, Goto, PCs, store
  <2>12. CASE ReportProblems(p)
    BY <2>12 DEF TypeOK, ReportProblems, Goto, PCs, store, memory
  <2>13. CASE NothingToDo(p)
    BY <2>13, ExitType DEF TypeOK, NothingToDo, store
  <2>14. CASE CollectGarbage(p)
    BY <2>14 DEF TypeOK, CollectGarbage, OrphanPacks, Goto, PCs, Collecting, store
  <2>15. ASSUME NEW k \in Packs, DeletePack(p, k) PROVE TypeOK'
    BY <2>15 DEF TypeOK, DeletePack
  <2>16. CASE RebuildAfterGC(p)
    BY <2>16, EmptyIndexType
    DEF TypeOK, RebuildAfterGC, StartRebuild, Goto, PCs, Collecting, store
  <2>17. CASE SaveIndexAfterGC(p)
    BY <2>17, ExitType DEF TypeOK, SaveIndexAfterGC
  <2>18. CASE Fail(p)
    BY <2>18, ExitType DEF TypeOK, Fail, store
  <2> QED
    BY <1>3, <2>1, <2>2, <2>3, <2>4, <2>5, <2>6, <2>7, <2>8, <2>9, <2>10,
       <2>11, <2>12, <2>13, <2>14, <2>15, <2>16, <2>17, <2>18 DEF Step
<1> QED
  BY <1>1, <1>2, <1>3 DEF Next

\* Every command, every rebuild and every failure keeps the objects of the
\* store and the memory of the processes well-typed.
THEOREM TypeCorrect == Spec => []TypeOK
<1>1. TypeOK /\ [Next]_vars => TypeOK'
  BY TypeStep
<1> QED
  BY TypeInit, <1>1, PTL DEF Spec

-----------------------------------------------------------------------------
(* The data of the snapshots                                                 *)

LEMMA EmptySound == ASSUME NEW P PROVE Sound(EmptyIndex, P)
BY DEF Sound, EmptyIndex

\* Reading or storing one more pack keeps an index sound.
LEMMA InsertSound ==
    ASSUME NEW f \in Index, NEW P, NEW k \in P \cap Packs, Sound(f, P)
    PROVE  Sound(Insert(f, k), P)
BY DEF Sound, Insert, Index

LEMMA SoundMonotone ==
    ASSUME NEW f, NEW P, NEW Q, P \subseteq Q, Sound(f, P)
    PROVE  Sound(f, Q)
BY DEF Sound

\* What a sound index knows is stored.
LEMMA KnownIsStored ==
    ASSUME NEW f, NEW P, Sound(f, P)
    PROVE  Known(f) \subseteq Stored(P)
BY DEF Sound, Known, Stored

\* Inserting a pack adds exactly its blobs to what an index knows.
LEMMA InsertKnown ==
    ASSUME NEW f \in Index, NEW k \in Packs
    PROVE  Known(Insert(f, k)) = Known(f) \cup Contents[k]
BY ContentsAssumption, NoneAssumption DEF Known, Insert, Index

LEMMA DataInit == Init => DataInv
BY TypeInit, EmptySound
DEF Init, DataInv, PhasesAreAllowed, WriterIndexesSound, IndexObjectSound,
    BackupsCovered, GCSparesLiveBlobs, SnapshotDataPresent, Live, Stored, Collecting

\* While a writer does something else than delete packs, nobody does.
LEMMA NoGCBesideWriter ==
    ASSUME GCRunsAlone, PhasesAreAllowed,
           NEW p \in Procs, Writer(p), pc[p] \notin Collecting
    PROVE  \A q \in Procs : pc[q] \notin Collecting
BY DEF GCRunsAlone, PhasesAreAllowed

\* One step of any process, in a repository where gc runs alone, keeps the
\* inductive invariant.
LEMMA DataStep ==
    ASSUME GCRunsAlone, DataInv, [Next]_vars
    PROVE  DataInv'
<1> USE DEF DataInv
<1>0. TypeOK'
  BY TypeStep
<1>1. CASE UNCHANGED vars
  BY <1>1, <1>0 DEF vars, store, memory, PhasesAreAllowed, WriterIndexesSound,
     IndexObjectSound, BackupsCovered, GCSparesLiveBlobs, SnapshotDataPresent, Live
<1>2. CASE LoseIndex
  BY <1>2, <1>0 DEF LoseIndex, memory, PhasesAreAllowed, WriterIndexesSound,
     IndexObjectSound, BackupsCovered, GCSparesLiveBlobs, SnapshotDataPresent, Live
<1>3. ASSUME NEW p \in Procs, Step(p) PROVE DataInv'
  <2>1. CASE Create(p)
    <3>1. PhasesAreAllowed'
      BY <2>1 DEF Create, memory, PhasesAreAllowed, TypeOK, Collecting
    <3>2. WriterIndexesSound'
      BY <2>1 DEF Create, memory, WriterIndexesSound, TypeOK
    <3>3. IndexObjectSound'
      BY <2>1 DEF Create, memory, IndexObjectSound, TypeOK, Collecting
    <3>4. BackupsCovered'
      BY <2>1 DEF Create, memory, BackupsCovered, TypeOK
    <3>5. GCSparesLiveBlobs'
      BY <2>1 DEF Create, memory, GCSparesLiveBlobs, TypeOK, Live
    <3>6. SnapshotDataPresent'
      BY <2>1 DEF Create, SnapshotDataPresent, Live
    <3> QED
      BY <1>0, <3>1, <3>2, <3>3, <3>4, <3>5, <3>6
  <2>2. CASE LoadIndex(p)
    <3>2. WriterIndexesSound'
      <4>1. Writer(p) => Sound(index, packs)
        BY <2>2, NoGCBesideWriter DEF LoadIndex, IndexObjectSound, Collecting
      <4> QED
        BY <2>2, <4>1 DEF LoadIndex, Goto, WriterIndexesSound, TypeOK, store
    <3>1. PhasesAreAllowed'
      BY <2>2 DEF LoadIndex, Goto, store, PhasesAreAllowed, TypeOK, Collecting
    <3>3. IndexObjectSound'
      BY <2>2 DEF LoadIndex, Goto, store, IndexObjectSound, TypeOK, Collecting
    <3>4. BackupsCovered'
      BY <2>2 DEF LoadIndex, Goto, store, BackupsCovered, TypeOK
    <3>5. GCSparesLiveBlobs'
      BY <2>2 DEF LoadIndex, Goto, store, GCSparesLiveBlobs, TypeOK, Live
    <3>6. SnapshotDataPresent'
      BY <2>2 DEF LoadIndex, store, SnapshotDataPresent, Live
    <3> QED
      BY <1>0, <3>1, <3>2, <3>3, <3>4, <3>5, <3>6
  <2>3. CASE RebuildOnOpen(p)
    <3>1. PhasesAreAllowed'
      BY <2>3, EmptySound DEF RebuildOnOpen, StartRebuild, Goto, store,
          PhasesAreAllowed, TypeOK, Collecting
    <3>2. WriterIndexesSound'
      BY <2>3, EmptySound DEF RebuildOnOpen, StartRebuild, Goto, store,
          WriterIndexesSound, TypeOK
    <3>3. IndexObjectSound'
      BY <2>3, EmptySound DEF RebuildOnOpen, StartRebuild, Goto, store,
          IndexObjectSound, TypeOK, Collecting
    <3>4. BackupsCovered'
      BY <2>3, EmptySound DEF RebuildOnOpen, StartRebuild, Goto, store,
          BackupsCovered, TypeOK
    <3>5. GCSparesLiveBlobs'
      BY <2>3, EmptySound DEF RebuildOnOpen, StartRebuild, Goto, store,
          GCSparesLiveBlobs, TypeOK, Live
    <3>6. SnapshotDataPresent'
      BY <2>3, EmptySound DEF RebuildOnOpen, store, SnapshotDataPresent, Live,
          StartRebuild
    <3> QED
      BY <1>0, <3>1, <3>2, <3>3, <3>4, <3>5, <3>6
  <2>4. ASSUME NEW k \in Packs, RebuildPack(p, k) PROVE DataInv'
    <3>2. WriterIndexesSound'
      <4>1. Writer(p) => Sound(Insert(idx[p], k), packs)
        BY <2>4, InsertSound DEF RebuildPack, Rebuilding, WriterIndexesSound, TypeOK
      <4> QED
        BY <2>4, <4>1 DEF RebuildPack, WriterIndexesSound, TypeOK, store
    <3>1. PhasesAreAllowed'
      BY <2>4 DEF RebuildPack, store, Rebuilding, PhasesAreAllowed, TypeOK,
          Collecting
    <3>3. IndexObjectSound'
      BY <2>4 DEF RebuildPack, store, Rebuilding, IndexObjectSound, TypeOK,
          Collecting
    <3>4. BackupsCovered'
      BY <2>4 DEF RebuildPack, store, Rebuilding, BackupsCovered, TypeOK
    <3>5. GCSparesLiveBlobs'
      BY <2>4 DEF RebuildPack, store, Rebuilding, GCSparesLiveBlobs, TypeOK,
          Live
    <3>6. SnapshotDataPresent'
      BY <2>4 DEF RebuildPack, store, SnapshotDataPresent, Live
    <3> QED
      BY <1>0, <3>1, <3>2, <3>3, <3>4, <3>5, <3>6
  <2>5. ASSUME NEW k \in Packs, RebuildMiss(p, k) PROVE DataInv'
    <3>1. PhasesAreAllowed'
      BY <2>5 DEF RebuildMiss, store, Rebuilding, PhasesAreAllowed, TypeOK,
          Collecting
    <3>2. WriterIndexesSound'
      BY <2>5 DEF RebuildMiss, store, Rebuilding, WriterIndexesSound, TypeOK
    <3>3. IndexObjectSound'
      BY <2>5 DEF RebuildMiss, store, Rebuilding, IndexObjectSound, TypeOK,
          Collecting
    <3>4. BackupsCovered'
      BY <2>5 DEF RebuildMiss, store, Rebuilding, BackupsCovered, TypeOK
    <3>5. GCSparesLiveBlobs'
      BY <2>5 DEF RebuildMiss, store, Rebuilding, GCSparesLiveBlobs, TypeOK,
          Live
    <3>6. SnapshotDataPresent'
      BY <2>5 DEF RebuildMiss, store, SnapshotDataPresent, Live
    <3> QED
      BY <1>0, <3>1, <3>2, <3>3, <3>4, <3>5, <3>6
  <2>6. CASE RebuildDone(p)
    <3>1. PhasesAreAllowed'
      BY <2>6 DEF RebuildDone, Goto, Rebuilding, store, memory,
          PhasesAreAllowed, TypeOK, Collecting
    <3>2. WriterIndexesSound'
      BY <2>6 DEF RebuildDone, Goto, Rebuilding, store, memory,
          WriterIndexesSound, TypeOK
    <3>3. IndexObjectSound'
      BY <2>6 DEF RebuildDone, Goto, Rebuilding, store, memory,
          IndexObjectSound, TypeOK, Collecting
    <3>4. BackupsCovered'
      BY <2>6 DEF RebuildDone, Goto, Rebuilding, store, memory,
          BackupsCovered, TypeOK
    <3>5. GCSparesLiveBlobs'
      BY <2>6 DEF RebuildDone, Goto, Rebuilding, store, memory,
          GCSparesLiveBlobs, TypeOK, Live
    <3>6. SnapshotDataPresent'
      BY <2>6 DEF RebuildDone, store, SnapshotDataPresent, Live
    <3> QED
      BY <1>0, <3>1, <3>2, <3>3, <3>4, <3>5, <3>6
  <2>7. ASSUME NEW S \in Sources, NEW Q \in SUBSET Packs, BackupFiles(p, S, Q)
        PROVE  DataInv'
    <3>4. BackupsCovered'
      <4>1. S \subseteq Known(idx[p]) \cup Stored(Q)
        BY <2>7 DEF BackupFiles, Packing
      <4> QED
        BY <2>7, <4>1 DEF BackupFiles, Goto, BackupsCovered, TypeOK
    <3>1. PhasesAreAllowed'
      BY <2>7 DEF BackupFiles, Goto, store, PhasesAreAllowed, TypeOK,
          Collecting
    <3>2. WriterIndexesSound'
      BY <2>7 DEF BackupFiles, Goto, store, WriterIndexesSound, TypeOK
    <3>3. IndexObjectSound'
      BY <2>7 DEF BackupFiles, Goto, store, IndexObjectSound, TypeOK,
          Collecting
    <3>5. GCSparesLiveBlobs'
      BY <2>7 DEF BackupFiles, Goto, store, GCSparesLiveBlobs, TypeOK, Live
    <3>6. SnapshotDataPresent'
      BY <2>7 DEF BackupFiles, store, SnapshotDataPresent, Live
    <3> QED
      BY <1>0, <3>1, <3>2, <3>3, <3>4, <3>5, <3>6
  <2>8. ASSUME NEW k \in Packs, PutPack(p, k) PROVE DataInv'
    <3>0. /\ packs \subseteq packs'
          /\ "backup" \in Commands[p]
          /\ Sound(Insert(idx[p], k), packs')
      <4>1. Writer(p) /\ packs \subseteq packs' /\ k \in packs'
        BY <2>8 DEF PutPack, PhasesAreAllowed, Writer
      <4>2. Sound(idx[p], packs')
        BY <2>8, <4>1, SoundMonotone DEF PutPack, WriterIndexesSound
      <4> QED
        BY <2>8, <4>1, <4>2, InsertSound DEF PutPack, PhasesAreAllowed, TypeOK
    <3>2. WriterIndexesSound'
      <4>1. \A q \in Procs : Sound(idx[q], packs) => Sound(idx[q], packs')
        BY <3>0, SoundMonotone
      <4> QED
        BY <2>8, <3>0, <4>1 DEF PutPack, WriterIndexesSound, TypeOK
    <3>3. IndexObjectSound'
      <4>1. Sound(index, packs) => Sound(index, packs')
        BY <3>0, SoundMonotone
      <4> QED
        BY <2>8, <4>1 DEF PutPack, IndexObjectSound
    <3>4. BackupsCovered'
      <4>1. Known(idx'[p]) = Known(idx[p]) \cup Contents[k]
        BY <2>8, InsertKnown DEF PutPack, TypeOK
      <4>2. Stored(queue[p]) \subseteq Contents[k] \cup Stored(queue'[p])
        BY <2>8 DEF PutPack, TypeOK, Stored
      <4> QED
        BY <2>8, <4>1, <4>2 DEF PutPack, BackupsCovered, TypeOK
    <3>6. SnapshotDataPresent'
      BY <2>8, <3>0, StoredMonotone DEF PutPack, SnapshotDataPresent, Live
    <3>1. PhasesAreAllowed'
      BY <2>8 DEF PutPack, PhasesAreAllowed, TypeOK, Collecting
    <3>5. GCSparesLiveBlobs'
      BY <2>8 DEF PutPack, GCSparesLiveBlobs, TypeOK, Live
    <3> QED
      BY <1>0, <3>1, <3>2, <3>3, <3>4, <3>5, <3>6
  <2>9. CASE SaveIndex(p)
    <3>3. IndexObjectSound'
      BY <2>9 DEF SaveIndex, memory, PhasesAreAllowed, WriterIndexesSound, IndexObjectSound, Writer
    <3>1. PhasesAreAllowed'
      BY <2>9 DEF SaveIndex, Goto, memory, PhasesAreAllowed, TypeOK,
          Collecting
    <3>2. WriterIndexesSound'
      BY <2>9 DEF SaveIndex, Goto, memory, WriterIndexesSound, TypeOK
    <3>4. BackupsCovered'
      BY <2>9 DEF SaveIndex, Goto, memory, BackupsCovered, TypeOK
    <3>5. GCSparesLiveBlobs'
      BY <2>9 DEF SaveIndex, Goto, memory, GCSparesLiveBlobs, TypeOK, Live
    <3>6. SnapshotDataPresent'
      BY <2>9 DEF SaveIndex, SnapshotDataPresent, Live
    <3> QED
      BY <1>0, <3>1, <3>2, <3>3, <3>4, <3>5, <3>6
  <2>10. CASE SaveSnapshot(p)
    <3>0. source[p] \subseteq Stored(packs) /\ Writer(p)
      <4>1. Writer(p) /\ Sound(idx[p], packs)
        BY <2>10 DEF SaveSnapshot, PhasesAreAllowed, WriterIndexesSound, Writer
      <4>2. source[p] \subseteq Known(idx[p])
        BY <2>10 DEF SaveSnapshot, BackupsCovered, Stored
      <4> QED
        BY <4>1, <4>2, KnownIsStored
    <3>5. GCSparesLiveBlobs'
      <4>1. \A q \in Procs : pc[q] # "deleting"
        BY <2>10, <3>0, NoGCBesideWriter DEF SaveSnapshot, Collecting
      <4> QED
        BY <2>10, <4>1 DEF SaveSnapshot, Exit, Goto, GCSparesLiveBlobs, TypeOK
    <3>6. SnapshotDataPresent'
      BY <2>10, <3>0 DEF SaveSnapshot, SnapshotDataPresent, Live
    <3>1. PhasesAreAllowed'
      BY <2>10, EmptySound DEF SaveSnapshot, Exit, Goto, PhasesAreAllowed,
          TypeOK, Collecting
    <3>2. WriterIndexesSound'
      BY <2>10, EmptySound DEF SaveSnapshot, Exit, Goto, WriterIndexesSound,
          TypeOK
    <3>3. IndexObjectSound'
      BY <2>10, EmptySound DEF SaveSnapshot, Exit, Goto, IndexObjectSound,
          TypeOK, Collecting
    <3>4. BackupsCovered'
      BY <2>10, EmptySound DEF SaveSnapshot, Exit, Goto, BackupsCovered,
          TypeOK
    <3> QED
      BY <1>0, <3>1, <3>2, <3>3, <3>4, <3>5, <3>6
  <2>11. CASE ListPacks(p)
    <3>1. PhasesAreAllowed'
      BY <2>11 DEF ListPacks, Goto, store, PhasesAreAllowed, TypeOK,
          Collecting
    <3>2. WriterIndexesSound'
      BY <2>11 DEF ListPacks, Goto, store, WriterIndexesSound, TypeOK
    <3>3. IndexObjectSound'
      BY <2>11 DEF ListPacks, Goto, store, IndexObjectSound, TypeOK,
          Collecting
    <3>4. BackupsCovered'
      BY <2>11 DEF ListPacks, Goto, store, BackupsCovered, TypeOK
    <3>5. GCSparesLiveBlobs'
      BY <2>11 DEF ListPacks, Goto, store, GCSparesLiveBlobs, TypeOK, Live
    <3>6. SnapshotDataPresent'
      BY <2>11 DEF ListPacks, store, SnapshotDataPresent, Live
    <3> QED
      BY <1>0, <3>1, <3>2, <3>3, <3>4, <3>5, <3>6
  <2>12. CASE ReportProblems(p)
    <3>1. PhasesAreAllowed'
      BY <2>12 DEF ReportProblems, Goto, store, memory, PhasesAreAllowed,
          TypeOK, Collecting
    <3>2. WriterIndexesSound'
      BY <2>12 DEF ReportProblems, Goto, store, memory, WriterIndexesSound,
          TypeOK
    <3>3. IndexObjectSound'
      BY <2>12 DEF ReportProblems, Goto, store, memory, IndexObjectSound,
          TypeOK, Collecting
    <3>4. BackupsCovered'
      BY <2>12 DEF ReportProblems, Goto, store, memory, BackupsCovered, TypeOK
    <3>5. GCSparesLiveBlobs'
      BY <2>12 DEF ReportProblems, Goto, store, memory, GCSparesLiveBlobs,
          TypeOK, Live
    <3>6. SnapshotDataPresent'
      BY <2>12 DEF ReportProblems, store, SnapshotDataPresent, Live
    <3> QED
      BY <1>0, <3>1, <3>2, <3>3, <3>4, <3>5, <3>6
  <2>13. CASE NothingToDo(p)
    <3>1. PhasesAreAllowed'
      BY <2>13, EmptySound DEF NothingToDo, Exit, Goto, store,
          PhasesAreAllowed, TypeOK, Collecting
    <3>2. WriterIndexesSound'
      BY <2>13, EmptySound DEF NothingToDo, Exit, Goto, store,
          WriterIndexesSound, TypeOK
    <3>3. IndexObjectSound'
      BY <2>13, EmptySound DEF NothingToDo, Exit, Goto, store,
          IndexObjectSound, TypeOK, Collecting
    <3>4. BackupsCovered'
      BY <2>13, EmptySound DEF NothingToDo, Exit, Goto, store, BackupsCovered,
          TypeOK
    <3>5. GCSparesLiveBlobs'
      BY <2>13, EmptySound DEF NothingToDo, Exit, Goto, store,
          GCSparesLiveBlobs, TypeOK, Live
    <3>6. SnapshotDataPresent'
      BY <2>13, EmptySound DEF NothingToDo, store, SnapshotDataPresent, Live
    <3> QED
      BY <1>0, <3>1, <3>2, <3>3, <3>4, <3>5, <3>6
  <2>14. CASE CollectGarbage(p)
    <3>5. GCSparesLiveBlobs'
      <4>1. Live \subseteq Blobs
        BY DEF Live, TypeOK
      <4>2. Sound(idx[p], packs)
        BY <2>14 DEF CollectGarbage, PhasesAreAllowed, WriterIndexesSound, Writer
      <4>3. \A b \in Live : idx[p][b] \in listing[p] /\ idx[p][b] # None
        BY <2>14, NoneAssumption DEF CollectGarbage, ReportOK, TypeOK
      <4>4. \A b \in Live : /\ idx[p][b] \in packs \ OrphanPacks(p)
                            /\ b \in Contents[idx[p][b]]
        BY <4>1, <4>2, <4>3 DEF Sound, OrphanPacks
      <4> QED
        BY <2>14, <4>4 DEF CollectGarbage, Goto, GCSparesLiveBlobs, Live, TypeOK, store
    <3>1. PhasesAreAllowed'
      BY <2>14 DEF CollectGarbage, Goto, store, PhasesAreAllowed, TypeOK,
          Collecting
    <3>2. WriterIndexesSound'
      BY <2>14 DEF CollectGarbage, Goto, store, WriterIndexesSound, TypeOK
    <3>3. IndexObjectSound'
      BY <2>14 DEF CollectGarbage, Goto, store, IndexObjectSound, TypeOK,
          Collecting
    <3>4. BackupsCovered'
      BY <2>14 DEF CollectGarbage, Goto, store, BackupsCovered, TypeOK
    <3>6. SnapshotDataPresent'
      BY <2>14 DEF CollectGarbage, store, SnapshotDataPresent, Live
    <3> QED
      BY <1>0, <3>1, <3>2, <3>3, <3>4, <3>5, <3>6
  <2>15. ASSUME NEW k \in Packs, DeletePack(p, k) PROVE DataInv'
    <3>0. \A q \in Procs : Writer(q) \/ pc[q] \in Collecting => q = p
      BY <2>15 DEF DeletePack, PhasesAreAllowed, GCRunsAlone, Collecting, Writer
    <3>2. WriterIndexesSound'
      BY <2>15, <3>0 DEF DeletePack, WriterIndexesSound
    <3>5. GCSparesLiveBlobs'
      <4>1. \A q \in Procs : pc[q] = "deleting" => q = p
        BY <3>0 DEF Collecting
      <4> QED
        BY <2>15, <4>1 DEF DeletePack, GCSparesLiveBlobs, Live, TypeOK
    <3>6. SnapshotDataPresent'
      <4>1. \A b \in Live : idx[p][b] \in packs' /\ b \in Contents[idx[p][b]]
        BY <2>15 DEF DeletePack, GCSparesLiveBlobs
      <4> QED
        BY <2>15, <4>1 DEF DeletePack, SnapshotDataPresent, Live, Stored
    <3>1. PhasesAreAllowed'
      BY <2>15 DEF DeletePack, PhasesAreAllowed, TypeOK, Collecting
    <3>3. IndexObjectSound'
      BY <2>15 DEF DeletePack, IndexObjectSound, TypeOK, Collecting
    <3>4. BackupsCovered'
      BY <2>15 DEF DeletePack, BackupsCovered, TypeOK
    <3> QED
      BY <1>0, <3>1, <3>2, <3>3, <3>4, <3>5, <3>6
  <2>16. CASE RebuildAfterGC(p)
    <3>1. PhasesAreAllowed'
      BY <2>16, EmptySound DEF RebuildAfterGC, StartRebuild, Goto, store,
          PhasesAreAllowed, TypeOK, Collecting
    <3>2. WriterIndexesSound'
      BY <2>16, EmptySound DEF RebuildAfterGC, StartRebuild, Goto, store,
          WriterIndexesSound, TypeOK
    <3>3. IndexObjectSound'
      BY <2>16, EmptySound DEF RebuildAfterGC, StartRebuild, Goto, store,
          IndexObjectSound, TypeOK, Collecting
    <3>4. BackupsCovered'
      BY <2>16, EmptySound DEF RebuildAfterGC, StartRebuild, Goto, store,
          BackupsCovered, TypeOK
    <3>5. GCSparesLiveBlobs'
      BY <2>16, EmptySound DEF RebuildAfterGC, StartRebuild, Goto, store,
          GCSparesLiveBlobs, TypeOK, Live
    <3>6. SnapshotDataPresent'
      BY <2>16, EmptySound DEF RebuildAfterGC, store, SnapshotDataPresent,
          Live, StartRebuild
    <3> QED
      BY <1>0, <3>1, <3>2, <3>3, <3>4, <3>5, <3>6
  <2>17. CASE SaveIndexAfterGC(p)
    <3>3. IndexObjectSound'
      BY <2>17
      DEF SaveIndexAfterGC, PhasesAreAllowed, WriterIndexesSound, IndexObjectSound,
          Writer, Collecting
    <3>1. PhasesAreAllowed'
      BY <2>17, EmptySound DEF SaveIndexAfterGC, Exit, Goto, PhasesAreAllowed,
          TypeOK, Collecting
    <3>2. WriterIndexesSound'
      BY <2>17, EmptySound DEF SaveIndexAfterGC, Exit, Goto,
          WriterIndexesSound, TypeOK
    <3>4. BackupsCovered'
      BY <2>17, EmptySound DEF SaveIndexAfterGC, Exit, Goto, BackupsCovered,
          TypeOK
    <3>5. GCSparesLiveBlobs'
      BY <2>17, EmptySound DEF SaveIndexAfterGC, Exit, Goto,
          GCSparesLiveBlobs, TypeOK, Live
    <3>6. SnapshotDataPresent'
      BY <2>17, EmptySound DEF SaveIndexAfterGC, SnapshotDataPresent, Live
    <3> QED
      BY <1>0, <3>1, <3>2, <3>3, <3>4, <3>5, <3>6
  <2>18. CASE Fail(p)
    <3>3. IndexObjectSound'
      <4>1. pc[p] \notin Collecting
        BY <2>18 DEF Fail, PhasesAreAllowed, GCRunsAlone
      <4> QED
        BY <2>18, <4>1 DEF Fail, Exit, Goto, IndexObjectSound, TypeOK, store
    <3>1. PhasesAreAllowed'
      BY <2>18, EmptySound DEF Fail, Exit, Goto, store, PhasesAreAllowed,
          TypeOK, Collecting
    <3>2. WriterIndexesSound'
      BY <2>18, EmptySound DEF Fail, Exit, Goto, store, WriterIndexesSound,
          TypeOK
    <3>4. BackupsCovered'
      BY <2>18, EmptySound DEF Fail, Exit, Goto, store, BackupsCovered, TypeOK
    <3>5. GCSparesLiveBlobs'
      BY <2>18, EmptySound DEF Fail, Exit, Goto, store, GCSparesLiveBlobs,
          TypeOK, Live
    <3>6. SnapshotDataPresent'
      BY <2>18, EmptySound DEF Fail, store, SnapshotDataPresent, Live
    <3> QED
      BY <1>0, <3>1, <3>2, <3>3, <3>4, <3>5, <3>6
  <2> QED
    BY <1>3, <2>1, <2>2, <2>3, <2>4, <2>5, <2>6, <2>7, <2>8, <2>9, <2>10,
        <2>11, <2>12, <2>13, <2>14, <2>15, <2>16, <2>17, <2>18 DEF Step
<1> QED
  BY <1>1, <1>2, <1>3 DEF Next

\* The data of every snapshot stays in the repository: for any number of
\* processes, each failing anywhere, any loss of the index object, and gc as
\* long as it completes and no other process writes meanwhile.
THEOREM DataNeverLost ==
    ASSUME GCRunsAlone
    PROVE  Spec => []SnapshotDataPresent
<1>1. DataInv /\ [Next]_vars => DataInv'
  BY DataStep
<1>2. DataInv => SnapshotDataPresent
  BY DEF DataInv
<1> QED
  BY DataInit, <1>1, <1>2, PTL DEF Spec

-----------------------------------------------------------------------------
(* Refinement of Vault                                                       *)

\* A step that changes neither the packs nor the manifests is a stutter.
LEMMA StoreUnchanged ==
    ASSUME packs' = packs, snapshots' = snapshots
    PROVE  UNCHANGED <<Stored(packs), snapshots>>
BY DEF Stored

LEMMA VaultStep ==
    ASSUME GCRunsAlone, DataInv, [Next]_vars
    PROVE  [V!Next]_<<Stored(packs), snapshots>>
<1> USE DEF DataInv
<1>1. CASE UNCHANGED vars
  BY <1>1, StoreUnchanged DEF vars, store
<1>2. CASE LoseIndex
  BY <1>2, StoreUnchanged DEF LoseIndex
<1>3. ASSUME NEW p \in Procs, Step(p)
      PROVE  [V!Next]_<<Stored(packs), snapshots>>
  <2>1. CASE packs' = packs /\ snapshots' = snapshots
    BY <2>1, StoreUnchanged
  <2>2. ASSUME NEW k \in Packs, PutPack(p, k) PROVE V!Next
    <3>1. Stored(packs') = Stored(packs) \cup Contents[k]
      BY <2>2 DEF PutPack, Stored
    <3>2. Contents[k] \in SUBSET Blobs
      BY ContentsAssumption
    <3> QED
      BY <2>2, <3>1, <3>2 DEF PutPack, V!Next, V!Store
  <2>3. CASE SaveSnapshot(p)
    <3>1. Sound(idx[p], packs)
      BY <2>3 DEF SaveSnapshot, PhasesAreAllowed, WriterIndexesSound, Writer
    <3>2. source[p] \in Sources /\ source[p] \subseteq Known(idx[p])
      BY <2>3 DEF SaveSnapshot, BackupsCovered, Stored
    <3>3. source[p] \subseteq Stored(packs)
      BY <3>1, <3>2, KnownIsStored
    <3>4. Stored(packs') = Stored(packs)
      BY <2>3 DEF SaveSnapshot
    <3> QED
      BY <2>3, <3>2, <3>3, <3>4 DEF SaveSnapshot, V!Next, V!Commit
  <2>4. ASSUME NEW k \in Packs, DeletePack(p, k) PROVE V!Next
    <3> DEFINE Gone == Stored(packs) \ Stored(packs')
    <3>1. Stored(packs') \subseteq Stored(packs)
      BY <2>4, StoredMonotone DEF DeletePack
    <3>2. Live \subseteq Stored(packs')
      BY <2>4, DataStep DEF DeletePack, SnapshotDataPresent, Live
    <3>3. Gone \in SUBSET (Stored(packs) \ UNION snapshots)
      BY <2>4, <3>2 DEF DeletePack, Live
    <3>4. Stored(packs') = Stored(packs) \ Gone
      BY <3>1
    <3> HIDE DEF Gone
    <3> QED
      BY <2>4, <3>3, <3>4 DEF DeletePack, V!Next, V!Reclaim
  <2> QED
    BY <1>3, <2>1, <2>2, <2>3, <2>4
    DEF Step, store, Create, LoadIndex, RebuildOnOpen, StartRebuild, RebuildPack,
        RebuildMiss, RebuildDone, BackupFiles, SaveIndex, ListPacks, ReportProblems,
        NothingToDo, CollectGarbage, RebuildAfterGC, SaveIndexAfterGC, Fail
<1> QED
  BY <1>1, <1>2, <1>3 DEF Next

\* The repository, with all its packs, indexes, rebuilds and failures, keeps
\* the promise of Vault wherever gc completes and runs alone.
THEOREM RefinesVault ==
    ASSUME GCRunsAlone
    PROVE  Spec => ImplementsVault
<1>1. Init => V!Init
  BY DEF Init, V!Init, Stored
<1>2. DataInv /\ [Next]_vars => DataInv'
  BY DataStep
<1>3. DataInv /\ [Next]_vars => [V!Next]_<<Stored(packs), snapshots>>
  BY VaultStep
<1> QED
  BY DataInit, <1>1, <1>2, <1>3, PTL DEF Spec, ImplementsVault, V!Spec

-----------------------------------------------------------------------------
(* Opening through the index object                                          *)

LEMMA OneWriterGC == OneWriter => GCRunsAlone
BY DEF OneWriter, GCRunsAlone, Writer

LEMMA ResolveInit == Init => ResolveInv
BY DataInit
DEF Init, ResolveInv, WriterKnowsSnapshots, IndexObjectIsWriters, SnapshotsResolve, Rebuilding

\* A sound index that knows every blob of every snapshot leads to all of them.
LEMMA SoundResolves ==
    ASSUME NEW f, NEW P, NEW B \in SUBSET Blobs, Sound(f, P), B \subseteq Known(f)
    PROVE  \A b \in B : f[b] \in P /\ b \in Contents[f[b]]
BY DEF Sound, Known

\* One step of any process, with one writer, keeps ResolveInv.
LEMMA ResolveStep ==
    ASSUME OneWriter, ResolveInv, [Next]_vars
    PROVE  ResolveInv'
<1> USE DEF ResolveInv, DataInv
<1>0. DataInv' /\ DataInv
  BY DataStep, OneWriterGC
<1>1. CASE UNCHANGED vars
  BY <1>0, <1>1 DEF vars, store, memory, WriterKnowsSnapshots, IndexObjectIsWriters,
     SnapshotsResolve, Live, Rebuilding
<1>2. CASE LoseIndex
  BY <1>0, <1>2 DEF LoseIndex, memory, WriterKnowsSnapshots, IndexObjectIsWriters,
     SnapshotsResolve, Live, Rebuilding
<1>3. ASSUME NEW p \in Procs, Step(p) PROVE ResolveInv'
  <2>1. CASE Create(p)
    <3>1. WriterKnowsSnapshots'
      BY <2>1 DEF Create, memory, WriterKnowsSnapshots, Rebuilding, Live, TypeOK
    <3>2. IndexObjectIsWriters'
      BY <2>1 DEF Create, memory, IndexObjectIsWriters, TypeOK
    <3>3. SnapshotsResolve'
      BY <2>1 DEF Create, SnapshotsResolve, Live
    <3> QED
      BY <1>0, <3>1, <3>2, <3>3
  <2>2. CASE LoadIndex(p)
    <3>1. WriterKnowsSnapshots'
      <4>1. Live \subseteq Blobs /\ index \in Index
        BY <2>2 DEF LoadIndex, Live, TypeOK
      <4>2. Live \subseteq Known(index)
        BY <2>2, <4>1, NoneAssumption DEF LoadIndex, SnapshotsResolve, Known, TypeOK
      <4> QED
        BY <2>2, <4>2
        DEF LoadIndex, Goto, store, WriterKnowsSnapshots, Rebuilding, Live, TypeOK
    <3>2. IndexObjectIsWriters'
      BY <2>2 DEF LoadIndex, Goto, store, IndexObjectIsWriters, TypeOK
    <3>3. SnapshotsResolve'
      BY <2>2 DEF LoadIndex, store, SnapshotsResolve, Live
    <3> QED
      BY <1>0, <3>1, <3>2, <3>3
  <2>3. CASE RebuildOnOpen(p)
    <3>1. WriterKnowsSnapshots'
      <4>1. Stored(packs \ packs) = {}
        BY DEF Stored
      <4> QED
        BY <2>3, <4>1
        DEF RebuildOnOpen, StartRebuild, Goto, store, WriterKnowsSnapshots, Rebuilding,
            Live, TypeOK
    <3>2. IndexObjectIsWriters'
      BY <2>3 DEF RebuildOnOpen, StartRebuild, Goto, store,
          IndexObjectIsWriters, TypeOK
    <3>3. SnapshotsResolve'
      BY <2>3 DEF RebuildOnOpen, StartRebuild, store, SnapshotsResolve, Live
    <3> QED
      BY <1>0, <3>1, <3>2, <3>3
  <2>4. ASSUME NEW k \in Packs, RebuildPack(p, k) PROVE ResolveInv'
    <3>1. WriterKnowsSnapshots'
      <4>1. Known(Insert(idx[p], k)) = Known(idx[p]) \cup Contents[k]
        BY <2>4, InsertKnown DEF TypeOK
      <4>2. Stored(packs \ (listing[p] \ {k})) \subseteq Stored(packs \ listing[p]) \cup Contents[k]
        BY DEF Stored
      <4> QED
        BY <2>4, <4>1, <4>2
        DEF RebuildPack, store, WriterKnowsSnapshots, Rebuilding, Live, TypeOK
    <3>2. IndexObjectIsWriters'
      BY <2>4 DEF RebuildPack, Rebuilding, store, IndexObjectIsWriters, TypeOK
    <3>3. SnapshotsResolve'
      BY <2>4 DEF RebuildPack, store, SnapshotsResolve, Live
    <3> QED
      BY <1>0, <3>1, <3>2, <3>3
  <2>5. ASSUME NEW k \in Packs, RebuildMiss(p, k) PROVE ResolveInv'
    <3>1. WriterKnowsSnapshots'
      <4>1. packs \ (listing[p] \ {k}) = packs \ listing[p]
        BY <2>5 DEF RebuildMiss
      <4> QED
        BY <2>5, <4>1
        DEF RebuildMiss, store, WriterKnowsSnapshots, Rebuilding, Live, TypeOK
    <3>2. IndexObjectIsWriters'
      BY <2>5 DEF RebuildMiss, store, IndexObjectIsWriters, TypeOK
    <3>3. SnapshotsResolve'
      BY <2>5 DEF RebuildMiss, store, SnapshotsResolve, Live
    <3> QED
      BY <1>0, <3>1, <3>2, <3>3
  <2>6. CASE RebuildDone(p)
    <3>1. WriterKnowsSnapshots'
      <4>1. packs \ listing[p] = packs
        BY <2>6 DEF RebuildDone
      <4>2. Writer(p) => Live \subseteq Known(idx[p])
        BY <2>6, <4>1 DEF RebuildDone, WriterKnowsSnapshots, SnapshotDataPresent
      <4> QED
        BY <2>6, <4>2
        DEF RebuildDone, Goto, store, memory, WriterKnowsSnapshots, Rebuilding, Live, TypeOK
    <3>2. IndexObjectIsWriters'
      BY <2>6 DEF RebuildDone, Goto, store, memory, IndexObjectIsWriters, Rebuilding, TypeOK
    <3>3. SnapshotsResolve'
      BY <2>6 DEF RebuildDone, store, SnapshotsResolve, Live
    <3> QED
      BY <1>0, <3>1, <3>2, <3>3
  <2>7. ASSUME NEW S \in Sources, NEW Q \in SUBSET Packs, BackupFiles(p, S, Q)
        PROVE  ResolveInv'
    <3>1. WriterKnowsSnapshots'
      BY <2>7 DEF BackupFiles, Goto, store, WriterKnowsSnapshots, Rebuilding,
          Live, TypeOK
    <3>2. IndexObjectIsWriters'
      BY <2>7 DEF BackupFiles, Goto, store, IndexObjectIsWriters, TypeOK
    <3>3. SnapshotsResolve'
      BY <2>7 DEF BackupFiles, store, SnapshotsResolve, Live
    <3> QED
      BY <1>0, <3>1, <3>2, <3>3
  <2>8. ASSUME NEW k \in Packs, PutPack(p, k) PROVE ResolveInv'
    <3>0. Writer(p) /\ \A q \in Procs : Writer(q) => q = p
      BY <2>8 DEF PutPack, PhasesAreAllowed, Writer, OneWriter
    <3>1. WriterKnowsSnapshots'
      <4>1. Known(Insert(idx[p], k)) = Known(idx[p]) \cup Contents[k]
        BY <2>8, InsertKnown DEF TypeOK
      <4> QED
        BY <2>8, <3>0, <4>1
        DEF PutPack, WriterKnowsSnapshots, Rebuilding, Live, TypeOK
    <3>2. IndexObjectIsWriters'
      BY <2>8, <3>0 DEF PutPack, IndexObjectIsWriters
    <3>3. SnapshotsResolve'
      BY <2>8 DEF PutPack, SnapshotsResolve, Live
    <3> QED
      BY <1>0, <3>1, <3>2, <3>3
  <2>9. CASE SaveIndex(p)
    <3>0. /\ Writer(p) /\ \A q \in Procs : Writer(q) => q = p
          /\ Sound(idx[p], packs)
      BY <2>9 DEF SaveIndex, PhasesAreAllowed, Writer, OneWriter, WriterIndexesSound
    <3>1. WriterKnowsSnapshots'
      BY <2>9 DEF SaveIndex, Goto, memory, WriterKnowsSnapshots, Rebuilding,
          Live, TypeOK
    <3>2. IndexObjectIsWriters'
      BY <2>9, <3>0 DEF SaveIndex, Goto, memory, IndexObjectIsWriters, TypeOK
    <3>3. SnapshotsResolve'
      <4>1. Live \in SUBSET Blobs /\ Live \subseteq Known(idx[p])
        BY <2>9, <3>0 DEF SaveIndex, WriterKnowsSnapshots, Live, TypeOK
      <4> QED
        BY <2>9, <3>0, <4>1, SoundResolves DEF SaveIndex, memory, SnapshotsResolve, Live
    <3> QED
      BY <1>0, <3>1, <3>2, <3>3
  <2>10. CASE SaveSnapshot(p)
    <3>0. /\ Writer(p) /\ \A q \in Procs : Writer(q) => q = p
          /\ Sound(idx[p], packs)
      BY <2>10 DEF SaveSnapshot, PhasesAreAllowed, Writer, OneWriter, WriterIndexesSound
    <3>1. WriterKnowsSnapshots'
      BY <2>10, <3>0 DEF SaveSnapshot, Exit, Goto, WriterKnowsSnapshots, Rebuilding, TypeOK
    <3>2. IndexObjectIsWriters'
      BY <2>10, <3>0 DEF SaveSnapshot, Exit, Goto, IndexObjectIsWriters, TypeOK
    <3>3. SnapshotsResolve'
      <4>1. source[p] \in SUBSET Blobs /\ source[p] \subseteq Known(idx[p])
        BY <2>10 DEF SaveSnapshot, BackupsCovered, Stored, TypeOK
      <4>2. index # NoIndex => index = idx[p]
        BY <2>10, <3>0 DEF SaveSnapshot, IndexObjectIsWriters
      <4>3. \A b \in source[p] : idx[p][b] \in packs /\ b \in Contents[idx[p][b]]
        BY <3>0, <4>1, SoundResolves
      <4> QED
        BY <2>10, <4>2, <4>3 DEF SaveSnapshot, SnapshotsResolve, Live
    <3> QED
      BY <1>0, <3>1, <3>2, <3>3
  <2>11. CASE ListPacks(p)
    <3>1. WriterKnowsSnapshots'
      BY <2>11 DEF ListPacks, Goto, store, WriterKnowsSnapshots, Rebuilding,
          Live, TypeOK
    <3>2. IndexObjectIsWriters'
      BY <2>11 DEF ListPacks, Goto, store, IndexObjectIsWriters, TypeOK
    <3>3. SnapshotsResolve'
      BY <2>11 DEF ListPacks, store, SnapshotsResolve, Live
    <3> QED
      BY <1>0, <3>1, <3>2, <3>3
  <2>12. CASE ReportProblems(p)
    <3>1. WriterKnowsSnapshots'
      BY <2>12 DEF ReportProblems, Goto, store, memory, WriterKnowsSnapshots,
          Rebuilding, Live, TypeOK
    <3>2. IndexObjectIsWriters'
      BY <2>12 DEF ReportProblems, Goto, store, memory, IndexObjectIsWriters,
          TypeOK
    <3>3. SnapshotsResolve'
      BY <2>12 DEF ReportProblems, store, SnapshotsResolve, Live
    <3> QED
      BY <1>0, <3>1, <3>2, <3>3
  <2>13. CASE NothingToDo(p)
    <3>1. WriterKnowsSnapshots'
      BY <2>13 DEF NothingToDo, Exit, Goto, store, WriterKnowsSnapshots,
          Rebuilding, Live, TypeOK
    <3>2. IndexObjectIsWriters'
      BY <2>13 DEF NothingToDo, Exit, Goto, store, IndexObjectIsWriters, TypeOK
    <3>3. SnapshotsResolve'
      BY <2>13 DEF NothingToDo, store, SnapshotsResolve, Live
    <3> QED
      BY <1>0, <3>1, <3>2, <3>3
  <2>14. CASE CollectGarbage(p)
    <3>1. WriterKnowsSnapshots'
      BY <2>14 DEF CollectGarbage, Goto, store, WriterKnowsSnapshots,
          Rebuilding, Live, TypeOK
    <3>2. IndexObjectIsWriters'
      BY <2>14 DEF CollectGarbage, Goto, store, IndexObjectIsWriters, TypeOK
    <3>3. SnapshotsResolve'
      BY <2>14 DEF CollectGarbage, store, SnapshotsResolve, Live
    <3> QED
      BY <1>0, <3>1, <3>2, <3>3
  <2>15. ASSUME NEW k \in Packs, DeletePack(p, k) PROVE ResolveInv'
    <3>0. Writer(p) /\ \A q \in Procs : Writer(q) => q = p
      BY <2>15 DEF DeletePack, PhasesAreAllowed, Writer, OneWriter, Collecting
    <3>1. WriterKnowsSnapshots'
      BY <2>15, <3>0 DEF DeletePack, WriterKnowsSnapshots, Rebuilding, Live
    <3>2. IndexObjectIsWriters'
      BY <2>15 DEF DeletePack, IndexObjectIsWriters, TypeOK
    <3>3. SnapshotsResolve'
      <4>1. index # NoIndex => index = idx[p]
        BY <2>15, <3>0 DEF DeletePack, IndexObjectIsWriters
      <4>2. \A b \in Live : idx[p][b] \in packs' /\ b \in Contents[idx[p][b]]
        BY <2>15 DEF DeletePack, GCSparesLiveBlobs
      <4> QED
        BY <2>15, <4>1, <4>2 DEF DeletePack, SnapshotsResolve, Live
    <3> QED
      BY <1>0, <3>1, <3>2, <3>3
  <2>16. CASE RebuildAfterGC(p)
    <3>1. WriterKnowsSnapshots'
      <4>1. Stored(packs \ packs) = {}
        BY DEF Stored
      <4> QED
        BY <2>16, <4>1
        DEF RebuildAfterGC, StartRebuild, Goto, store, WriterKnowsSnapshots, Rebuilding,
            Live, TypeOK
    <3>2. IndexObjectIsWriters'
      BY <2>16 DEF RebuildAfterGC, StartRebuild, Goto, store,
          IndexObjectIsWriters, TypeOK
    <3>3. SnapshotsResolve'
      BY <2>16 DEF RebuildAfterGC, StartRebuild, store, SnapshotsResolve, Live
    <3> QED
      BY <1>0, <3>1, <3>2, <3>3
  <2>17. CASE SaveIndexAfterGC(p)
    <3>0. /\ Writer(p) /\ \A q \in Procs : Writer(q) => q = p
          /\ Sound(idx[p], packs)
      BY <2>17 DEF SaveIndexAfterGC, PhasesAreAllowed, Writer, OneWriter, Collecting,
         WriterIndexesSound
    <3>1. WriterKnowsSnapshots'
      BY <2>17 DEF SaveIndexAfterGC, Exit, Goto, WriterKnowsSnapshots,
          Rebuilding, Live, TypeOK
    <3>2. IndexObjectIsWriters'
      BY <2>17, <3>0 DEF SaveIndexAfterGC, Exit, Goto, IndexObjectIsWriters, TypeOK
    <3>3. SnapshotsResolve'
      <4>1. Live \in SUBSET Blobs /\ Live \subseteq Known(idx[p])
        BY <2>17, <3>0 DEF SaveIndexAfterGC, WriterKnowsSnapshots, Live, TypeOK
      <4> QED
        BY <2>17, <3>0, <4>1, SoundResolves DEF SaveIndexAfterGC, SnapshotsResolve, Live
    <3> QED
      BY <1>0, <3>1, <3>2, <3>3
  <2>18. CASE Fail(p)
    <3>1. WriterKnowsSnapshots'
      BY <2>18 DEF Fail, Exit, Goto, store, WriterKnowsSnapshots, Rebuilding,
          Live, TypeOK
    <3>2. IndexObjectIsWriters'
      BY <2>18 DEF Fail, Exit, Goto, store, IndexObjectIsWriters, TypeOK
    <3>3. SnapshotsResolve'
      BY <2>18 DEF Fail, store, SnapshotsResolve, Live
    <3> QED
      BY <1>0, <3>1, <3>2, <3>3
  <2> QED
    BY <1>3, <2>1, <2>2, <2>3, <2>4, <2>5, <2>6, <2>7, <2>8, <2>9, <2>10, <2>11,
        <2>12, <2>13, <2>14, <2>15, <2>16, <2>17, <2>18 DEF Step
<1> QED
  BY <1>1, <1>2, <1>3 DEF Next

\* With one writer at a time, every manifest can be read through the index
\* object at every moment, whatever fails: an index that Open loads is never
\* too old for a snapshot.
THEOREM SnapshotsAlwaysResolve ==
    ASSUME OneWriter
    PROVE  Spec => []SnapshotsResolve
<1>1. ResolveInv /\ [Next]_vars => ResolveInv'
  BY ResolveStep
<1>2. ResolveInv => SnapshotsResolve
  BY DEF ResolveInv
<1> QED
  BY ResolveInit, <1>1, <1>2, PTL DEF Spec

-----------------------------------------------------------------------------
(* What a backup leaves out, and what verify reports                         *)

\* HasBlob is to be trusted: wherever gc runs alone and to its end, a blob a
\* backup leaves out of its packs because its index knows the blob is stored,
\* however old that index is and whatever other backups run.
THEOREM SkippedAreStored ==
    ASSUME GCRunsAlone
    PROVE  Spec => []SkippedBlobsStored
<1>1. DataInv /\ [Next]_vars => DataInv'
  BY DataStep
<1>2. DataInv => SkippedBlobsStored
  <2> SUFFICES ASSUME DataInv, NEW p \in Procs, pc[p] \in {"uploading", "committing"},
                      NEW b \in source[p]
               PROVE  b \in Stored(packs \cup queue[p])
    BY DEF SkippedBlobsStored
  <2>1. Writer(p) /\ Sound(idx[p], packs)
    BY DEF DataInv, PhasesAreAllowed, WriterIndexesSound, Writer
  <2>2. b \in Known(idx[p]) \/ b \in Stored(queue[p])
    BY DEF DataInv, BackupsCovered
  <2>3. CASE b \in Known(idx[p])
    BY <2>1, <2>3 DEF Known, Sound, Stored
  <2>4. CASE b \in Stored(queue[p])
    BY <2>4 DEF Stored
  <2> QED
    BY <2>2, <2>3, <2>4
<1> QED
  BY DataInit, <1>1, <1>2, PTL DEF Spec

\* The listing a lone writer checks its snapshots against misses no pack, so
\* it never has a problem to report.
ReportInv ==
    \A p \in Procs : Writer(p) =>
        /\ pc[p] # "failed"
        /\ pc[p] \in {"verify", "gc"} => packs \subseteq listing[p]

LEMMA ReportStep ==
    ASSUME OneWriter, ResolveInv, ReportInv, [Next]_vars
    PROVE  ReportInv'
<1> USE DEF ResolveInv, DataInv
<1>1. CASE UNCHANGED vars
  BY <1>1 DEF vars, store, memory, ReportInv
<1>2. CASE LoseIndex
  BY <1>2 DEF LoseIndex, memory, ReportInv
<1>3. ASSUME NEW p \in Procs, Step(p) PROVE ReportInv'
  <2>1. CASE Create(p)
    BY <2>1 DEF Create, memory, ReportInv
  <2>2. CASE LoadIndex(p)
    BY <2>2 DEF LoadIndex, Goto, store, ReportInv, TypeOK
  <2>3. CASE RebuildOnOpen(p)
    BY <2>3 DEF RebuildOnOpen, StartRebuild, Goto, store, ReportInv, TypeOK
  <2>4. ASSUME NEW k \in Packs, RebuildPack(p, k) \/ RebuildMiss(p, k) PROVE ReportInv'
    BY <2>4 DEF RebuildPack, RebuildMiss, Rebuilding, store, ReportInv, TypeOK
  <2>5. CASE RebuildDone(p)
    BY <2>5 DEF RebuildDone, Goto, store, memory, ReportInv, TypeOK
  <2>6. ASSUME NEW S \in Sources, NEW Q \in SUBSET Packs, BackupFiles(p, S, Q)
        PROVE  ReportInv'
    BY <2>6 DEF BackupFiles, Goto, store, ReportInv, TypeOK
  <2>7. ASSUME NEW k \in Packs, PutPack(p, k) PROVE ReportInv'
    <3>1. Writer(p) /\ \A q \in Procs : Writer(q) => q = p
      BY <2>7 DEF PutPack, PhasesAreAllowed, Writer, OneWriter
    <3> QED
      BY <2>7, <3>1 DEF PutPack, ReportInv
  <2>8. CASE SaveIndex(p)
    BY <2>8 DEF SaveIndex, Goto, memory, ReportInv, TypeOK
  <2>9. CASE SaveSnapshot(p)
    BY <2>9 DEF SaveSnapshot, Exit, Goto, ReportInv, TypeOK
  <2>10. CASE ListPacks(p)
    BY <2>10 DEF ListPacks, Goto, store, ReportInv, TypeOK
  <2>11. CASE ReportProblems(p)
    <3>1. CASE Writer(p)
      <4>1. /\ packs \subseteq listing[p]
            /\ Sound(idx[p], packs)
            /\ Live \subseteq Known(idx[p])
        BY <2>11, <3>1 DEF ReportProblems, ReportInv, WriterIndexesSound, WriterKnowsSnapshots
      <4>2. ReportOK(p)
        BY <4>1 DEF ReportOK, Sound, Known
      <4> QED
        BY <2>11, <4>2 DEF ReportProblems
    <3>2. CASE ~Writer(p)
      BY <2>11, <3>2 DEF ReportProblems, Goto, store, memory, ReportInv, TypeOK
    <3> QED
      BY <3>1, <3>2
  <2>12. CASE NothingToDo(p)
    BY <2>12 DEF NothingToDo, Exit, Goto, store, ReportInv, TypeOK
  <2>13. CASE CollectGarbage(p)
    BY <2>13 DEF CollectGarbage, Goto, store, ReportInv, TypeOK
  <2>14. ASSUME NEW k \in Packs, DeletePack(p, k) PROVE ReportInv'
    BY <2>14 DEF DeletePack, ReportInv
  <2>15. CASE RebuildAfterGC(p)
    BY <2>15 DEF RebuildAfterGC, StartRebuild, Goto, store, ReportInv, TypeOK
  <2>16. CASE SaveIndexAfterGC(p)
    BY <2>16 DEF SaveIndexAfterGC, Exit, Goto, ReportInv, TypeOK
  <2>17. CASE Fail(p)
    BY <2>17 DEF Fail, Exit, Goto, store, ReportInv, TypeOK
  <2> QED
    BY <1>3, <2>1, <2>2, <2>3, <2>4, <2>5, <2>6, <2>7, <2>8, <2>9, <2>10, <2>11,
        <2>12, <2>13, <2>14, <2>15, <2>16, <2>17 DEF Step
<1> QED
  BY <1>1, <1>2, <1>3 DEF Next

\* With one writer at a time, verify and gc of the writer never cry wolf: what
\* they report as lost is lost, whatever was interrupted before.
THEOREM AlarmsAreReal ==
    ASSUME OneWriter
    PROVE  Spec => []AlarmMeansLoss
<1>1. Init => ReportInv
  BY DEF Init, ReportInv
<1>2. ResolveInv /\ [Next]_vars => ResolveInv'
  BY ResolveStep
<1>3. ResolveInv /\ ReportInv /\ [Next]_vars => ReportInv'
  BY ReportStep
<1>4. ReportInv => AlarmMeansLoss
  BY DEF ReportInv, AlarmMeansLoss
<1> QED
  BY ResolveInit, <1>1, <1>2, <1>3, <1>4, PTL DEF Spec

\* What is left of the packs once gc has deleted its orphans.
GarbageInv ==
    \A p \in Procs :
        /\ pc[p] = "deleting" => \A k \in packs \ queue[p] : Contents[k] \cap Live # {}
        /\ pc[p] \in {"gcRebuilding", "gcSaving"} => \A k \in packs : Contents[k] \cap Live # {}

LEMMA GarbageStep ==
    ASSUME OneWriter, ResolveInv, ReportInv, GarbageInv, [Next]_vars
    PROVE  GarbageInv'
<1> USE DEF ResolveInv, DataInv
<1>1. CASE UNCHANGED vars
  BY <1>1 DEF vars, store, memory, GarbageInv, Live
<1>2. CASE LoseIndex
  BY <1>2 DEF LoseIndex, memory, GarbageInv, Live
<1>3. ASSUME NEW p \in Procs, Step(p) PROVE GarbageInv'
  <2>1. CASE Create(p)
    BY <2>1 DEF Create, memory, GarbageInv, Live
  <2>2. CASE LoadIndex(p)
    BY <2>2 DEF LoadIndex, Goto, store, GarbageInv, Live, TypeOK
  <2>3. CASE RebuildOnOpen(p)
    BY <2>3 DEF RebuildOnOpen, StartRebuild, Goto, store, GarbageInv, Live, TypeOK
  <2>4. ASSUME NEW k \in Packs, RebuildPack(p, k) \/ RebuildMiss(p, k) PROVE GarbageInv'
    BY <2>4 DEF RebuildPack, RebuildMiss, Rebuilding, store, GarbageInv, Live, TypeOK
  <2>5. CASE RebuildDone(p)
    BY <2>5 DEF RebuildDone, Rebuilding, Goto, store, memory, GarbageInv, Live, TypeOK
  <2>6. ASSUME NEW S \in Sources, NEW Q \in SUBSET Packs, BackupFiles(p, S, Q)
        PROVE  GarbageInv'
    BY <2>6 DEF BackupFiles, Goto, store, GarbageInv, Live, TypeOK
  <2>7. ASSUME NEW k \in Packs, PutPack(p, k) PROVE GarbageInv'
    <3>1. \A q \in Procs : pc[q] \notin Collecting
      BY <2>7 DEF PutPack, PhasesAreAllowed, Writer, OneWriter, Collecting
    <3> QED
      BY <2>7, <3>1 DEF PutPack, GarbageInv, Collecting
  <2>8. CASE SaveIndex(p)
    BY <2>8 DEF SaveIndex, Goto, memory, GarbageInv, Live, TypeOK
  <2>9. CASE SaveSnapshot(p)
    <3>1. Live \subseteq Live'
      BY <2>9 DEF SaveSnapshot, Live
    <3> QED
      BY <2>9, <3>1 DEF SaveSnapshot, Exit, Goto, GarbageInv, TypeOK
  <2>10. CASE ListPacks(p)
    BY <2>10 DEF ListPacks, Goto, store, GarbageInv, Live, TypeOK
  <2>11. CASE ReportProblems(p)
    BY <2>11 DEF ReportProblems, Goto, store, memory, GarbageInv, Live, TypeOK
  <2>12. CASE NothingToDo(p)
    BY <2>12 DEF NothingToDo, Exit, Goto, store, GarbageInv, Live, TypeOK
  <2>13. CASE CollectGarbage(p)
    <3>1. /\ packs \subseteq listing[p]
          /\ Sound(idx[p], packs)
          /\ Live \subseteq Known(idx[p])
      BY <2>13 DEF CollectGarbage, PhasesAreAllowed, Writer, Collecting, ReportInv,
         WriterIndexesSound, WriterKnowsSnapshots
    <3>2. ASSUME NEW k \in packs \ OrphanPacks(p) PROVE Contents[k] \cap Live # {}
      <4>1. PICK b \in Live : idx[p][b] = k
        BY <3>1, <3>2 DEF OrphanPacks
      <4> QED
        BY <3>1, <4>1 DEF Sound, Known
    <3> QED
      BY <2>13, <3>2 DEF CollectGarbage, Goto, store, GarbageInv, Live, TypeOK
  <2>14. ASSUME NEW k \in Packs, DeletePack(p, k) PROVE GarbageInv'
    <3>1. packs' \ queue'[p] = packs \ queue[p]
      BY <2>14 DEF DeletePack, TypeOK
    <3> QED
      BY <2>14, <3>1 DEF DeletePack, GarbageInv, Live, TypeOK
  <2>15. CASE RebuildAfterGC(p)
    BY <2>15 DEF RebuildAfterGC, StartRebuild, Goto, store, GarbageInv, Live, TypeOK
  <2>16. CASE SaveIndexAfterGC(p)
    BY <2>16 DEF SaveIndexAfterGC, Exit, Goto, GarbageInv, Live, TypeOK
  <2>17. CASE Fail(p)
    BY <2>17 DEF Fail, Exit, Goto, store, GarbageInv, Live, TypeOK
  <2> QED
    BY <1>3, <2>1, <2>2, <2>3, <2>4, <2>5, <2>6, <2>7, <2>8, <2>9, <2>10, <2>11,
        <2>12, <2>13, <2>14, <2>15, <2>16, <2>17 DEF Step
<1> QED
  BY <1>1, <1>2, <1>3 DEF Next

\* With one writer at a time, a gc that has come to its end has left no pack
\* without a blob of some snapshot, whatever interrupted backups stored.
THEOREM GCLeavesNoGarbage ==
    ASSUME OneWriter
    PROVE  Spec => GCReclaimsGarbage
<1>1. Init => ReportInv /\ GarbageInv
  BY DEF Init, ReportInv, GarbageInv
<1>2. ResolveInv /\ [Next]_vars => ResolveInv'
  BY ResolveStep
<1>3. ResolveInv /\ ReportInv /\ [Next]_vars => ReportInv'
  BY ReportStep
<1>4. ResolveInv /\ ReportInv /\ GarbageInv /\ [Next]_vars => GarbageInv'
  BY GarbageStep
<1>5. GarbageInv =>
        [\A p \in Procs : SaveIndexAfterGC(p) =>
            \A k \in packs : Contents[k] \cap Live # {}]_vars
  BY DEF GarbageInv, SaveIndexAfterGC
<1> QED
  BY ResolveInit, <1>1, <1>2, <1>3, <1>4, <1>5, PTL DEF Spec, GCReclaimsGarbage
=============================================================================
