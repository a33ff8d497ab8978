------------------------ MODULE BackupPipelineProofs ------------------------
(* Theorems about BackupPipeline, for any files, versions, blobs, numbers of *)
(* workers, channel capacities, options and faults.                          *)
EXTENDS BackupPipeline, FiniteSetTheorems, SequenceTheorems, TLAPS

-----------------------------------------------------------------------------
(* Sequences                                                                 *)

LEMMA RangeAppend ==
    ASSUME NEW S, NEW s \in Seq(S), NEW e \in S
    PROVE  Range(Append(s, e)) = Range(s) \cup {e}
<1>1. /\ Len(Append(s, e)) = Len(s) + 1 /\ Append(s, e) \in Seq(S)
      /\ \A i \in 1..Len(s) : Append(s, e)[i] = s[i]
      /\ Append(s, e)[Len(s) + 1] = e
  BY AppendProperties
<1>2. Len(s) \in Nat /\ DOMAIN s = 1..Len(s) /\ DOMAIN Append(s, e) = 1..(Len(s) + 1)
  BY <1>1, LenProperties
<1> QED
  BY <1>1, <1>2 DEF Range

LEMMA RangeHeadTail ==
    ASSUME NEW S, NEW s \in Seq(S), s # <<>>
    PROVE  Range(s) = {Head(s)} \cup Range(Tail(s))
<1>1. /\ Head(s) = s[1] /\ Tail(s) \in Seq(S) /\ Len(Tail(s)) = Len(s) - 1
      /\ \A i \in 1..Len(Tail(s)) : Tail(s)[i] = s[i + 1]
  BY HeadTailProperties
<1>2. Len(s) \in Nat \ {0} /\ DOMAIN s = 1..Len(s) /\ DOMAIN Tail(s) = 1..(Len(s) - 1)
  BY <1>1, EmptySeq, LenProperties
<1>3. Range(s) = {s[i] : i \in 1..Len(s)} /\ Range(Tail(s)) = {Tail(s)[i] : i \in 1..(Len(s) - 1)}
  BY <1>2 DEF Range
<1>4. ASSUME NEW i \in 1..Len(s) PROVE s[i] \in {Head(s)} \cup Range(Tail(s))
  <2>1. CASE i = 1
    BY <1>1, <2>1
  <2>2. CASE i # 1
    <3>1. i - 1 \in 1..(Len(s) - 1) /\ Tail(s)[i - 1] = s[i]
      BY <1>1, <1>2, <2>2
    <3> QED
      BY <1>3, <3>1
  <2> QED
    BY <2>1, <2>2
<1>5. ASSUME NEW i \in 1..(Len(s) - 1) PROVE Tail(s)[i] \in Range(s)
  <2>1. i + 1 \in 1..Len(s) /\ Tail(s)[i] = s[i + 1]
    BY <1>1, <1>2
  <2> QED
    BY <1>3, <2>1
<1>6. Head(s) \in Range(s)
  BY <1>1, <1>2, <1>3
<1> QED
  BY <1>3, <1>4, <1>5, <1>6

LEMMA RangeType ==
    ASSUME NEW S, NEW s \in Seq(S)
    PROVE  Range(s) \subseteq S /\ Range(s) = {s[i] : i \in 1..Len(s)}
BY LenProperties, ElementOfSeq DEF Range

\* The next element goes from the rest of a sequence to what was read of it.
LEMMA ReadOne ==
    ASSUME NEW S, NEW s \in Seq(S), NEW t \in Seq(S), t # <<>>
    PROVE  Append(s, Head(t)) \o Tail(t) = s \o t
<1> DEFINE a == Append(s, Head(t))
<1>1. /\ Head(t) \in S /\ Head(t) = t[1] /\ Tail(t) \in Seq(S) /\ Len(Tail(t)) = Len(t) - 1
      /\ \A i \in 1..Len(Tail(t)) : Tail(t)[i] = t[i + 1]
  BY HeadTailProperties
<1>2. /\ a \in Seq(S) /\ Len(a) = Len(s) + 1
      /\ \A i \in 1..Len(s) : a[i] = s[i]
      /\ a[Len(s) + 1] = Head(t)
  BY <1>1, AppendProperties
<1>3. Len(s) \in Nat /\ Len(t) \in Nat \ {0}
  BY EmptySeq, LenProperties
<1> HIDE DEF a
<1>4. /\ a \o Tail(t) \in Seq(S) /\ Len(a \o Tail(t)) = Len(a) + Len(Tail(t))
      /\ \A i \in 1..(Len(a) + Len(Tail(t))) :
            (a \o Tail(t))[i] = IF i <= Len(a) THEN a[i] ELSE Tail(t)[i - Len(a)]
  BY <1>1, <1>2, ConcatProperties
<1>5. /\ s \o t \in Seq(S) /\ Len(s \o t) = Len(s) + Len(t)
      /\ \A i \in 1..(Len(s) + Len(t)) :
            (s \o t)[i] = IF i <= Len(s) THEN s[i] ELSE t[i - Len(s)]
  BY ConcatProperties
<1>6. Len(a \o Tail(t)) = Len(s \o t)
  BY <1>1, <1>2, <1>3, <1>4, <1>5
<1>7. ASSUME NEW i \in 1..(Len(s) + Len(t)) PROVE (a \o Tail(t))[i] = (s \o t)[i]
  <2>1. CASE i <= Len(s)
    BY <1>1, <1>2, <1>3, <1>4, <1>5, <2>1
  <2>2. CASE i = Len(s) + 1
    BY <1>1, <1>2, <1>3, <1>4, <1>5, <2>2
  <2>3. CASE i > Len(s) + 1
    <3>1. i - Len(a) \in 1..Len(Tail(t)) /\ (i - Len(a)) + 1 = i - Len(s)
      BY <1>1, <1>2, <1>3, <2>3
    <3>2. (a \o Tail(t))[i] = Tail(t)[i - Len(a)] /\ (s \o t)[i] = t[i - Len(s)]
      BY <1>1, <1>2, <1>3, <1>4, <1>5, <2>3
    <3> QED
      BY <1>1, <3>1, <3>2
  <2>4. i <= Len(s) \/ i = Len(s) + 1 \/ i > Len(s) + 1
    BY <1>3
  <2> QED
    BY <2>1, <2>2, <2>3, <2>4
<1> QED
  BY <1>4, <1>5, <1>6, <1>7, SeqEqual DEF a

-----------------------------------------------------------------------------
(* What each goroutine leaves alone                                          *)

LEMMA FeederFrame ==
    ASSUME Feeder
    PROVE  UNCHANGED <<context, input, counts, blobCh, packCh, blobClosed, packClosed,
                       worker, chunks, assembly, uploader, repo, result>>
BY DEF Feeder, Feed, FeederReturns, context, input, counts, assembly, repo, result

LEMMA WorkerFrame ==
    ASSUME NEW w \in ChunkWorkers, ChunkWorker(w)
    PROVE  /\ UNCHANGED <<canceled, input, packCh, fileClosed, blobClosed, packClosed, fed,
                          blobsNew, blobsDeduped, packsWritten, assembly, uploader, repo, result>>
           /\ stopped => stopped'
           /\ worker[w].at # "done"
BY DEF ChunkWorker, TakeFile, ReadChunk, SendChunk, EndOfFile, SendCanceled, ProgressReturns,
       WorkerReturns, WorkerFails, WorkerThrows, FileDone, Throw, WorkerIs,
       context, input, channels, counts, assembly, repo, result, workersOnly

LEMMA CloserFrame ==
    ASSUME CloseBlobCh
    PROVE  UNCHANGED <<context, input, fileCh, blobCh, packCh, fileClosed, packClosed, counts,
                       fed, worker, chunks, assembly, uploader, repo, result>>
BY DEF CloseBlobCh, context, input, counts, assembly, repo, result

LEMMA AssemblerFrame ==
    ASSUME Assembler
    PROVE  /\ UNCHANGED <<canceled, input, fileCh, fileClosed, blobClosed, filesDone, bytesRead,
                          packsWritten, fed, worker, chunks, uploader, repo, result>>
           /\ stopped => stopped'
           /\ assembler # "done"
BY DEF Assembler, SkipBlob, AddBlob, SendPack, FinishPack, DropPack, AssemblerReturns,
       AddFails, FinishFails, FlushDue, AssemblerThrows, Throw,
       context, channels, input, counts, assembly, repo, result, assemblyOnly

LEMMA UploaderFrame ==
    ASSUME NEW u \in UploadWorkers, UploadWorker(u)
    PROVE  /\ UNCHANGED <<canceled, input, fileCh, blobCh, fileClosed, blobClosed, packClosed,
                          filesDone, bytesRead, blobsNew, blobsDeduped, fed, worker, chunks,
                          assembly, result>>
           /\ stopped => stopped'
           /\ uploader[u].at # "done"
BY DEF UploadWorker, TakePack, StorePack, InsertEntries, CountPack, UploadFails,
       UploaderReturns, UploaderIs, Throw, context, input, channels, counts, assembly, repo, result

LEMMA MainFrame ==
    ASSUME BackupFiles
    PROVE  /\ UNCHANGED <<canceled, err, input, channels, counts, fed, worker, chunks, assembly,
                          uploader, repo>>
           /\ stopped => stopped'
BY DEF BackupFiles, Wait, SaveIndex, SaveSnapshot, SaveFails, mainOnly, context, input,
       channels, counts, assembly, repo, result

LEMMA CancelFrame ==
    ASSUME Cancel
    PROVE  /\ UNCHANGED <<err, input, channels, counts, fed, worker, chunks, assembly, uploader,
                          repo, result>>
           /\ canceled' /\ stopped' /\ main \notin {"succeeded", "failed"}
BY DEF Cancel, input, channels, counts, assembly, repo, result

-----------------------------------------------------------------------------
(* Types                                                                     *)

WorkerType == [at : {"recv", "read", "send", "failing", "report", "done"},
               file : Files \cup {Nothing}, todo : Seq(Blobs), ids : Seq(Blobs)]
UploaderType == [at : {"recv", "put", "insert", "count", "done"}, pack : SUBSET Blobs]

\* A worker that has a file in hand has read a part of one of its versions.
Reading(r) ==
    /\ r.at \in {"read", "send"} => r.file \in Files /\ r.ids \o r.todo \in Versions[r.file]
    /\ r.at = "send" => r.ids # <<>>

Typed == TypeOK /\ \A w \in ChunkWorkers : Reading(worker[w])

LEMMA VersionTypes == \A f \in Files : \A v \in Versions[f] : v \in Seq(Blobs)
BY VersionsAssumption

LEMMA TypeInit ==
    ASSUME Init
    PROVE  Typed
<1>1. Idle \in WorkerType /\ [Idle EXCEPT !.at = "done"] \in WorkerType
  BY EmptySeq DEF Idle, WorkerType
<1>2. NoPack \in UploaderType /\ [NoPack EXCEPT !.at = "done"] \in UploaderType
  BY DEF NoPack, UploaderType
<1>3. sizes \in [Files -> Nat]
  <2>1. PICK seen \in [Files -> UNION Range(Versions)] :
            /\ \A f \in Files : seen[f] \in Versions[f]
            /\ sizes = [f \in Files |-> Len(seen[f])]
    BY DEF Init
  <2>2. \A f \in Files : Len(seen[f]) \in Nat
    BY <2>1, VersionTypes, LenProperties
  <2> QED
    BY <2>1, <2>2
<1>4. /\ worker \in [ChunkWorkers -> WorkerType] /\ uploader \in [UploadWorkers -> UploaderType]
      /\ chunks \in [Files -> Seq(Blobs)]
  BY <1>1, <1>2, EmptySeq DEF Init
<1>5. TypeOK
  <2>1. /\ fileCh \in Seq(Files) /\ Len(fileCh) <= FileQueue
        /\ blobCh \in Seq(Blobs) /\ Len(blobCh) <= BlobQueue
        /\ packCh \in Seq(SUBSET Blobs) /\ Len(packCh) <= PackQueue
    BY EmptySeq, CapacitiesAssumption DEF Init
  <2>2. fed \in 0..NumFiles /\ idx \subseteq Blobs /\ opts \in OptionSets
    BY NumFilesAssumption, OptionsAssumption DEF Init
  <2>3. /\ canceled \in BOOLEAN /\ stopped \in BOOLEAN /\ err \in {Nothing, "chunk", "pack", "upload"}
        /\ {fileClosed, blobClosed, packClosed} \subseteq BOOLEAN
    BY DEF Init
  <2>4. {filesDone, bytesRead, blobsNew, blobsDeduped, packsWritten} \subseteq Nat
    BY DEF Init
  <2>5. /\ assembler \in {"recv", "full", "flush", "lastFlush", "failing", "done"}
        /\ inFlight \subseteq Blobs /\ building \subseteq inFlight /\ packs \subseteq SUBSET Blobs
        /\ main \in {"wait", "saveIndex", "saveSnapshot", "succeeded", "failed"}
    BY DEF Init
  <2> QED
    BY <1>3, <1>4, <2>1, <2>2, <2>3, <2>4, <2>5 DEF TypeOK, WorkerType, UploaderType
<1>6. ASSUME NEW w \in ChunkWorkers PROVE Reading(worker[w])
  BY DEF Init, Idle, Reading
<1> QED
  BY <1>5, <1>6 DEF Typed

LEMMA FeederType ==
    ASSUME Typed, Feeder
    PROVE  Typed'
<1>1. CASE Feed
  <2>1. fed + 1 \in Files /\ fed + 1 \in 0..NumFiles
    BY <1>1, NumFilesAssumption DEF Feed, Typed, TypeOK, Files
  <2>2. fileCh' \in Seq(Files) /\ Len(fileCh') <= FileQueue
    BY <1>1, <2>1, AppendProperties, LenProperties, CapacitiesAssumption DEF Feed, Typed, TypeOK
  <2> QED
    BY <1>1, <2>1, <2>2, FeederFrame DEF Feed, Typed, TypeOK, context, input, counts, assembly, repo, result
<1>2. CASE FeederReturns
  BY <1>2, FeederFrame DEF FeederReturns, Typed, TypeOK, context, input, counts, assembly, repo, result
<1> QED
  BY <1>1, <1>2 DEF Feeder

\* What a chunk worker may change.
LEMMA WorkerVarsType ==
    ASSUME Typed, NEW w \in ChunkWorkers, ChunkWorker(w),
           NEW r \in WorkerType, worker' = [worker EXCEPT ![w] = r], Reading(r),
           fileCh' \in Seq(Files), Len(fileCh') <= FileQueue,
           blobCh' \in Seq(Blobs), Len(blobCh') <= BlobQueue,
           chunks' \in [Files -> Seq(Blobs)], filesDone' \in Nat, bytesRead' \in Nat,
           stopped' \in BOOLEAN, err' \in {Nothing, "chunk", "pack", "upload"}
    PROVE  Typed'
<1>1. TypeOK'
  BY WorkerFrame DEF Typed, TypeOK, WorkerType, input, assembly, repo, result
<1>2. ASSUME NEW v \in ChunkWorkers PROVE Reading(worker[v])'
  <2>1. worker'[v] = IF v = w THEN r ELSE worker[v]
    BY DEF Typed, TypeOK
  <2>2. Reading(worker'[v])
    BY <2>1 DEF Typed
  <2> QED
    BY <2>2 DEF Reading
<1> QED
  BY <1>1, <1>2 DEF Typed

\* The blob that a worker is about to send.
LEMMA SentBlobType ==
    ASSUME Typed, NEW w \in ChunkWorkers, worker[w].at = "send"
    PROVE  /\ worker[w].ids \in Seq(Blobs) /\ worker[w].ids # <<>>
           /\ Len(worker[w].ids) \in 1..Len(worker[w].ids)
           /\ worker[w].ids[Len(worker[w].ids)] \in Blobs
<1>1. worker[w].ids \in Seq(Blobs) /\ worker[w].ids # <<>>
  BY DEF Typed, TypeOK, Reading
<1>2. Len(worker[w].ids) \in Nat \ {0}
  BY <1>1, EmptySeq
<1> QED
  BY <1>1, <1>2, ElementOfSeq

LEMMA ChunkWorkerType ==
    ASSUME Typed, NEW w \in ChunkWorkers, ChunkWorker(w)
    PROVE  Typed'
<1>1. worker[w] \in WorkerType /\ Reading(worker[w])
  BY DEF Typed, TypeOK, WorkerType
<1>2. \A l \in {"recv", "failing", "report", "done"} :
          [Idle EXCEPT !.at = l] \in WorkerType /\ Reading([Idle EXCEPT !.at = l])
  BY EmptySeq DEF WorkerType, Idle, Reading
<1>3. Idle = [Idle EXCEPT !.at = "recv"]
  BY DEF Idle
<1>4. CASE TakeFile(w)
  <2>1. Head(fileCh) \in Files /\ Tail(fileCh) \in Seq(Files) /\ Len(Tail(fileCh)) <= FileQueue
    BY <1>4, HeadTailProperties, LenProperties, CapacitiesAssumption DEF TakeFile, Typed, TypeOK
  <2>2. PICK v \in Versions[Head(fileCh)] : worker' = [worker EXCEPT ![w] =
            [at |-> "read", file |-> Head(fileCh), todo |-> v, ids |-> <<>>]]
    BY <1>4 DEF TakeFile, SetWorker
  <2> DEFINE r == [at |-> "read", file |-> Head(fileCh), todo |-> v, ids |-> <<>>]
  <2>3. v \in Seq(Blobs) /\ <<>> \o v = v
    BY <2>1, VersionTypes, ConcatEmptySeq
  <2>4. r \in WorkerType /\ Reading(r)
    BY <2>1, <2>3 DEF WorkerType, Reading
  <2> HIDE DEF r
  <2> QED
    BY <1>4, <2>1, <2>2, <2>4, WorkerVarsType DEF r, TakeFile, Typed, TypeOK, context, counts
<1>5. CASE ReadChunk(w)
  <2> DEFINE ids == Append(worker[w].ids, Head(worker[w].todo))
  <2> DEFINE r == [worker[w] EXCEPT !.at = "send", !.ids = ids, !.todo = Tail(@)]
  <2>1. /\ worker[w].todo \in Seq(Blobs) /\ worker[w].todo # <<>>
        /\ worker[w].ids \in Seq(Blobs) /\ worker[w].at = "read"
    BY <1>1, <1>5 DEF ReadChunk, WorkerType, WorkerIs
  <2>2. Head(worker[w].todo) \in Blobs /\ Tail(worker[w].todo) \in Seq(Blobs)
    BY <2>1, HeadTailProperties
  <2>3. ids \in Seq(Blobs) /\ ids # <<>>
        /\ ids \o Tail(worker[w].todo) = worker[w].ids \o worker[w].todo
    BY <2>1, <2>2, AppendProperties, ReadOne
  <2>4. worker' = [worker EXCEPT ![w] = r]
    BY <1>5 DEF ReadChunk, SetWorker
  <2> HIDE DEF ids
  <2>5. r \in WorkerType /\ Reading(r)
    BY <1>1, <2>1, <2>2, <2>3 DEF WorkerType, Reading
  <2> HIDE DEF r
  <2> QED
    BY <1>5, <2>4, <2>5, WorkerVarsType
    DEF ReadChunk, Typed, TypeOK, workersOnly, context, channels, counts
<1>6. CASE SendChunk(w)
  <2> DEFINE r == [worker[w] EXCEPT !.at = "read"]
  <2>1. r \in WorkerType /\ Reading(r)
    BY <1>1, <1>6 DEF WorkerType, Reading, SendChunk, WorkerIs
  <2>2. worker[w].ids[Len(worker[w].ids)] \in Blobs
    BY <1>6, SentBlobType DEF SendChunk, WorkerIs
  <2>3. blobCh' \in Seq(Blobs) /\ Len(blobCh') <= BlobQueue
    BY <1>6, <2>2, AppendProperties, LenProperties, CapacitiesAssumption DEF SendChunk, Typed, TypeOK
  <2>4. worker' = [worker EXCEPT ![w] = r]
    BY <1>6 DEF SendChunk, SetWorker
  <2> HIDE DEF r
  <2> QED
    BY <1>6, <2>1, <2>3, <2>4, WorkerVarsType DEF SendChunk, Typed, TypeOK, context, counts
<1>7. ASSUME NEW ids \in Seq(Blobs), NEW n \in Nat, FileDone(w, ids, n) PROVE Typed'
  <2>1. PICK l \in {"report", "recv"} : worker' = [worker EXCEPT ![w] = [Idle EXCEPT !.at = l]]
    BY <1>7 DEF FileDone, SetWorker
  <2>2. chunks' \in [Files -> Seq(Blobs)] /\ filesDone' \in Nat /\ bytesRead' \in Nat
    <3>1. chunks' = [chunks EXCEPT ![worker[w].file] = ids] /\ chunks \in [Files -> Seq(Blobs)]
      BY <1>7 DEF FileDone, Typed, TypeOK
    <3>2. filesDone \in Nat /\ bytesRead \in Nat
      BY DEF Typed, TypeOK
    <3>3. filesDone' = filesDone + 1 /\ bytesRead' = bytesRead + n
      BY <1>7 DEF FileDone
    <3>4. chunks' \in [Files -> Seq(Blobs)]
      BY <3>1
    <3>5. filesDone' \in Nat /\ bytesRead' \in Nat
      BY <3>2, <3>3
    <3> QED
      BY <3>4, <3>5
  <2> QED
    BY <1>2, <1>7, <2>1, <2>2, WorkerVarsType DEF FileDone, Typed, TypeOK, context, channels
<1>8. CASE EndOfFile(w) \/ SendCanceled(w)
  <2>1. worker[w].ids \in Seq(Blobs) /\ Len(worker[w].ids) \in Nat
        /\ <<>> \in Seq(Blobs) /\ 0 \in Nat
    BY <1>1, LenProperties, EmptySeq DEF WorkerType
  <2> QED
    BY <1>7, <1>8, <2>1 DEF EndOfFile, SendCanceled
<1>9. CASE ProgressReturns(w) \/ WorkerReturns(w) \/ WorkerFails(w)
  <2>1. PICK l \in {"recv", "done", "failing"} : worker' = [worker EXCEPT ![w] = [Idle EXCEPT !.at = l]]
    BY <1>3, <1>9 DEF ProgressReturns, WorkerReturns, WorkerFails, SetWorker
  <2>2. UNCHANGED workersOnly
    BY <1>9 DEF ProgressReturns, WorkerReturns, WorkerFails
  <2> QED
    BY <1>2, <2>1, <2>2, WorkerVarsType DEF Typed, TypeOK, workersOnly, context, channels, counts
<1>10. CASE WorkerThrows(w)
  BY <1>2, <1>10, WorkerVarsType DEF WorkerThrows, Throw, SetWorker, Typed, TypeOK, channels, counts
<1> QED
  BY <1>4, <1>5, <1>6, <1>8, <1>9, <1>10 DEF ChunkWorker

LEMMA AssemblerType ==
    ASSUME Typed, Assembler
    PROVE  Typed'
<1>1. /\ blobCh' \in Seq(Blobs) /\ Len(blobCh') <= BlobQueue
      /\ packCh' \in Seq(SUBSET Blobs) /\ Len(packCh') <= PackQueue
  <2>1. CASE SkipBlob \/ AddBlob \/ AddFails
    <3>1. blobCh \in Seq(Blobs) /\ blobCh # <<>> /\ blobCh' = Tail(blobCh) /\ UNCHANGED packCh
      BY <2>1 DEF SkipBlob, AddBlob, AddFails, assemblyOnly, Typed, TypeOK
    <3>2. Tail(blobCh) \in Seq(Blobs) /\ Len(Tail(blobCh)) = Len(blobCh) - 1 /\ Len(blobCh) \in Nat
      BY <3>1, HeadTailProperties, LenProperties
    <3> QED
      BY <3>1, <3>2, CapacitiesAssumption DEF Typed, TypeOK
  <2>2. CASE SendPack
    <3>1. building \in SUBSET Blobs
      BY DEF Typed, TypeOK
    <3> QED
      BY <2>2, <3>1, AppendProperties, LenProperties, CapacitiesAssumption DEF SendPack, Typed, TypeOK
  <2>3. CASE FinishPack \/ DropPack \/ AssemblerReturns \/ FinishFails \/ AssemblerThrows
    BY <2>3 DEF FinishPack, DropPack, AssemblerReturns, FinishFails, AssemblerThrows, channels,
                assemblyOnly, Typed, TypeOK
  <2> QED
    BY <2>1, <2>2, <2>3 DEF Assembler
<1>2. inFlight' \subseteq Blobs /\ building' \subseteq inFlight'
  <2>1. CASE AddBlob \/ AddFails
    <3>1. Head(blobCh) \in Blobs
      BY <2>1, HeadTailProperties DEF AddBlob, AddFails, Typed, TypeOK
    <3> QED
      BY <2>1, <3>1 DEF AddBlob, AddFails, Typed, TypeOK
  <2>2. CASE ~AddBlob /\ ~AddFails
    BY <2>2 DEF Assembler, SkipBlob, SendPack, FinishPack, DropPack, AssemblerReturns, FinishFails,
                AssemblerThrows, assembly, Typed, TypeOK
  <2> QED
    BY <2>1, <2>2
<1>3. /\ assembler' \in {"recv", "full", "flush", "lastFlush", "failing", "done"}
      /\ packClosed' \in BOOLEAN /\ blobsNew' \in Nat /\ blobsDeduped' \in Nat
  <2>1. blobsNew \in Nat /\ blobsDeduped \in Nat /\ packClosed \in BOOLEAN
        /\ assembler \in {"recv", "full", "flush", "lastFlush", "failing", "done"}
    BY DEF Typed, TypeOK
  <2>2. CASE SkipBlob \/ AddBlob
    BY <2>1, <2>2 DEF SkipBlob, AddBlob, assembly, assemblyOnly
  <2>3. CASE ~SkipBlob /\ ~AddBlob
    BY <2>1, <2>3 DEF Assembler, SendPack, FinishPack, DropPack, AssemblerReturns, AddFails,
                      FinishFails, AssemblerThrows, assemblyOnly, channels, counts
  <2> QED
    BY <2>2, <2>3
<1>4. stopped' \in BOOLEAN /\ err' \in {Nothing, "chunk", "pack", "upload"}
  BY DEF Assembler, SkipBlob, AddBlob, SendPack, FinishPack, DropPack, AssemblerReturns, AddFails,
         FinishFails, AssemblerThrows, Throw, assemblyOnly, context, Typed, TypeOK
<1>5. TypeOK'
  BY <1>1, <1>2, <1>3, <1>4, AssemblerFrame DEF Typed, TypeOK, input, repo, result
<1> QED
  BY <1>5, AssemblerFrame DEF Typed, Reading

LEMMA UploaderTypes ==
    ASSUME Typed, NEW u \in UploadWorkers, UploadWorker(u)
    PROVE  Typed'
<1>1. uploader[u] \in UploaderType /\ uploader[u].pack \in SUBSET Blobs
  BY DEF Typed, TypeOK, UploaderType
<1>2. packCh' \in Seq(SUBSET Blobs) /\ Len(packCh') <= PackQueue
  <2>1. CASE TakePack(u)
    BY <2>1, HeadTailProperties, LenProperties, CapacitiesAssumption DEF TakePack, Typed, TypeOK
  <2>2. CASE ~TakePack(u)
    BY <2>2 DEF UploadWorker, StorePack, InsertEntries, CountPack, UploadFails, UploaderReturns,
                channels, Typed, TypeOK
  <2> QED
    BY <2>1, <2>2
<1>3. \E r \in UploaderType : uploader' = [uploader EXCEPT ![u] = r]
  <2>1. CASE TakePack(u)
    <3> DEFINE r == [at |-> IF opts.dryRun THEN "count" ELSE "put", pack |-> Head(packCh)]
    <3>1. Head(packCh) \in SUBSET Blobs
      BY <2>1, HeadTailProperties DEF TakePack, Typed, TypeOK
    <3>2. r \in UploaderType
      BY <3>1 DEF UploaderType
    <3> QED
      BY <2>1, <3>2 DEF TakePack
  <2>2. CASE ~TakePack(u)
    <3>1. \A l \in {"insert", "count", "done"} : [uploader[u] EXCEPT !.at = l] \in UploaderType
      BY <1>1 DEF UploaderType
    <3>2. NoPack \in UploaderType /\ [at |-> "done", pack |-> {}] \in UploaderType
      BY DEF NoPack, UploaderType
    <3> QED
      BY <2>2, <3>1, <3>2 DEF UploadWorker, StorePack, InsertEntries, CountPack, UploadFails,
                              UploaderReturns
  <2> QED
    BY <2>1, <2>2
<1>4. uploader' \in [UploadWorkers -> UploaderType]
  BY <1>3 DEF Typed, TypeOK, UploaderType
<1>5. /\ idx' \subseteq Blobs /\ packs' \subseteq SUBSET Blobs /\ packsWritten' \in Nat
      /\ stopped' \in BOOLEAN /\ err' \in {Nothing, "chunk", "pack", "upload"}
  <2>1. /\ idx \subseteq Blobs /\ packs \subseteq SUBSET Blobs /\ packsWritten \in Nat
        /\ stopped \in BOOLEAN /\ err \in {Nothing, "chunk", "pack", "upload"}
    BY DEF Typed, TypeOK
  <2>2. CASE StorePack(u) \/ InsertEntries(u) \/ CountPack(u)
    BY <1>1, <2>1, <2>2 DEF StorePack, InsertEntries, CountPack, context, counts, repo
  <2>3. CASE TakePack(u) \/ UploadFails(u) \/ UploaderReturns(u)
    BY <2>1, <2>3 DEF TakePack, UploadFails, UploaderReturns, Throw, context, counts, repo
  <2> QED
    BY <2>2, <2>3 DEF UploadWorker
<1>6. TypeOK'
  BY <1>2, <1>4, <1>5, UploaderFrame DEF Typed, TypeOK, UploaderType, input, assembly, result
<1> QED
  BY <1>6, UploaderFrame DEF Typed, Reading

LEMMA MainType ==
    ASSUME Typed, BackupFiles \/ Cancel \/ CloseBlobCh \/ UNCHANGED vars
    PROVE  Typed'
<1>1. /\ canceled' \in BOOLEAN /\ stopped' \in BOOLEAN /\ blobClosed' \in BOOLEAN
      /\ main' \in {"wait", "saveIndex", "saveSnapshot", "succeeded", "failed"}
  BY DEF BackupFiles, Wait, SaveIndex, SaveSnapshot, SaveFails, Cancel, CloseBlobCh, vars, mainOnly,
         context, channels, result, Typed, TypeOK
<1>2. UNCHANGED <<err, input, fileCh, blobCh, packCh, fileClosed, packClosed, counts, fed,
                  worker, chunks, assembly, uploader, repo>>
  BY MainFrame, CancelFrame, CloserFrame DEF vars, context, channels, result
<1>3. TypeOK'
  BY <1>1, <1>2 DEF Typed, TypeOK, input, counts, assembly, repo
<1> QED
  BY <1>2, <1>3 DEF Typed, Reading

LEMMA TypeKept ==
    ASSUME Typed, [Next]_vars
    PROVE  Typed'
BY FeederType, ChunkWorkerType, AssemblerType, UploaderTypes, MainType DEF Next
-----------------------------------------------------------------------------
(* The order in which the goroutines end                                     *)

\* A channel is closed when its senders have finished, and BackupFiles goes on
\* when the group has; until then the group is stopped by an error or a cancellation.
ChannelsOK ==
    /\ blobClosed => \A w \in ChunkWorkers : worker[w].at \in {"failing", "done"}
    /\ packClosed <=> assembler \in {"failing", "done"}
    /\ main # "wait" => GroupReturned
    /\ main = "wait" => (stopped <=> canceled \/ err # Nothing)

LEMMA GroupReturnedStays ==
    ASSUME GroupReturned, [Next]_vars
    PROVE  GroupReturned'
<1>1. ~Feeder /\ ~Assembler
  BY AssemblerFrame DEF GroupReturned, Feeder, Feed, FeederReturns
<1>2. \A w \in ChunkWorkers : ~ChunkWorker(w)
  BY WorkerFrame DEF GroupReturned
<1>3. \A u \in UploadWorkers : ~UploadWorker(u)
  BY UploaderFrame DEF GroupReturned
<1>4. UNCHANGED <<fileClosed, worker, assembler, uploader>>
  BY <1>1, <1>2, <1>3, CloserFrame, MainFrame, CancelFrame
  DEF Next, vars, channels, assembly
<1> QED
  BY <1>4 DEF GroupReturned

LEMMA ChannelsKept ==
    ASSUME Typed, ChannelsOK, [Next]_vars
    PROVE  ChannelsOK'
<1>1. blobClosed' => \A w \in ChunkWorkers : worker'[w].at \in {"failing", "done"}
  <2>1. ASSUME NEW w \in ChunkWorkers, ChunkWorker(w)
        PROVE  blobClosed' => \A v \in ChunkWorkers : worker'[v].at \in {"failing", "done"}
    <3>1. blobClosed' = blobClosed
      BY <2>1, WorkerFrame
    <3>2. blobClosed => WorkerThrows(w)
      BY <2>1 DEF ChannelsOK, ChunkWorker, TakeFile, ReadChunk, SendChunk, EndOfFile, SendCanceled,
                  ProgressReturns, WorkerReturns, WorkerFails, WorkerThrows, WorkerIs
    <3>3. WorkerThrows(w) => worker' = [worker EXCEPT ![w] = [Idle EXCEPT !.at = "done"]]
      BY DEF WorkerThrows, SetWorker
    <3> QED
      BY <3>1, <3>2, <3>3 DEF ChannelsOK, Typed, TypeOK, Idle
  <2>2. CASE CloseBlobCh
    BY <2>2, CloserFrame DEF CloseBlobCh
  <2>3. CASE Feeder \/ Assembler \/ BackupFiles \/ Cancel \/ UNCHANGED vars
             \/ \E u \in UploadWorkers : UploadWorker(u)
    <3>1. UNCHANGED <<blobClosed, worker>>
      BY <2>3, FeederFrame, AssemblerFrame, MainFrame, CancelFrame, UploaderFrame
      DEF vars, channels
    <3> QED
      BY <3>1 DEF ChannelsOK
  <2> QED
    BY <2>1, <2>2, <2>3 DEF Next
<1>2. packClosed' <=> assembler' \in {"failing", "done"}
  <2>1. CASE Assembler
    <3>1. packClosed <=> assembler = "failing"
      BY <2>1, AssemblerFrame DEF ChannelsOK
    <3>2. CASE SkipBlob \/ AddBlob \/ FinishPack
      BY <3>1, <3>2 DEF SkipBlob, AddBlob, FinishPack, FlushDue, assembly, assemblyOnly
    <3>3. CASE SendPack \/ DropPack
      <4>1. /\ assembler' = IF assembler = "flush" THEN "recv" ELSE "done"
            /\ packClosed' <=> assembler = "lastFlush"
            /\ assembler \in {"flush", "lastFlush"}
        BY <3>3 DEF SendPack, DropPack
      <4> QED
        BY <4>1
    <3>4. CASE AssemblerReturns \/ AddFails \/ FinishFails \/ AssemblerThrows
      BY <3>1, <3>4 DEF AssemblerReturns, AddFails, FinishFails, AssemblerThrows, channels
    <3> QED
      BY <2>1, <3>2, <3>3, <3>4 DEF Assembler
  <2>2. CASE ~Assembler
    <3>1. UNCHANGED <<packClosed, assembler>>
      BY <2>2, FeederFrame, WorkerFrame, CloserFrame, UploaderFrame, MainFrame, CancelFrame
      DEF Next, vars, channels, assembly
    <3> QED
      BY <3>1 DEF ChannelsOK
  <2> QED
    BY <2>1, <2>2
<1>3. main' # "wait" => GroupReturned'
  <2>1. CASE GroupReturned
    BY <2>1, GroupReturnedStays
  <2>2. CASE ~GroupReturned
    <3>1. main = "wait"
      BY <2>2 DEF ChannelsOK
    <3>2. ~BackupFiles
      BY <2>2, <3>1 DEF BackupFiles, Wait, SaveIndex, SaveSnapshot, SaveFails
    <3>3. UNCHANGED main
      BY <3>2, FeederFrame, WorkerFrame, CloserFrame, AssemblerFrame, UploaderFrame, CancelFrame
      DEF Next, vars, result
    <3> QED
      BY <3>1, <3>3
  <2> QED
    BY <2>1, <2>2
<1>4. main' = "wait" => (stopped' <=> canceled' \/ err' # Nothing)
  <2>1. ASSUME NEW e \in {"chunk", "pack", "upload"}, Throw(e), UNCHANGED main
        PROVE  stopped' /\ err' # Nothing
    BY <2>1, NothingAssumption DEF Throw
  <2>2. ASSUME NEW w \in ChunkWorkers, ChunkWorker(w)
        PROVE  UNCHANGED main /\ (UNCHANGED context \/ Throw("chunk"))
    BY <2>2, WorkerFrame DEF ChunkWorker, TakeFile, ReadChunk, SendChunk, EndOfFile, SendCanceled,
         ProgressReturns, WorkerReturns, WorkerFails, WorkerThrows, FileDone, workersOnly, result
  <2>3. ASSUME NEW u \in UploadWorkers, UploadWorker(u)
        PROVE  UNCHANGED main /\ (UNCHANGED context \/ Throw("upload"))
    BY <2>3, UploaderFrame DEF UploadWorker, TakePack, StorePack, InsertEntries, CountPack,
         UploadFails, UploaderReturns, result
  <2>4. CASE Feeder \/ CloseBlobCh \/ UNCHANGED vars
    BY <2>4, FeederFrame, CloserFrame DEF ChannelsOK, context, vars, result
  <2>5. CASE BackupFiles
    BY <2>5 DEF BackupFiles, Wait, SaveIndex, SaveSnapshot, SaveFails
  <2>6. CASE Cancel
    BY <2>6, CancelFrame
  <2>7. Assembler => UNCHANGED main /\ (UNCHANGED context \/ Throw("pack"))
    BY AssemblerFrame DEF Assembler, SkipBlob, AddBlob, SendPack, FinishPack, DropPack,
         AssemblerReturns, AddFails, FinishFails, AssemblerThrows, assemblyOnly, result
  <2> QED
    BY <2>1, <2>2, <2>3, <2>4, <2>5, <2>6, <2>7 DEF ChannelsOK, Next, context
<1> QED
  BY <1>1, <1>2, <1>3, <1>4 DEF ChannelsOK, GroupReturned

-----------------------------------------------------------------------------
(* Nothing is left behind, unless the group is stopped                       *)

InHand(w, f) == worker[w].at \in {"read", "send"} /\ worker[w].file = f

\* A file that was sent is in the channel or in hand, or its chunks are listed.
Accounted(f) ==
    \/ f \in Range(fileCh)
    \/ \E w \in ChunkWorkers : InHand(w, f) \/ worker[w].at = "failing"
    \/ chunks[f] \in Versions[f]

\* Each stage ends after it has emptied the channel it receives from.
FilesOK ==
    ~stopped =>
       /\ fileClosed => fed = NumFiles
       /\ \A w \in opts.chunkWorkers : worker[w].at = "done" => fileClosed /\ fileCh = <<>>
       /\ \A f \in 1..fed : Accounted(f)

PacksOK ==
    ~stopped =>
       /\ assembler \in {"lastFlush", "done"} => blobClosed /\ blobCh = <<>>
       /\ assembler = "done" => building = {}
       /\ \A u \in opts.uploadWorkers : uploader[u].at = "done" => packClosed /\ packCh = <<>>

LEMMA UsedWorkers == TypeOK => /\ opts.chunkWorkers \subseteq ChunkWorkers /\ opts.chunkWorkers # {}
                               /\ opts.uploadWorkers \subseteq UploadWorkers /\ opts.uploadWorkers # {}
BY OptionsAssumption DEF TypeOK

LEMMA FilesKept ==
    ASSUME Typed, FilesOK, [Next]_vars
    PROVE  FilesOK'
<1> SUFFICES ASSUME ~stopped, ~stopped'
             PROVE  /\ fileClosed' => fed' = NumFiles
                    /\ \A w \in opts'.chunkWorkers : worker'[w].at = "done" =>
                          fileClosed' /\ fileCh' = <<>>
                    /\ \A f \in 1..fed' : Accounted(f)'
  BY FeederFrame, WorkerFrame, AssemblerFrame, CloserFrame, UploaderFrame, MainFrame, CancelFrame
  DEF FilesOK, Next, vars, context
<1>0. /\ fileCh \in Seq(Files) /\ fed \in 0..NumFiles /\ opts.chunkWorkers \subseteq ChunkWorkers
      /\ worker \in [ChunkWorkers -> WorkerType] /\ chunks \in [Files -> Seq(Blobs)]
  BY UsedWorkers DEF Typed, TypeOK, WorkerType
<1>1. CASE Feed
  <2>1. UNCHANGED <<opts, fileClosed, worker, chunks>> /\ fed' = fed + 1 /\ ~fileClosed
        /\ fed + 1 \in Files /\ fileCh' = Append(fileCh, fed + 1)
    BY <1>0, <1>1, NumFilesAssumption DEF Feed, assembly, input, Files
  <2>2. Range(fileCh') = Range(fileCh) \cup {fed + 1}
    BY <1>0, <2>1, RangeAppend
  <2>3. ASSUME NEW f \in 1..fed' PROVE Accounted(f)'
    <3>1. CASE f = fed + 1
      BY <2>2, <3>1 DEF Accounted
    <3>2. CASE f \in 1..fed
      BY <2>1, <2>2, <3>2 DEF FilesOK, Accounted, InHand
    <3> QED
      BY <1>0, <2>1, <3>1, <3>2
  <2> QED
    BY <2>1, <2>3 DEF FilesOK
<1>2. CASE FeederReturns
  <2>1. UNCHANGED <<opts, fed, fileCh, worker, chunks>> /\ fed = NumFiles /\ ~fileClosed
    BY <1>2 DEF FeederReturns, input
  <2> QED
    BY <2>1 DEF FilesOK, Accounted, InHand
<1>3. ASSUME NEW w \in ChunkWorkers, ChunkWorker(w)
      PROVE  /\ fileClosed' => fed' = NumFiles
             /\ \A v \in opts'.chunkWorkers : worker'[v].at = "done" => fileClosed' /\ fileCh' = <<>>
             /\ \A f \in 1..fed' : Accounted(f)'
  <2>0. UNCHANGED <<opts, fileClosed, fed>> /\ 1..fed \subseteq Files
    BY <1>0, <1>3, WorkerFrame, NumFilesAssumption DEF input, Files
  <2>1. CASE TakeFile(w)
    <3>1. /\ fileCh # <<>> /\ fileCh' = Tail(fileCh) /\ UNCHANGED chunks /\ worker[w].at = "recv"
          /\ worker'[w].at = "read" /\ worker'[w].file = Head(fileCh)
          /\ \A v \in ChunkWorkers \ {w} : worker'[v] = worker[v]
      BY <1>0, <2>1 DEF TakeFile, SetWorker, WorkerIs
    <3>2. Range(fileCh) = {Head(fileCh)} \cup Range(fileCh')
      BY <1>0, <3>1, RangeHeadTail
    <3> QED
      BY <1>0, <2>0, <3>1, <3>2 DEF FilesOK, Accounted, InHand
  <2>2. CASE ReadChunk(w) \/ SendChunk(w)
    <3>1. /\ UNCHANGED <<fileCh, chunks>> /\ worker[w].at \in {"read", "send"}
          /\ worker'[w].at \in {"read", "send"} /\ worker'[w].file = worker[w].file
          /\ \A v \in ChunkWorkers \ {w} : worker'[v] = worker[v]
      BY <1>0, <2>2 DEF ReadChunk, SendChunk, SetWorker, WorkerIs, WorkerType, workersOnly, channels
    <3> QED
      BY <1>0, <2>0, <3>1 DEF FilesOK, Accounted, InHand
  <2>3. CASE EndOfFile(w)
    <3>1. /\ worker[w].at = "read" /\ worker[w].todo = <<>> /\ FileDone(w, worker[w].ids, Len(worker[w].ids))
          /\ worker[w].ids \in Seq(Blobs)
      BY <1>0, <2>3 DEF EndOfFile, WorkerIs, WorkerType
    <3>2. worker[w].file \in Files /\ worker[w].ids \in Versions[worker[w].file]
      BY <3>1, ConcatEmptySeq DEF Typed, Reading
    <3>3. /\ UNCHANGED fileCh /\ chunks' = [chunks EXCEPT ![worker[w].file] = worker[w].ids]
          /\ worker'[w].at # "done"
          /\ \A v \in ChunkWorkers \ {w} : worker'[v] = worker[v]
      BY <1>0, <3>1 DEF FileDone, SetWorker, Idle, channels
    <3> QED
      BY <1>0, <2>0, <3>1, <3>2, <3>3 DEF FilesOK, Accounted, InHand
  <2>4. CASE WorkerFails(w)
    <3>1. /\ UNCHANGED <<fileCh, chunks>> /\ worker'[w].at = "failing"
          /\ \A v \in ChunkWorkers \ {w} : worker'[v] = worker[v]
      BY <1>0, <2>4 DEF WorkerFails, SetWorker, Idle, workersOnly, channels
    <3> QED
      BY <1>0, <2>0, <3>1 DEF FilesOK, Accounted, InHand
  <2>5. CASE ProgressReturns(w) \/ WorkerReturns(w)
    <3>1. /\ UNCHANGED <<fileCh, chunks>> /\ worker[w].at \in {"recv", "report"}
          /\ worker'[w].at \in {"recv", "done"}
          /\ worker'[w].at = "done" => fileClosed /\ fileCh = <<>>
          /\ \A v \in ChunkWorkers \ {w} : worker'[v] = worker[v]
      BY <1>0, <2>5 DEF ProgressReturns, WorkerReturns, SetWorker, Idle, WorkerIs, workersOnly, channels
    <3> QED
      BY <1>0, <2>0, <3>1 DEF FilesOK, Accounted, InHand
  <2> QED
    BY <1>3, <2>1, <2>2, <2>3, <2>4, <2>5 DEF ChunkWorker, SendCanceled, WorkerThrows, Throw
<1>4. CASE Assembler \/ BackupFiles \/ Cancel \/ CloseBlobCh \/ UNCHANGED vars
           \/ \E u \in UploadWorkers : UploadWorker(u)
  <2>1. UNCHANGED <<opts, fileClosed, fed, fileCh, worker, chunks>>
    BY <1>4, AssemblerFrame, MainFrame, CancelFrame, CloserFrame, UploaderFrame
    DEF vars, channels, input
  <2> QED
    BY <2>1 DEF FilesOK, Accounted, InHand
<1> QED
  BY <1>1, <1>2, <1>3, <1>4 DEF Next, Feeder

LEMMA PacksKept ==
    ASSUME Typed, ChannelsOK, PacksOK, [Next]_vars
    PROVE  PacksOK'
<1> SUFFICES ASSUME ~stopped, ~stopped'
             PROVE  /\ assembler' \in {"lastFlush", "done"} => blobClosed' /\ blobCh' = <<>>
                    /\ assembler' = "done" => building' = {}
                    /\ \A u \in opts'.uploadWorkers : uploader'[u].at = "done" =>
                          packClosed' /\ packCh' = <<>>
  BY FeederFrame, WorkerFrame, AssemblerFrame, CloserFrame, UploaderFrame, MainFrame, CancelFrame
  DEF PacksOK, Next, vars, context
<1>0. /\ opts.uploadWorkers \subseteq UploadWorkers /\ uploader \in [UploadWorkers -> UploaderType]
  BY UsedWorkers DEF Typed, TypeOK, UploaderType
<1>1. ASSUME NEW w \in ChunkWorkers, ChunkWorker(w)
      PROVE  UNCHANGED <<opts, assembler, building, blobClosed, packClosed, packCh, uploader>>
             /\ (blobClosed => UNCHANGED blobCh)
  <2>1. UNCHANGED <<opts, assembler, building, blobClosed, packClosed, packCh, uploader>>
    BY <1>1, WorkerFrame DEF input, assembly
  <2>2. blobClosed => ~SendChunk(w)
    BY DEF ChannelsOK, SendChunk, WorkerIs
  <2>3. ~SendChunk(w) => UNCHANGED blobCh
    BY <1>1 DEF ChunkWorker, TakeFile, ReadChunk, EndOfFile, SendCanceled, ProgressReturns,
                WorkerReturns, WorkerFails, WorkerThrows, FileDone, workersOnly, channels
  <2> QED
    BY <2>1, <2>2, <2>3
<1>2. CASE Assembler
  <2>1. UNCHANGED <<opts, uploader, blobClosed>>
    BY <1>2, AssemblerFrame DEF input
  <2>2. CASE SkipBlob \/ AddBlob
    BY <2>1, <2>2 DEF PacksOK, SkipBlob, AddBlob, assembly, assemblyOnly
  <2>3. CASE SendPack
    BY <2>1, <2>3 DEF PacksOK, ChannelsOK, SendPack
  <2>4. CASE FinishPack \/ AssemblerReturns
    BY <2>1, <2>4 DEF PacksOK, ChannelsOK, FinishPack, FlushDue, AssemblerReturns, assemblyOnly
  <2>5. CASE AddFails \/ FinishFails
    BY <2>1, <2>5 DEF PacksOK, ChannelsOK, AddFails, FinishFails, FlushDue
  <2> QED
    BY <1>2, <2>2, <2>3, <2>4, <2>5 DEF Assembler, DropPack, AssemblerThrows, Throw
<1>3. ASSUME NEW u \in UploadWorkers, UploadWorker(u)
      PROVE  /\ UNCHANGED <<opts, assembler, building, blobClosed, blobCh, packClosed>>
             /\ \A v \in opts'.uploadWorkers : uploader'[v].at = "done" =>
                   packClosed' /\ packCh' = <<>>
  <2>1. UNCHANGED <<opts, assembler, building, blobClosed, blobCh, packClosed>>
    BY <1>3, UploaderFrame DEF input, assembly
  <2>2. \A v \in UploadWorkers \ {u} : uploader'[v] = uploader[v]
    BY <1>0, <1>3 DEF UploadWorker, TakePack, StorePack, InsertEntries, CountPack, UploadFails,
                      UploaderReturns
  <2>3. CASE TakePack(u)
    BY <1>0, <2>1, <2>2, <2>3 DEF TakePack, PacksOK
  <2>4. CASE StorePack(u) \/ InsertEntries(u) \/ CountPack(u) \/ UploaderReturns(u)
    <3>1. UNCHANGED packCh /\ (uploader'[u].at = "done" => packClosed /\ packCh = <<>>)
      BY <1>0, <2>4 DEF StorePack, InsertEntries, CountPack, UploaderReturns, NoPack, UploaderType,
                        channels
    <3> QED
      BY <1>0, <2>1, <2>2, <3>1 DEF PacksOK
  <2> QED
    BY <1>3, <2>1, <2>3, <2>4 DEF UploadWorker, UploadFails, Throw
<1>4. CASE CloseBlobCh
  BY <1>4, CloserFrame DEF PacksOK, CloseBlobCh, input, assembly
<1>5. CASE Feeder \/ BackupFiles \/ Cancel \/ UNCHANGED vars
  <2>1. UNCHANGED <<opts, assembler, building, blobClosed, blobCh, packClosed, packCh, uploader>>
    BY <1>5, FeederFrame, MainFrame, CancelFrame DEF vars, channels, input, assembly
  <2> QED
    BY <2>1 DEF PacksOK
<1> QED
  BY <1>1, <1>2, <1>3, <1>4, <1>5 DEF PacksOK, Next
-----------------------------------------------------------------------------
(* Where the blobs are                                                       *)

Known == Range(blobCh) \cup inFlight \cup idx

\* What a worker has sent of the file in hand: all it has read, but for the
\* chunk that it is about to send.
Sent(w) == {worker[w].ids[i] :
               i \in 1..(IF worker[w].at = "send" THEN Len(worker[w].ids) - 1 ELSE Len(worker[w].ids))}

\* No blob of a chunk list is forgotten.
KnownOK ==
    /\ Indexed \subseteq idx
    /\ \A w \in ChunkWorkers : Sent(w) \subseteq Known
    /\ \A f \in Files : Range(chunks[f]) \subseteq Known

HeldPacks == UNION {uploader[u].pack : u \in UploadWorkers}

\* An uploader stores its pack before it inserts the entries, and inserts them
\* before it takes another.
UploaderOK(u) ==
    /\ uploader[u].at \in {"recv", "done"} => uploader[u].pack = {}
    /\ \/ uploader[u].at = "insert"
       \/ uploader[u].at = "count" /\ ~opts.dryRun
       => uploader[u].pack \in packs
    /\ uploader[u].at = "count" /\ ~opts.dryRun => uploader[u].pack \subseteq idx

\* The index names stored blobs only, and a claimed blob is on its way to it
\* unless the group is stopped, or about to be.
StoredOK ==
    /\ idx \subseteq Indexed \cup UNION packs
    /\ \A u \in UploadWorkers : UploaderOK(u)
    /\ ~stopped /\ assembler # "failing" /\ ~opts.dryRun =>
          inFlight \subseteq building \cup (UNION Range(packCh)) \cup HeldPacks \cup idx

LEMMA KnownKept ==
    ASSUME Typed, KnownOK, [Next]_vars
    PROVE  KnownOK'
<1>0. /\ blobCh \in Seq(Blobs) /\ worker \in [ChunkWorkers -> WorkerType]
      /\ chunks \in [Files -> Seq(Blobs)]
  BY DEF Typed, TypeOK, WorkerType
<1>1. ASSUME Known \subseteq Known', idx \subseteq idx', UNCHANGED <<worker, chunks>>
      PROVE  KnownOK'
  BY <1>1 DEF KnownOK, Sent
<1>2. ASSUME NEW w \in ChunkWorkers, ChunkWorker(w)
      PROVE  KnownOK'
  <2>0. UNCHANGED <<idx, inFlight>>
    BY <1>2, WorkerFrame DEF repo, assembly
  <2>1. ASSUME Known \subseteq Known', Sent(w)' \subseteq Known',
               \A v \in ChunkWorkers \ {w} : worker'[v] = worker[v],
               \A f \in Files : Range(chunks'[f]) \subseteq Known'
        PROVE  KnownOK'
    <3>1. \A v \in ChunkWorkers \ {w} : Sent(v)' = Sent(v)
      BY <2>1 DEF Sent
    <3> QED
      BY <2>0, <2>1, <3>1 DEF KnownOK
  <2>2. ASSUME NEW r \in WorkerType, r.ids = <<>>, r.at # "send", worker' = [worker EXCEPT ![w] = r]
        PROVE  Sent(w)' = {} /\ \A v \in ChunkWorkers \ {w} : worker'[v] = worker[v]
    <3>1. worker'[w].ids = <<>> /\ worker'[w].at # "send" /\ Len(worker'[w].ids) = 0
      BY <1>0, <2>2, EmptySeq
    <3> QED
      BY <1>0, <2>2, <3>1 DEF Sent
  <2>3. /\ \A l \in {"recv", "failing", "report", "done"} : [Idle EXCEPT !.at = l] \in WorkerType
        /\ \A l : [Idle EXCEPT !.at = l].ids = <<>> /\ [Idle EXCEPT !.at = l].at = l
        /\ Idle = [Idle EXCEPT !.at = "recv"]
    <3>1. \A l \in {"recv", "failing", "report", "done"} : [Idle EXCEPT !.at = l] \in WorkerType
      BY EmptySeq DEF Idle, WorkerType
    <3>2. \A l : [Idle EXCEPT !.at = l].ids = <<>> /\ [Idle EXCEPT !.at = l].at = l
      BY DEF Idle
    <3>3. Idle = [Idle EXCEPT !.at = "recv"]
      BY DEF Idle
    <3> QED
      BY <3>1, <3>2, <3>3
  <2>4. CASE TakeFile(w)
    <3>1. PICK v \in Versions[Head(fileCh)] : worker' = [worker EXCEPT ![w] =
              [at |-> "read", file |-> Head(fileCh), todo |-> v, ids |-> <<>>]]
      BY <2>4 DEF TakeFile, SetWorker
    <3>2. Head(fileCh) \in Files
      BY <2>4, HeadTailProperties DEF TakeFile, Typed, TypeOK
    <3>3. [at |-> "read", file |-> Head(fileCh), todo |-> v, ids |-> <<>>] \in WorkerType
      BY <3>2, VersionTypes, EmptySeq DEF WorkerType
    <3>4. Sent(w)' = {} /\ \A x \in ChunkWorkers \ {w} : worker'[x] = worker[x]
      BY <2>2, <3>1, <3>3
    <3> QED
      BY <2>0, <2>1, <2>4, <3>4 DEF TakeFile, Known, KnownOK
  <2>5. CASE ReadChunk(w)
    <3>1. /\ worker[w].at = "read" /\ worker[w].todo # <<>> /\ worker'[w].at = "send"
          /\ worker'[w].ids = Append(worker[w].ids, Head(worker[w].todo))
          /\ worker[w].ids \in Seq(Blobs) /\ worker[w].todo \in Seq(Blobs)
          /\ \A x \in ChunkWorkers \ {w} : worker'[x] = worker[x]
          /\ UNCHANGED <<blobCh, chunks>>
      BY <1>0, <2>5 DEF ReadChunk, SetWorker, WorkerIs, WorkerType, workersOnly, channels
    <3>2. Head(worker[w].todo) \in Blobs
      BY <3>1, HeadTailProperties
    <3>3. /\ Len(worker'[w].ids) = Len(worker[w].ids) + 1 /\ Len(worker[w].ids) \in Nat
          /\ \A i \in 1..Len(worker[w].ids) : worker'[w].ids[i] = worker[w].ids[i]
      BY <3>1, <3>2, AppendProperties, LenProperties
    <3>4. Len(worker'[w].ids) - 1 = Len(worker[w].ids)
      BY <3>3
    <3>5. Sent(w)' = {worker'[w].ids[i] : i \in 1..Len(worker[w].ids)}
      BY <3>1, <3>4 DEF Sent
    <3>6. Sent(w) = {worker[w].ids[i] : i \in 1..Len(worker[w].ids)}
      BY <3>1 DEF Sent
    <3>7. Sent(w)' = Sent(w)
      BY <3>3, <3>5, <3>6
    <3> QED
      BY <2>0, <2>1, <3>1, <3>7 DEF Known, KnownOK
  <2>6. CASE SendChunk(w)
    <3>1. /\ worker[w].at = "send" /\ worker'[w].at = "read" /\ worker'[w].ids = worker[w].ids
          /\ blobCh' = Append(blobCh, worker[w].ids[Len(worker[w].ids)])
          /\ \A x \in ChunkWorkers \ {w} : worker'[x] = worker[x]
          /\ UNCHANGED chunks
      BY <1>0, <2>6 DEF SendChunk, SetWorker, WorkerIs, WorkerType
    <3>2. /\ worker[w].ids \in Seq(Blobs) /\ worker[w].ids[Len(worker[w].ids)] \in Blobs
          /\ Len(worker[w].ids) \in Nat
      BY <3>1, SentBlobType, LenProperties
    <3>3. Range(blobCh') = Range(blobCh) \cup {worker[w].ids[Len(worker[w].ids)]}
      BY <1>0, <3>1, <3>2, RangeAppend
    <3>4. Sent(w)' \subseteq Sent(w) \cup {worker[w].ids[Len(worker[w].ids)]}
      <4> DEFINE n == Len(worker[w].ids)
      <4>1. Sent(w)' = {worker[w].ids[i] : i \in 1..n} /\ Sent(w) = {worker[w].ids[i] : i \in 1..(n - 1)}
        BY <3>1 DEF Sent
      <4>2. n \in Nat
        BY <3>2
      <4> HIDE DEF n
      <4>3. \A i \in 1..n : i \in 1..(n - 1) \/ i = n
        BY <4>2
      <4> QED
        BY <4>1, <4>3 DEF n
    <3> QED
      BY <2>0, <2>1, <3>1, <3>3, <3>4 DEF Known, KnownOK
  <2>7. ASSUME NEW ids \in Seq(Blobs), NEW n, FileDone(w, ids, n), Range(ids) \subseteq Known
        PROVE  KnownOK'
    <3>1. PICK l \in {"report", "recv"} : worker' = [worker EXCEPT ![w] = [Idle EXCEPT !.at = l]]
      BY <2>7 DEF FileDone, SetWorker
    <3>2. Sent(w)' = {} /\ \A x \in ChunkWorkers \ {w} : worker'[x] = worker[x]
      BY <2>2, <2>3, <3>1
    <3>3. chunks' = [chunks EXCEPT ![worker[w].file] = ids] /\ UNCHANGED blobCh
      BY <2>7 DEF FileDone, channels
    <3>4. Known' = Known
      BY <2>0, <3>3 DEF Known
    <3>5. ASSUME NEW f \in Files PROVE Range(chunks'[f]) \subseteq Known'
      <4>1. chunks'[f] = ids \/ chunks'[f] = chunks[f]
        BY <1>0, <3>3
      <4> QED
        BY <2>7, <3>4, <4>1 DEF KnownOK
    <3> QED
      BY <2>1, <3>2, <3>4, <3>5
  <2>8. CASE EndOfFile(w)
    <3>1. worker[w].at = "read" /\ worker[w].ids \in Seq(Blobs)
      BY <1>0, <2>8 DEF EndOfFile, WorkerIs, WorkerType
    <3>2. Range(worker[w].ids) = Sent(w)
      BY <3>1, RangeType DEF Sent
    <3> QED
      BY <2>7, <2>8, <3>1, <3>2 DEF EndOfFile, KnownOK
  <2>9. CASE SendCanceled(w)
    <3>1. <<>> \in Seq(Blobs) /\ Range(<<>>) = {}
      BY EmptySeq DEF Range
    <3> QED
      BY <2>7, <2>9, <3>1 DEF SendCanceled
  <2>10. CASE ProgressReturns(w) \/ WorkerReturns(w) \/ WorkerFails(w) \/ WorkerThrows(w)
    <3>1. PICK l \in {"recv", "done", "failing"} : worker' = [worker EXCEPT ![w] = [Idle EXCEPT !.at = l]]
      BY <2>3, <2>10 DEF ProgressReturns, WorkerReturns, WorkerFails, WorkerThrows, SetWorker
    <3>2. UNCHANGED <<blobCh, chunks>>
      BY <2>10 DEF ProgressReturns, WorkerReturns, WorkerFails, WorkerThrows, workersOnly, channels
    <3>3. Sent(w)' = {} /\ \A x \in ChunkWorkers \ {w} : worker'[x] = worker[x]
      BY <2>2, <2>3, <3>1
    <3> QED
      BY <2>0, <2>1, <3>2, <3>3 DEF Known, KnownOK
  <2> QED
    BY <1>2, <2>4, <2>5, <2>6, <2>8, <2>9, <2>10 DEF ChunkWorker
<1>3. CASE Assembler
  <2>1. UNCHANGED <<worker, chunks, idx>>
    BY <1>3, AssemblerFrame DEF repo
  <2>2. CASE SkipBlob \/ AddBlob \/ AddFails
    <3>1. Range(blobCh) = {Head(blobCh)} \cup Range(blobCh')
      BY <1>0, <2>2, RangeHeadTail DEF SkipBlob, AddBlob, AddFails
    <3>2. Known \subseteq Known'
      BY <2>1, <2>2, <3>1 DEF SkipBlob, AddBlob, AddFails, Duplicate, Known, assembly
    <3> QED
      BY <1>1, <2>1, <3>2
  <2>3. CASE SendPack \/ FinishPack \/ DropPack \/ AssemblerReturns \/ FinishFails \/ AssemblerThrows
    BY <1>1, <2>1, <2>3 DEF SendPack, FinishPack, DropPack, AssemblerReturns, FinishFails,
                            AssemblerThrows, channels, Known
  <2> QED
    BY <1>3, <2>2, <2>3 DEF Assembler
<1>4. ASSUME NEW u \in UploadWorkers, UploadWorker(u)
      PROVE  KnownOK'
  <2>1. idx \subseteq idx'
    BY <1>4 DEF UploadWorker, TakePack, StorePack, InsertEntries, CountPack, UploadFails,
                UploaderReturns, repo
  <2> QED
    BY <1>1, <1>4, <2>1, UploaderFrame DEF Known, assembly
<1>5. CASE Feeder \/ BackupFiles \/ Cancel \/ CloseBlobCh \/ UNCHANGED vars
  <2>1. UNCHANGED <<blobCh, inFlight, idx, worker, chunks>>
    BY <1>5, FeederFrame, MainFrame, CancelFrame, CloserFrame DEF vars, channels, assembly, repo
  <2> QED
    BY <1>1, <2>1 DEF Known
<1> QED
  BY <1>2, <1>3, <1>4, <1>5 DEF Next

LEMMA StoredKept ==
    ASSUME Typed, StoredOK, [Next]_vars
    PROVE  StoredOK'
<1>0. /\ packCh \in Seq(SUBSET Blobs) /\ uploader \in [UploadWorkers -> UploaderType]
      /\ building \in SUBSET Blobs
  BY DEF Typed, TypeOK, UploaderType
<1>1. CASE Assembler
  <2>1. UNCHANGED <<opts, uploader, idx, packs>> /\ (stopped => stopped')
    BY <1>1, AssemblerFrame DEF input, repo
  <2>2. ~stopped' /\ assembler' # "failing" =>
            /\ assembler # "failing" /\ inFlight' \ inFlight \subseteq building'
            /\ building \cup (UNION Range(packCh)) \subseteq building' \cup UNION Range(packCh')
    <3>1. CASE SendPack
      <4>1. Range(packCh') = Range(packCh) \cup {building}
        BY <1>0, <3>1, RangeAppend DEF SendPack
      <4> QED
        BY <3>1, <4>1 DEF SendPack
    <3>2. CASE ~SendPack
      BY <1>1, <3>2 DEF Assembler, SkipBlob, AddBlob, FinishPack, DropPack, AssemblerReturns,
                        AddFails, FinishFails, FlushDue, AssemblerThrows, Throw, assembly, assemblyOnly,
                        context
    <3> QED
      BY <3>1, <3>2
  <2> QED
    BY <2>1, <2>2 DEF StoredOK, UploaderOK, HeldPacks
<1>2. ASSUME NEW u \in UploadWorkers, UploadWorker(u)
      PROVE  StoredOK'
  <2>0. UNCHANGED <<opts, assembler, inFlight, building>> /\ (stopped => stopped')
        /\ uploader[u] \in UploaderType
    BY <1>0, <1>2, UploaderFrame DEF input, assembly
  <2>1. \A v \in UploadWorkers \ {u} : uploader'[v] = uploader[v]
    BY <1>0, <1>2 DEF UploadWorker, TakePack, StorePack, InsertEntries, CountPack, UploadFails,
                      UploaderReturns
  <2>2. idx \subseteq idx' /\ packs \subseteq packs'
    BY <1>2 DEF UploadWorker, TakePack, StorePack, InsertEntries, CountPack, UploadFails,
                UploaderReturns, repo
  <2>3. idx' \subseteq Indexed \cup UNION packs'
    <3>1. CASE InsertEntries(u)
      <4>1. uploader[u].pack \in packs
        <5>1. uploader[u].at = "insert"
          BY <3>1 DEF InsertEntries, UploaderIs
        <5> QED
          BY <5>1 DEF StoredOK, UploaderOK
      <4>2. idx' = idx \cup uploader[u].pack /\ UNCHANGED packs
        BY <3>1 DEF InsertEntries
      <4>3. idx \subseteq Indexed \cup UNION packs
        BY DEF StoredOK
      <4> QED
        BY <4>1, <4>2, <4>3
    <3>2. CASE ~InsertEntries(u)
      <4>1. UNCHANGED idx
        BY <1>2, <3>2 DEF UploadWorker, TakePack, StorePack, CountPack, UploadFails,
                          UploaderReturns, repo
      <4> QED
        BY <2>2, <4>1 DEF StoredOK
    <3> QED
      BY <3>1, <3>2
  <2>4. UploaderOK(u)'
    <3>1. CASE TakePack(u)
      BY <1>0, <2>0, <3>1 DEF TakePack, UploaderOK
    <3>2. CASE StorePack(u) \/ InsertEntries(u)
      BY <1>0, <2>0, <3>2 DEF StorePack, InsertEntries, UploaderIs, StoredOK, UploaderOK, UploaderType
    <3>3. CASE CountPack(u) \/ UploadFails(u) \/ UploaderReturns(u)
      BY <1>0, <2>0, <3>3 DEF CountPack, UploadFails, UploaderReturns, UploaderIs, NoPack, StoredOK,
                              UploaderOK, UploaderType
    <3> QED
      BY <1>2, <3>1, <3>2, <3>3 DEF UploadWorker
  <2>5. \A v \in UploadWorkers : UploaderOK(v)'
    BY <2>0, <2>1, <2>2, <2>4 DEF StoredOK, UploaderOK
  <2>6. ~stopped' /\ ~opts.dryRun =>
            (UNION Range(packCh)) \cup uploader[u].pack \subseteq (UNION Range(packCh')) \cup uploader'[u].pack \cup idx'
    <3>1. CASE TakePack(u)
      <4>1. Range(packCh) = {Head(packCh)} \cup Range(packCh')
        BY <1>0, <3>1, RangeHeadTail DEF TakePack
      <4>2. uploader[u].pack = {} /\ uploader'[u].pack = Head(packCh)
        BY <1>0, <3>1 DEF TakePack, UploaderIs, StoredOK, UploaderOK
      <4>3. UNION Range(packCh) = Head(packCh) \cup UNION Range(packCh')
        BY <4>1
      <4>4. uploader[u].pack \subseteq uploader'[u].pack
        BY <4>2
      <4>5. (UNION Range(packCh)) \subseteq (UNION Range(packCh')) \cup uploader'[u].pack
        BY <4>2, <4>3
      <4> QED
        BY <4>4, <4>5
    <3>2. CASE StorePack(u) \/ InsertEntries(u)
      BY <1>0, <2>0, <3>2 DEF StorePack, InsertEntries, UploaderType, channels
    <3>3. CASE CountPack(u) \/ UploaderReturns(u)
      BY <1>0, <2>0, <3>3 DEF CountPack, UploaderReturns, UploaderIs, StoredOK, UploaderOK,
                              UploaderType, channels, repo
    <3>4. CASE UploadFails(u)
      BY <3>4 DEF UploadFails, Throw
    <3> QED
      BY <1>2, <3>1, <3>2, <3>3, <3>4 DEF UploadWorker
  <2>7. ~stopped' /\ ~opts.dryRun =>
            (UNION Range(packCh)) \cup HeldPacks \cup idx \subseteq (UNION Range(packCh')) \cup HeldPacks' \cup idx'
    BY <2>1, <2>2, <2>6 DEF HeldPacks
  <2> QED
    BY <2>0, <2>3, <2>5, <2>7 DEF StoredOK
<1>3. CASE Feeder \/ BackupFiles \/ Cancel \/ CloseBlobCh \/ UNCHANGED vars
           \/ \E w \in ChunkWorkers : ChunkWorker(w)
  <2>1. UNCHANGED <<opts, assembly, packCh, uploader, idx, packs>> /\ (stopped => stopped')
    BY <1>3, FeederFrame, WorkerFrame, MainFrame, CancelFrame, CloserFrame
    DEF vars, context, channels, input, assembly, repo
  <2> QED
    BY <2>1 DEF StoredOK, UploaderOK, HeldPacks, assembly
<1> QED
  BY <1>1, <1>2, <1>3 DEF Next
-----------------------------------------------------------------------------
(* Every blob is in one place                                                *)

\* The pack that an uploader has taken and not stored yet.
Taken(u) == IF uploader[u].at = "put" THEN uploader[u].pack ELSE {}

Disjoint(A, B) == A \cap B = {}

OnceOK ==
    /\ Disjoint(inFlight, Indexed) /\ Indexed \subseteq idx
    /\ \A P \in packs : P \subseteq inFlight /\ Disjoint(P, building)
    /\ \A P, Q \in packs : P # Q => Disjoint(P, Q)
    /\ \A i \in 1..Len(packCh) :
          /\ packCh[i] \subseteq inFlight /\ Disjoint(packCh[i], building)
          /\ \A P \in packs : Disjoint(packCh[i], P)
          /\ \A j \in 1..Len(packCh) : i # j => Disjoint(packCh[i], packCh[j])
    /\ \A u \in UploadWorkers :
          /\ Taken(u) \subseteq inFlight /\ Disjoint(Taken(u), building)
          /\ \A P \in packs : Disjoint(Taken(u), P)
          /\ \A i \in 1..Len(packCh) : Disjoint(Taken(u), packCh[i])
          /\ \A v \in UploadWorkers : u # v => Disjoint(Taken(u), Taken(v))

LEMMA OnceKept ==
    ASSUME Typed, OnceOK, [Next]_vars
    PROVE  OnceOK'
<1>0. /\ packCh \in Seq(SUBSET Blobs) /\ uploader \in [UploadWorkers -> UploaderType]
      /\ building \subseteq inFlight /\ building \in SUBSET Blobs
  BY DEF Typed, TypeOK, UploaderType
<1>1. CASE Assembler
  <2>1. UNCHANGED <<uploader, packs, idx>> /\ \A u \in UploadWorkers : Taken(u)' = Taken(u)
    BY <1>1, AssemblerFrame DEF repo, Taken
  <2>2. CASE AddBlob
    <3>1. UNCHANGED packCh /\ inFlight' = inFlight \cup {Head(blobCh)}
          /\ building' = building \cup {Head(blobCh)}
          /\ Head(blobCh) \notin inFlight /\ Head(blobCh) \notin idx
      BY <2>2 DEF AddBlob, Duplicate, assemblyOnly
    <3> QED
      BY <2>1, <3>1 DEF OnceOK, Disjoint
  <2>3. CASE SendPack
    <3>1. UNCHANGED inFlight /\ building' = {} /\ packCh' = Append(packCh, building)
      BY <2>3 DEF SendPack
    <3>2. /\ Len(packCh') = Len(packCh) + 1 /\ Len(packCh) \in Nat
          /\ \A i \in 1..Len(packCh) : packCh'[i] = packCh[i]
          /\ packCh'[Len(packCh) + 1] = building
      BY <1>0, <3>1, AppendProperties, LenProperties
    <3>3. \A i \in 1..Len(packCh') : i \in 1..Len(packCh) \/ i = Len(packCh) + 1
      BY <3>2
    <3>4. ASSUME NEW i \in 1..Len(packCh')
          PROVE  /\ packCh'[i] \subseteq inFlight /\ \A P \in packs : Disjoint(packCh'[i], P)
                 /\ \A j \in 1..Len(packCh') : i # j => Disjoint(packCh'[i], packCh'[j])
                 /\ \A u \in UploadWorkers : Disjoint(Taken(u), packCh'[i])
      BY <1>0, <3>2, <3>3 DEF OnceOK, Disjoint
    <3> QED
      BY <2>1, <3>1, <3>4 DEF OnceOK, Disjoint
  <2>4. CASE SkipBlob \/ FinishPack \/ DropPack \/ AssemblerReturns \/ FinishFails \/ AssemblerThrows
    <3>1. UNCHANGED <<inFlight, packCh>> /\ building' \subseteq building
      BY <2>4 DEF SkipBlob, FinishPack, DropPack, AssemblerReturns, FinishFails, AssemblerThrows,
                  assembly, assemblyOnly, channels
    <3> QED
      BY <2>1, <3>1 DEF OnceOK, Disjoint
  <2>5. CASE AddFails
    <3>1. UNCHANGED <<packCh, building>> /\ inFlight' = inFlight \cup {Head(blobCh)}
          /\ Head(blobCh) \notin idx
      BY <2>5 DEF AddFails, Duplicate
    <3> QED
      BY <2>1, <3>1 DEF OnceOK, Disjoint
  <2> QED
    BY <1>1, <2>2, <2>3, <2>4, <2>5 DEF Assembler
<1>2. ASSUME NEW u \in UploadWorkers, UploadWorker(u)
      PROVE  OnceOK'
  <2>1. UNCHANGED <<inFlight, building>> /\ idx \subseteq idx'
    BY <1>2, UploaderFrame DEF assembly, UploadWorker, TakePack, StorePack, InsertEntries, CountPack,
                               UploadFails, UploaderReturns, repo
  <2>2. \A v \in UploadWorkers \ {u} : Taken(v)' = Taken(v)
    BY <1>0, <1>2 DEF Taken, UploadWorker, TakePack, StorePack, InsertEntries, CountPack, UploadFails,
                      UploaderReturns
  <2>3. CASE TakePack(u)
    <3>1. packCh' = Tail(packCh) /\ packCh # <<>> /\ UNCHANGED packs
      BY <2>3 DEF TakePack, repo
    <3>2. Taken(u)' \subseteq Head(packCh)
      BY <1>0, <2>3 DEF TakePack, Taken
    <3>3. /\ Len(packCh) \in Nat \ {0} /\ Len(packCh') = Len(packCh) - 1 /\ Head(packCh) = packCh[1]
          /\ \A i \in 1..Len(packCh') : packCh'[i] = packCh[i + 1]
      BY <1>0, <3>1, HeadTailProperties, EmptySeq
    <3>4. 1 \in 1..Len(packCh) /\ \A i \in 1..Len(packCh') : i + 1 \in 1..Len(packCh) /\ i + 1 # 1
      BY <3>3
    <3>5. /\ Taken(u)' \subseteq inFlight /\ Disjoint(Taken(u)', building)
          /\ \A P \in packs : Disjoint(Taken(u)', P)
          /\ \A i \in 1..Len(packCh') : Disjoint(Taken(u)', packCh'[i])
          /\ \A v \in UploadWorkers \ {u} : Disjoint(Taken(u)', Taken(v)) /\ Disjoint(Taken(v), Taken(u)')
      BY <3>2, <3>3, <3>4 DEF OnceOK, Disjoint
    <3>6. ASSUME NEW i \in 1..Len(packCh')
          PROVE  /\ packCh'[i] \subseteq inFlight /\ Disjoint(packCh'[i], building)
                 /\ \A P \in packs : Disjoint(packCh'[i], P)
                 /\ \A j \in 1..Len(packCh') : i # j => Disjoint(packCh'[i], packCh'[j])
                 /\ \A v \in UploadWorkers \ {u} : Disjoint(Taken(v), packCh'[i])
      <4>1. \A j \in 1..Len(packCh') : i # j => i + 1 # j + 1
        OBVIOUS
      <4> QED
        BY <3>3, <3>4, <4>1 DEF OnceOK
    <3> QED
      BY <2>1, <2>2, <3>1, <3>5, <3>6 DEF OnceOK
  <2>4. CASE StorePack(u)
    <3>1. UNCHANGED packCh /\ packs' = packs \cup {Taken(u)}
      BY <2>4 DEF StorePack, Taken, UploaderIs, channels
    <3>2. Taken(u)' = {}
      BY <1>0, <2>4 DEF StorePack, Taken, UploaderType
    <3> QED
      BY <2>1, <2>2, <3>1, <3>2 DEF OnceOK, Disjoint
  <2>5. CASE InsertEntries(u) \/ CountPack(u) \/ UploadFails(u) \/ UploaderReturns(u)
    <3>1. UNCHANGED <<packCh, packs>>
      BY <2>5 DEF InsertEntries, CountPack, UploadFails, UploaderReturns, channels, repo
    <3>2. Taken(u)' = {}
      BY <1>0, <2>5 DEF InsertEntries, CountPack, UploadFails, UploaderReturns, NoPack, Taken,
                        UploaderType
    <3> QED
      BY <2>1, <2>2, <3>1, <3>2 DEF OnceOK, Disjoint
  <2> QED
    BY <1>2, <2>3, <2>4, <2>5 DEF UploadWorker
<1>3. CASE Feeder \/ BackupFiles \/ Cancel \/ CloseBlobCh \/ UNCHANGED vars
           \/ \E w \in ChunkWorkers : ChunkWorker(w)
  <2>1. UNCHANGED <<inFlight, building, packCh, uploader, idx, packs>>
    BY <1>3, FeederFrame, WorkerFrame, MainFrame, CancelFrame, CloserFrame
    DEF vars, channels, assembly, repo
  <2> QED
    BY <2>1 DEF OnceOK, Taken
<1> QED
  BY <1>1, <1>2, <1>3 DEF Next

-----------------------------------------------------------------------------
(* The byte limit                                                            *)

\* A worker that was not started does nothing; the only one keeps to the limit.
LimitOK ==
    /\ \A w \in ChunkWorkers \ opts.chunkWorkers : worker[w].at = "done"
    /\ opts.maxBytes > 0 /\ (\E w : opts.chunkWorkers = {w}) =>
          /\ bytesRead <= opts.maxBytes
          /\ \A w \in ChunkWorkers : worker[w].at \in {"read", "send"} =>
                bytesRead + Len(worker[w].ids) <= opts.maxBytes

LEMMA LimitKept ==
    ASSUME Typed, LimitOK, [Next]_vars
    PROVE  LimitOK'
<1>0. /\ worker \in [ChunkWorkers -> WorkerType] /\ bytesRead \in Nat /\ opts.maxBytes \in Nat
  BY OptionsAssumption DEF Typed, TypeOK, WorkerType
<1>1. ASSUME NEW w \in ChunkWorkers, ChunkWorker(w)
      PROVE  LimitOK'
  <2>1. /\ UNCHANGED opts /\ w \in opts.chunkWorkers
        /\ \A v \in ChunkWorkers \ {w} : worker'[v] = worker[v]
    BY <1>0, <1>1, WorkerFrame DEF LimitOK, input, ChunkWorker, TakeFile, ReadChunk, SendChunk,
         EndOfFile, SendCanceled, ProgressReturns, WorkerReturns, WorkerFails, WorkerThrows,
         FileDone, SetWorker
  <2>2. ASSUME opts.maxBytes > 0, \E v : opts.chunkWorkers = {v}
        PROVE  /\ bytesRead' <= opts.maxBytes
               /\ worker'[w].at \in {"read", "send"} =>
                     bytesRead' + Len(worker'[w].ids) <= opts.maxBytes
    <3>0. bytesRead <= opts.maxBytes
      BY <2>2 DEF LimitOK
    <3>1. CASE TakeFile(w)
      <4>1. UNCHANGED bytesRead /\ worker'[w].ids = <<>>
        BY <1>0, <3>1 DEF TakeFile, SetWorker, counts
      <4> QED
        BY <1>0, <3>0, <4>1, EmptySeq
    <3>2. CASE ReadChunk(w)
      <4>1. /\ UNCHANGED bytesRead /\ worker[w].todo # <<>>
            /\ worker'[w].ids = Append(worker[w].ids, Head(worker[w].todo))
            /\ worker[w].ids \in Seq(Blobs) /\ worker[w].todo \in Seq(Blobs)
            /\ ~(BytesSeen(w) > opts.maxBytes)
        BY <1>0, <2>2, <3>2 DEF ReadChunk, SetWorker, WorkerType, OverLimit, workersOnly, counts
      <4>2. Head(worker[w].todo) \in Blobs
        BY <4>1, HeadTailProperties
      <4>3. Len(worker'[w].ids) = Len(worker[w].ids) + 1 /\ Len(worker[w].ids) \in Nat
        BY <4>1, <4>2, AppendProperties, LenProperties
      <4> QED
        BY <1>0, <3>0, <4>1, <4>3 DEF BytesSeen
    <3>3. CASE SendChunk(w)
      BY <1>0, <2>2, <3>3 DEF LimitOK, SendChunk, SetWorker, WorkerIs, WorkerType, counts
    <3>4. CASE EndOfFile(w)
      BY <1>0, <2>2, <3>4 DEF LimitOK, EndOfFile, FileDone, SetWorker, WorkerIs, Idle
    <3>5. CASE SendCanceled(w)
      BY <1>0, <3>0, <3>5 DEF SendCanceled, FileDone, SetWorker, Idle
    <3>6. CASE ProgressReturns(w) \/ WorkerReturns(w) \/ WorkerFails(w) \/ WorkerThrows(w)
      BY <1>0, <3>0, <3>6 DEF ProgressReturns, WorkerReturns, WorkerFails, WorkerThrows, SetWorker,
                              Idle, workersOnly, counts
    <3> QED
      BY <1>1, <3>1, <3>2, <3>3, <3>4, <3>5, <3>6 DEF ChunkWorker
  <2>3. ASSUME opts.maxBytes > 0, NEW x, opts.chunkWorkers = {x}, NEW v \in ChunkWorkers \ {w}
        PROVE  worker'[v].at = "done"
    BY <2>1, <2>3 DEF LimitOK
  <2> QED
    BY <2>1, <2>2, <2>3 DEF LimitOK
<1>2. CASE Feeder \/ Assembler \/ BackupFiles \/ Cancel \/ CloseBlobCh \/ UNCHANGED vars
           \/ \E u \in UploadWorkers : UploadWorker(u)
  <2>1. UNCHANGED <<opts, worker, bytesRead>>
    BY <1>2, FeederFrame, AssemblerFrame, MainFrame, CancelFrame, CloserFrame, UploaderFrame
    DEF vars, input, counts
  <2> QED
    BY <2>1 DEF LimitOK
<1> QED
  BY <1>1, <1>2 DEF Next

-----------------------------------------------------------------------------
(* What the run writes at its end                                            *)

\* Every chunk list is whole and every blob of it is in the index.
ChunksSettled ==
    \A f \in Files : chunks[f] \in Versions[f] /\ Range(chunks[f]) \subseteq idx

ResultOK ==
    /\ main \in {"wait", "saveIndex"} => savedIndex = Nothing
    /\ main = "saveSnapshot" => savedIndex = idx
    /\ main \in {"saveIndex", "saveSnapshot"} => ChunksSettled
    /\ manifest # Nothing =>
          /\ main = "succeeded"
          /\ \A f \in Files :
                /\ manifest[f].chunks \in Versions[f]
                /\ Range(manifest[f].chunks) \subseteq savedIndex
          /\ savedIndex \subseteq Indexed \cup UNION packs

Inv ==
    /\ Typed /\ ChannelsOK /\ FilesOK /\ PacksOK /\ KnownOK /\ StoredOK
    /\ OnceOK /\ LimitOK /\ ResultOK

\* When the group has returned and was not stopped, nothing is under way.
LEMMA AllSettled ==
    ASSUME Inv, GroupReturned, ~stopped, ~opts.dryRun
    PROVE  ChunksSettled
<1>1. PICK w \in opts.chunkWorkers : w \in ChunkWorkers
  BY UsedWorkers DEF Inv, Typed
<1>2. PICK u \in opts.uploadWorkers : u \in UploadWorkers
  BY UsedWorkers DEF Inv, Typed
<1>3. fed = NumFiles /\ fileCh = <<>>
  BY <1>1 DEF Inv, FilesOK, GroupReturned
<1>4. blobCh = <<>> /\ building = {} /\ packCh = <<>>
  BY <1>2 DEF Inv, PacksOK, GroupReturned
<1>5. HeldPacks = {}
  BY DEF Inv, StoredOK, UploaderOK, GroupReturned, HeldPacks
<1>6. Range(<<>>) = {}
  BY DEF Range
<1>7. Known \subseteq idx
  BY <1>4, <1>5, <1>6 DEF Inv, StoredOK, Known, GroupReturned
<1>8. \A f \in Files : chunks[f] \in Versions[f]
  BY <1>3, <1>6 DEF Inv, FilesOK, GroupReturned, Accounted, InHand, Files
<1> QED
  BY <1>7, <1>8 DEF Inv, KnownOK, ChunksSettled

LEMMA ResultKept ==
    ASSUME Inv, [Next]_vars
    PROVE  ResultOK'
<1>1. CASE Wait
  <2>1. UNCHANGED <<savedIndex, manifest, chunks, idx, packs>> /\ main = "wait"
    BY <1>1 DEF Wait, mainOnly, repo
  <2>2. main' = "saveIndex" => err = Nothing /\ ~canceled /\ ~opts.dryRun /\ GroupReturned
    BY <1>1 DEF Wait
  <2>3. main' = "saveIndex" => ChunksSettled
    BY <2>1, <2>2, AllSettled DEF Inv, ChannelsOK
  <2>4. main' \in {"failed", "succeeded", "saveIndex"}
    BY <1>1 DEF Wait
  <2> QED
    BY <2>1, <2>3, <2>4 DEF Inv, ResultOK, ChunksSettled
<1>2. CASE SaveIndex
  BY <1>2 DEF Inv, ResultOK, ChunksSettled, SaveIndex, mainOnly, repo
<1>3. CASE SaveSnapshot
  <2>1. UNCHANGED <<savedIndex, chunks, idx, packs>> /\ main = "saveSnapshot" /\ main' = "succeeded"
    BY <1>3 DEF SaveSnapshot, mainOnly, repo
  <2>2. \A f \in Files : manifest'[f].chunks = chunks[f]
    BY <1>3 DEF SaveSnapshot
  <2> QED
    BY <2>1, <2>2 DEF Inv, ResultOK, ChunksSettled, StoredOK
<1>4. CASE SaveFails
  BY <1>4 DEF Inv, ResultOK, SaveFails, mainOnly, repo
<1>5. CASE ~BackupFiles
  <2>1. UNCHANGED <<main, savedIndex, manifest>>
    BY <1>5, FeederFrame, WorkerFrame, AssemblerFrame, UploaderFrame, CancelFrame, CloserFrame
    DEF Next, vars, result
  <2>2. main # "wait" => UNCHANGED <<chunks, idx, packs>>
    <3>1. main # "wait" => (\A w \in ChunkWorkers : ~ChunkWorker(w)) /\ (\A u \in UploadWorkers : ~UploadWorker(u))
      BY WorkerFrame, UploaderFrame DEF Inv, ChannelsOK, GroupReturned
    <3> QED
      BY <1>5, <3>1, FeederFrame, AssemblerFrame, CancelFrame, CloserFrame DEF Next, vars, repo
  <2> QED
    BY <2>1, <2>2 DEF Inv, ResultOK, ChunksSettled
<1> QED
  BY <1>1, <1>2, <1>3, <1>4, <1>5 DEF BackupFiles

LEMMA InvInit ==
    ASSUME Init
    PROVE  Inv
<1>1. Typed
  BY TypeInit
<1>2. ChannelsOK /\ ResultOK
  BY DEF Init, ChannelsOK, ResultOK
<1>3. FilesOK /\ PacksOK
  <2>1. \A w \in opts.chunkWorkers : worker[w].at = "recv"
    BY <1>1, UsedWorkers DEF Init, Idle, Typed
  <2>2. \A u \in opts.uploadWorkers : uploader[u].at = "recv"
    BY <1>1, UsedWorkers DEF Init, NoPack, Typed
  <2>3. 1..fed = {} /\ ~fileClosed /\ assembler = "recv"
    BY DEF Init
  <2> QED
    BY <2>1, <2>2, <2>3 DEF FilesOK, PacksOK
<1>4. KnownOK /\ StoredOK
  <2>1. \A w \in ChunkWorkers : worker[w].ids = <<>>
    BY DEF Init, Idle
  <2>2. Range(<<>>) = {} /\ Len(<<>>) = 0
    BY EmptySeq DEF Range
  <2>3. \A w \in ChunkWorkers : Sent(w) = {}
    BY <2>1, <2>2 DEF Sent
  <2>4. KnownOK
    BY <2>2, <2>3 DEF Init, KnownOK
  <2>5. \A u \in UploadWorkers : uploader[u].at \in {"recv", "done"} /\ uploader[u].pack = {}
    BY DEF Init, NoPack
  <2>6. StoredOK
    BY <2>5 DEF Init, StoredOK, UploaderOK
  <2> QED
    BY <2>4, <2>6
<1>5. OnceOK
  <2>1. \A u \in UploadWorkers : Taken(u) = {}
    BY DEF Init, NoPack, Taken
  <2>2. Len(packCh) = 0
    BY EmptySeq DEF Init
  <2> QED
    BY <2>1, <2>2 DEF Init, OnceOK, Disjoint
<1>6. LimitOK
  <2>1. \A w \in ChunkWorkers : worker[w].at \in {"recv", "done"}
                                /\ (w \notin opts.chunkWorkers => worker[w].at = "done")
    BY DEF Init, Idle
  <2>2. bytesRead = 0
    BY DEF Init
  <2>3. opts.maxBytes \in Nat
    BY <1>1, OptionsAssumption DEF Typed, TypeOK
  <2> QED
    BY <2>1, <2>2, <2>3 DEF LimitOK
<1> QED
  BY <1>1, <1>2, <1>3, <1>4, <1>5, <1>6 DEF Inv

THEOREM InvAlways == Spec => []Inv
<1>1. Inv /\ [Next]_vars => Inv'
  BY TypeKept, ChannelsKept, FilesKept, PacksKept, KnownKept, StoredKept, OnceKept, LimitKept,
     ResultKept DEF Inv
<1> QED
  BY InvInit, <1>1, PTL DEF Spec

-----------------------------------------------------------------------------
(* What the run counts                                                       *)

Positions == Nat \ {0}

Holds(w) == worker[w].at \in {"read", "send"}
NumSent(w) == IF worker[w].at = "send" THEN Len(worker[w].ids) - 1 ELSE Len(worker[w].ids)

\* A file is in one place: not sent yet, in the channel, in one worker's hands, or
\* done; until it is done it has no chunk list.
OneHolder ==
    /\ \A f \in Files : f > fed => chunks[f] = <<>>
    /\ \A i \in 1..Len(fileCh) :
          /\ fileCh[i] <= fed /\ chunks[fileCh[i]] = <<>>
          /\ \A j \in 1..Len(fileCh) : i # j => fileCh[i] # fileCh[j]
    /\ \A w \in ChunkWorkers :
          /\ Holds(w) =>
                /\ worker[w].file <= fed /\ chunks[worker[w].file] = <<>>
                /\ \A i \in 1..Len(fileCh) : fileCh[i] # worker[w].file
                /\ \A v \in ChunkWorkers : v # w /\ Holds(v) => worker[v].file # worker[w].file
          /\ ~Holds(w) => worker[w].ids = <<>>

\* The chunks of the lists, as pairs of a file and a place in it.
Listed == {p \in Files \X Positions : p[2] <= Len(chunks[p[1]])}

\* The i-th chunk of f was sent to the assembler, and is b: it is listed, or a
\* worker that has f in hand has sent it.
ListedAs(f, i, b) == i <= Len(chunks[f]) /\ chunks[f][i] = b
HeldAs(w, f, i, b) ==
    Holds(w) /\ worker[w].file = f /\ i <= NumSent(w) /\ worker[w].ids[i] = b
SentAs(f, i, b) == ListedAs(f, i, b) \/ \E w \in ChunkWorkers : HeldAs(w, f, i, b)

SentChunks == {p \in Files \X Positions : \E b : SentAs(p[1], p[2], b)}

\* No file was given up, and no pack.
Undisturbed ==
    ~stopped /\ assembler # "failing" /\ \A w \in ChunkWorkers : worker[w].at # "failing"

BytesCounted == IsFiniteSet(Listed) /\ bytesRead = Cardinality(Listed)

\* Each chunk that was sent is counted, as new or as deduplicated, or waits for
\* the assembler; each blob that was claimed or waits is one that was sent.
AllSentCounted ==
    /\ IsFiniteSet(SentChunks)
    /\ Cardinality(SentChunks) = blobsNew + blobsDeduped + Len(blobCh)
    /\ \A b \in inFlight \cup Range(blobCh) :
          \E f \in Files, i \in Positions : SentAs(f, i, b)

BlobsCounted ==
    /\ IsFiniteSet(inFlight)
    /\ Undisturbed => blobsNew = Cardinality(inFlight) /\ AllSentCounted

\* Uploaders that have stored a pack and not counted it.
Uncounted == {u \in UploadWorkers : uploader[u].at \in {"insert", "count"}}

\* No pack is empty, so that no two stored packs are the same.
PacksCounted ==
    /\ assembler \in {"full", "flush", "lastFlush"} => building # {}
    /\ \A i \in 1..Len(packCh) : packCh[i] # {}
    /\ \A u \in UploadWorkers : uploader[u].at = "put" => uploader[u].pack # {}
    /\ ~opts.dryRun =>
          IsFiniteSet(packs) /\ Cardinality(packs) = packsWritten + Cardinality(Uncounted)

\* What a step of a worker does to its file, as far as the counts go.
Takes(w) ==
    /\ ~Holds(w) /\ worker[w].at # "failing"
    /\ fileCh # <<>> /\ fileCh' = Tail(fileCh)
    /\ worker'[w].at = "read" /\ worker'[w].file = Head(fileCh) /\ worker'[w].ids = <<>>
    /\ UNCHANGED <<blobCh, chunks, bytesRead>>
Reads(w) ==
    /\ worker[w].at = "read" /\ worker'[w].at = "send"
    /\ worker'[w].file = worker[w].file
    /\ \E b \in Blobs : worker'[w].ids = Append(worker[w].ids, b)
    /\ UNCHANGED <<fileCh, blobCh, chunks, bytesRead>>
Sends(w) ==
    /\ worker[w].at = "send" /\ worker'[w].at = "read"
    /\ worker'[w].file = worker[w].file /\ worker'[w].ids = worker[w].ids
    /\ blobCh' = Append(blobCh, worker[w].ids[Len(worker[w].ids)])
    /\ UNCHANGED <<fileCh, chunks, bytesRead>>
Lists(w) ==
    /\ worker[w].at = "read" /\ ~Holds(w)' /\ worker'[w].ids = <<>>
    /\ chunks' = [chunks EXCEPT ![worker[w].file] = worker[w].ids]
    /\ bytesRead' = bytesRead + Len(worker[w].ids)
    /\ UNCHANGED <<fileCh, blobCh>>
Drops(w) ==
    /\ worker[w].at = "send" /\ ~Holds(w)' /\ worker'[w].ids = <<>> /\ stopped
    /\ chunks' = [chunks EXCEPT ![worker[w].file] = <<>>]
    /\ UNCHANGED <<fileCh, blobCh, bytesRead>>
Leaves(w) ==
    /\ ~Holds(w)' /\ worker'[w].ids = <<>>
    /\ Holds(w) => worker'[w].at = "failing"
    /\ UNCHANGED <<fileCh, blobCh, chunks, bytesRead>>

LEMMA WorkerCases ==
    ASSUME Typed, NEW w \in ChunkWorkers, ChunkWorker(w)
    PROVE  /\ Takes(w) \/ Reads(w) \/ Sends(w) \/ Lists(w) \/ Drops(w) \/ Leaves(w)
           /\ \A v \in ChunkWorkers \ {w} : worker'[v] = worker[v]
<1>0. worker \in [ChunkWorkers -> WorkerType]
  BY DEF Typed, TypeOK, WorkerType
<1>1. CASE TakeFile(w)
  BY <1>0, <1>1 DEF Takes, TakeFile, SetWorker, WorkerIs, Holds, counts
<1>2. CASE ReadChunk(w)
  <2>1. worker[w].todo \in Seq(Blobs) /\ worker[w].todo # <<>>
    BY <1>0, <1>2 DEF ReadChunk, WorkerType
  <2>2. Head(worker[w].todo) \in Blobs
    BY <2>1, HeadTailProperties
  <2> QED
    BY <1>0, <1>2, <2>2 DEF Reads, ReadChunk, SetWorker, WorkerIs, WorkerType, workersOnly, channels, counts
<1>3. CASE SendChunk(w)
  BY <1>0, <1>3 DEF Sends, SendChunk, SetWorker, WorkerIs, WorkerType, counts
<1>4. CASE EndOfFile(w)
  BY <1>0, <1>4 DEF Lists, EndOfFile, FileDone, SetWorker, WorkerIs, Holds, Idle, channels
<1>5. CASE SendCanceled(w)
  <2>1. bytesRead' = bytesRead
    BY <1>5 DEF SendCanceled, FileDone, Typed, TypeOK
  <2> QED
    BY <1>0, <1>5, <2>1 DEF Drops, SendCanceled, FileDone, SetWorker, WorkerIs, Holds, Idle, channels
<1>6. CASE ProgressReturns(w) \/ WorkerReturns(w) \/ WorkerFails(w) \/ WorkerThrows(w)
  BY <1>0, <1>6 DEF Leaves, ProgressReturns, WorkerReturns, WorkerFails, WorkerThrows, SetWorker,
                    WorkerIs, Holds, Idle, workersOnly, channels, counts
<1> QED
  BY <1>1, <1>2, <1>3, <1>4, <1>5, <1>6 DEF ChunkWorker

LEMMA OneHolderKept ==
    ASSUME Typed, OneHolder, [Next]_vars
    PROVE  OneHolder'
<1>0. /\ fileCh \in Seq(Files) /\ fed \in 0..NumFiles /\ fed \in Nat /\ Files \subseteq Nat
      /\ worker \in [ChunkWorkers -> WorkerType] /\ chunks \in [Files -> Seq(Blobs)]
      /\ Len(fileCh) \in Nat /\ \A i \in 1..Len(fileCh) : fileCh[i] \in Files
      /\ \A w \in ChunkWorkers : Holds(w) => worker[w].file \in Files
  <2>1. fileCh \in Seq(Files) /\ Len(fileCh) \in Nat /\ \A i \in 1..Len(fileCh) : fileCh[i] \in Files
    BY LenProperties, ElementOfSeq DEF Typed, TypeOK
  <2>2. fed \in 0..NumFiles /\ fed \in Nat /\ Files \subseteq Nat
    BY NumFilesAssumption DEF Typed, TypeOK, Files
  <2>3. worker \in [ChunkWorkers -> WorkerType] /\ chunks \in [Files -> Seq(Blobs)]
        /\ \A w \in ChunkWorkers : Holds(w) => worker[w].file \in Files
    BY DEF Typed, TypeOK, WorkerType, Reading, Holds
  <2> QED
    BY <2>1, <2>2, <2>3
<1>1. CASE Feed
  <2>1. UNCHANGED <<worker, chunks>> /\ fed' = fed + 1 /\ fileCh' = Append(fileCh, fed + 1)
        /\ fed + 1 \in Files
    BY <1>0, <1>1, NumFilesAssumption DEF Feed, Files
  <2>2. /\ Len(fileCh') = Len(fileCh) + 1 /\ fileCh'[Len(fileCh) + 1] = fed + 1
        /\ \A i \in 1..Len(fileCh) : fileCh'[i] = fileCh[i]
    BY <1>0, <2>1, AppendProperties
  <2>3. \A i \in 1..Len(fileCh') : i \in 1..Len(fileCh) \/ i = Len(fileCh) + 1
    BY <1>0, <2>2
  <2>4. chunks[fed + 1] = <<>> /\ \A f \in Files : f > fed + 1 => f > fed
    BY <1>0, <2>1 DEF OneHolder
  <2>5. ASSUME NEW i \in 1..Len(fileCh) PROVE fileCh[i] # fed + 1 /\ fileCh[i] <= fed + 1
    <3>1. fileCh[i] \in Nat /\ fileCh[i] <= fed
      BY <1>0 DEF OneHolder
    <3> QED
      BY <1>0, <3>1
  <2>6. ASSUME NEW w \in ChunkWorkers, Holds(w)
        PROVE  worker[w].file # fed + 1 /\ worker[w].file <= fed + 1
    <3>1. worker[w].file \in Nat /\ worker[w].file <= fed
      BY <1>0, <2>6 DEF OneHolder
    <3> QED
      BY <1>0, <3>1
  <2>7. ASSUME NEW i \in 1..Len(fileCh')
        PROVE  /\ fileCh'[i] <= fed' /\ chunks'[fileCh'[i]] = <<>>
               /\ \A j \in 1..Len(fileCh') : i # j => fileCh'[i] # fileCh'[j]
    <3>1. CASE i = Len(fileCh) + 1
      BY <1>0, <2>1, <2>2, <2>3, <2>4, <2>5, <3>1
    <3>2. CASE i \in 1..Len(fileCh)
      BY <1>0, <2>1, <2>2, <2>3, <2>5, <3>2 DEF OneHolder
    <3> QED
      BY <2>3, <3>1, <3>2
  <2>8. ASSUME NEW w \in ChunkWorkers, Holds(w), NEW i \in 1..Len(fileCh')
        PROVE  fileCh'[i] # worker[w].file
    BY <1>0, <2>2, <2>3, <2>6, <2>8 DEF OneHolder
  <2> QED
    BY <2>1, <2>4, <2>6, <2>7, <2>8 DEF OneHolder, Holds
<1>2. ASSUME NEW w \in ChunkWorkers, ChunkWorker(w)
      PROVE  OneHolder'
  <2>0. UNCHANGED fed /\ \A v \in ChunkWorkers \ {w} : worker'[v] = worker[v] /\ (Holds(v)' <=> Holds(v))
    BY <1>2, WorkerFrame, WorkerCases DEF Holds
  <2>1. CASE Takes(w)
    <3>1. fileCh # <<>> /\ fileCh' = Tail(fileCh) /\ UNCHANGED chunks
          /\ Holds(w)' /\ worker'[w].file = Head(fileCh)
      BY <2>1 DEF Takes, Holds
    <3>2. /\ Len(fileCh) \in Nat \ {0} /\ Len(fileCh') = Len(fileCh) - 1 /\ Head(fileCh) = fileCh[1]
          /\ \A i \in 1..Len(fileCh') : fileCh'[i] = fileCh[i + 1]
      BY <1>0, <3>1, HeadTailProperties, EmptySeq
    <3>3. 1 \in 1..Len(fileCh) /\ \A i \in 1..Len(fileCh') : i + 1 \in 1..Len(fileCh) /\ i + 1 # 1
      BY <3>2
    <3>4. ASSUME NEW i \in 1..Len(fileCh')
          PROVE  /\ fileCh'[i] <= fed' /\ chunks'[fileCh'[i]] = <<>> /\ fileCh'[i] # fileCh[1]
                 /\ \A j \in 1..Len(fileCh') : i # j => fileCh'[i] # fileCh'[j]
                 /\ \A v \in ChunkWorkers : Holds(v) => fileCh'[i] # worker[v].file
      <4>1. \A j \in 1..Len(fileCh') : i # j => i + 1 # j + 1
        OBVIOUS
      <4> QED
        BY <2>0, <3>1, <3>2, <3>3, <4>1 DEF OneHolder
    <3>5. /\ worker'[w].file <= fed' /\ chunks'[worker'[w].file] = <<>>
          /\ \A v \in ChunkWorkers : Holds(v) => worker[v].file # worker'[w].file
      BY <2>0, <3>1, <3>2, <3>3 DEF OneHolder
    <3> QED
      BY <2>0, <3>1, <3>2, <3>4, <3>5 DEF OneHolder
  <2>2. CASE Reads(w) \/ Sends(w)
    <3>1. UNCHANGED <<fileCh, chunks>> /\ worker'[w].file = worker[w].file /\ Holds(w) /\ Holds(w)'
      BY <2>2 DEF Reads, Sends, Holds
    <3> QED
      BY <2>0, <3>1 DEF OneHolder
  <2>3. CASE Lists(w)
    <3>1. UNCHANGED fileCh /\ ~Holds(w)' /\ worker'[w].ids = <<>> /\ Holds(w)
          /\ \A f \in Files : f # worker[w].file => chunks'[f] = chunks[f]
      BY <1>0, <2>3 DEF Lists, Holds
    <3>2. worker[w].file \in Files /\ worker[w].file \in Nat /\ worker[w].file <= fed
      BY <1>0, <3>1 DEF OneHolder
    <3>3. ASSUME NEW f \in Files, f > fed PROVE chunks'[f] = <<>>
      <4>1. f # worker[w].file
        BY <1>0, <3>2, <3>3
      <4> QED
        BY <3>1, <3>3, <4>1 DEF OneHolder
    <3>4. ASSUME NEW i \in 1..Len(fileCh)
          PROVE  fileCh[i] <= fed /\ chunks'[fileCh[i]] = <<>>
      BY <1>0, <3>1 DEF OneHolder
    <3>5. ASSUME NEW v \in ChunkWorkers \ {w}, Holds(v)
          PROVE  worker[v].file <= fed /\ chunks'[worker[v].file] = <<>>
      BY <1>0, <3>1, <3>5 DEF OneHolder
    <3> QED
      BY <2>0, <3>1, <3>3, <3>4, <3>5 DEF OneHolder
  <2>4. CASE Drops(w) \/ Leaves(w)
    <3>1. UNCHANGED <<fileCh, chunks>> /\ ~Holds(w)' /\ worker'[w].ids = <<>>
      <4>1. CASE Drops(w)
        <5>1. worker[w].file \in Files /\ chunks[worker[w].file] = <<>> /\ UNCHANGED fileCh
              /\ chunks' = [chunks EXCEPT ![worker[w].file] = <<>>]
              /\ ~Holds(w)' /\ worker'[w].ids = <<>>
          BY <1>0, <4>1 DEF Drops, Holds, OneHolder
        <5> QED
          BY <1>0, <5>1
      <4> QED
        BY <2>4, <4>1 DEF Leaves
    <3> QED
      BY <2>0, <3>1 DEF OneHolder
  <2> QED
    BY <1>2, <2>1, <2>2, <2>3, <2>4, WorkerCases
<1>3. CASE FeederReturns \/ Assembler \/ BackupFiles \/ Cancel \/ CloseBlobCh \/ UNCHANGED vars
           \/ \E u \in UploadWorkers : UploadWorker(u)
  <2>1. UNCHANGED <<fed, fileCh, worker, chunks>>
    BY <1>3, AssemblerFrame, MainFrame, CancelFrame, CloserFrame, UploaderFrame
    DEF FeederReturns, vars, channels
  <2> QED
    BY <2>1 DEF OneHolder, Holds
<1> QED
  BY <1>1, <1>2, <1>3 DEF Next, Feeder

\* The first n places of one file.
LEMMA PlacesOfFile ==
    ASSUME NEW f, NEW n \in Nat
    PROVE  IsFiniteSet({f} \X (1..n)) /\ Cardinality({f} \X (1..n)) = n
<1>1. IsFiniteSet(1..n) /\ Cardinality(1..n) = n
  <2>1. IsFiniteSet(1..n) /\ Cardinality(1..n) = IF 1 > n THEN 0 ELSE n - 1 + 1
    BY FS_Interval
  <2> QED
    BY <2>1
<1>2. IsFiniteSet({f}) /\ Cardinality({f}) = 1
  BY FS_Singleton
<1>3. IsFiniteSet({f} \X (1..n)) /\ Cardinality({f} \X (1..n)) = Cardinality({f}) * Cardinality(1..n)
  BY <1>1, <1>2, FS_Product
<1> QED
  BY <1>1, <1>2, <1>3

\* A chunk list is recorded: its places are added to the others.
LEMMA ListOne ==
    ASSUME Typed, OneHolder, NEW w \in ChunkWorkers, Holds(w),
           chunks' = [chunks EXCEPT ![worker[w].file] = worker[w].ids]
    PROVE  /\ Listed' = Listed \cup ({worker[w].file} \X (1..Len(worker[w].ids)))
           /\ Listed \cap ({worker[w].file} \X (1..Len(worker[w].ids))) = {}
<1> DEFINE f == worker[w].file
           n == Len(worker[w].ids)
<1>1. f \in Files /\ n \in Nat /\ worker[w].ids \in Seq(Blobs) /\ chunks \in [Files -> Seq(Blobs)]
  BY LenProperties DEF Typed, TypeOK, Reading, Holds
<1>2. chunks[f] = <<>> /\ Len(chunks[f]) = 0
  BY EmptySeq DEF OneHolder
<1>3. chunks'[f] = worker[w].ids /\ \A g \in Files \ {f} : chunks'[g] = chunks[g]
  BY <1>1
<1>4. Len(chunks'[f]) = n /\ \A g \in Files \ {f} : Len(chunks'[g]) = Len(chunks[g])
  BY <1>3
<1> HIDE DEF f, n
<1>5. ASSUME NEW g \in Files, NEW i \in Positions
      PROVE  i <= Len(chunks'[g]) <=> i <= Len(chunks[g]) \/ (g = f /\ i \in 1..n)
  <2>1. CASE g = f
    <3>1. i \in Nat /\ i >= 1
      BY DEF Positions
    <3>2. Len(chunks[g]) = 0 /\ Len(chunks'[g]) = n
      BY <1>2, <1>4, <2>1
    <3>3. n \in Nat
      BY <1>1
    <3>4. ~(i <= Len(chunks[g])) /\ (i <= Len(chunks'[g]) <=> i \in 1..n)
      BY <3>1, <3>2, <3>3
    <3> QED
      BY <2>1, <3>4
  <2>2. CASE g # f
    BY <1>4, <2>2
  <2> QED
    BY <2>1, <2>2
<1>6. ASSUME NEW p \in Files \X Positions
      PROVE  p \in Listed' <=> p \in Listed \/ p \in {f} \X (1..n)
  <2>1. PICK g \in Files, i \in Positions : p = <<g, i>>
    OBVIOUS
  <2> QED
    BY <1>5, <2>1 DEF Listed
<1>7. {f} \X (1..n) \subseteq Files \X Positions
  BY <1>1 DEF Positions
<1>8. Listed \cap ({f} \X (1..n)) = {}
  <2>1. ASSUME NEW g \in Files, NEW i \in Positions, i <= Len(chunks[g]), g = f
        PROVE  FALSE
    BY <1>2, <2>1 DEF Positions
  <2> QED
    BY <2>1 DEF Listed
<1>9. Listed \subseteq Files \X Positions /\ Listed' \subseteq Files \X Positions
  BY DEF Listed
<1>10. Listed' = Listed \cup ({f} \X (1..n))
  BY <1>6, <1>7, <1>9
<1> QED
  BY <1>8, <1>10 DEF f, n

LEMMA BytesKept ==
    ASSUME Typed, OneHolder, BytesCounted, [Next]_vars
    PROVE  BytesCounted'
<1>1. ASSUME UNCHANGED <<chunks, bytesRead>> PROVE BytesCounted'
  BY <1>1 DEF BytesCounted, Listed
<1>2. ASSUME NEW w \in ChunkWorkers, ChunkWorker(w) PROVE BytesCounted'
  <2>1. CASE Lists(w)
    <3> DEFINE L == {worker[w].file} \X (1..Len(worker[w].ids))
    <3>1. Len(worker[w].ids) \in Nat /\ bytesRead' = bytesRead + Len(worker[w].ids)
      BY <2>1, LenProperties DEF Lists, Typed, TypeOK
    <3>2. IsFiniteSet(L) /\ Cardinality(L) = Len(worker[w].ids)
      BY <3>1, PlacesOfFile
    <3>3. Listed' = Listed \cup L /\ Listed \cap L = {}
      BY <2>1, ListOne DEF Lists, Holds
    <3> HIDE DEF L
    <3>4. /\ IsFiniteSet(Listed \cup L)
          /\ Cardinality(Listed \cup L) = Cardinality(Listed) + Cardinality(L) - Cardinality({})
      BY <3>2, <3>3, FS_Union DEF BytesCounted
    <3>5. Cardinality({}) = 0 /\ Cardinality(Listed) \in Nat
      BY FS_EmptySet, FS_CardinalityType DEF BytesCounted
    <3>6. Cardinality(Listed') = bytesRead'
      BY <3>1, <3>2, <3>3, <3>4, <3>5 DEF BytesCounted
    <3> QED
      BY <3>3, <3>4, <3>6 DEF BytesCounted
  <2>2. CASE Drops(w)
    <3>1. worker[w].file \in Files /\ chunks[worker[w].file] = <<>>
      BY <2>2 DEF Drops, Holds, OneHolder, Typed, Reading
    <3>2. chunks \in [Files -> Seq(Blobs)] /\ chunks' = [chunks EXCEPT ![worker[w].file] = <<>>]
          /\ UNCHANGED bytesRead
      BY <2>2 DEF Drops, Typed, TypeOK
    <3>3. chunks' = chunks
      BY <3>1, <3>2
    <3> QED
      BY <1>1, <3>2, <3>3
  <2>3. CASE ~Lists(w) /\ ~Drops(w)
    BY <1>1, <1>2, <2>3, WorkerCases DEF Takes, Reads, Sends, Leaves
  <2> QED
    BY <2>1, <2>2, <2>3
<1>3. CASE Feeder \/ Assembler \/ BackupFiles \/ Cancel \/ CloseBlobCh \/ UNCHANGED vars
           \/ \E u \in UploadWorkers : UploadWorker(u)
  <2>1. UNCHANGED <<chunks, bytesRead>>
    BY <1>3, FeederFrame, AssemblerFrame, MainFrame, CancelFrame, CloserFrame, UploaderFrame
    DEF vars, counts
  <2> QED
    BY <1>1, <2>1
<1> QED
  BY <1>2, <1>3 DEF Next

SentSame ==
    /\ UNCHANGED blobCh
    /\ \A f \in Files, i \in Positions : \A b : SentAs(f, i, b)' <=> SentAs(f, i, b)

SentMore(g, n, c) ==
    /\ blobCh' = Append(blobCh, c)
    /\ \A b : ~SentAs(g, n, b)
    /\ \A f \in Files, i \in Positions : \A b :
          SentAs(f, i, b)' <=> SentAs(f, i, b) \/ (f = g /\ i = n /\ b = c)

\* While no file is given up, a worker's step sends one more chunk or none.
LEMMA SentStep ==
    ASSUME Typed, OneHolder, NEW w \in ChunkWorkers, ChunkWorker(w), ~stopped, Undisturbed'
    PROVE  SentSame \/ \E g \in Files, n \in Positions, c \in Blobs : SentMore(g, n, c)
<1>0. /\ worker \in [ChunkWorkers -> WorkerType] /\ chunks \in [Files -> Seq(Blobs)]
      /\ worker[w].ids \in Seq(Blobs) /\ Len(worker[w].ids) \in Nat
      /\ Holds(w) => worker[w].file \in Files
  BY LenProperties DEF Typed, TypeOK, WorkerType, Reading, Holds
<1>1. /\ Positions \subseteq Nat /\ \A i \in Positions : i >= 1
  BY DEF Positions
<1>2. \A v \in ChunkWorkers \ {w} : worker'[v] = worker[v]
  BY WorkerCases
<1>3. \A v \in ChunkWorkers \ {w} : \A f, i, b : HeldAs(v, f, i, b)' <=> HeldAs(v, f, i, b)
  BY <1>2 DEF HeldAs, Holds, NumSent
<1>4. CASE Takes(w)
  <2>1. UNCHANGED <<blobCh, chunks>> /\ ~Holds(w) /\ NumSent(w)' = 0
    <3>1. Len(worker'[w].ids) = 0 /\ worker'[w].at = "read"
      BY <1>4, EmptySeq DEF Takes
    <3> QED
      BY <1>4, <3>1 DEF Takes, NumSent
  <2>2. ASSUME NEW f \in Files, NEW i \in Positions, NEW b PROVE ~HeldAs(w, f, i, b) /\ ~HeldAs(w, f, i, b)'
    <3>1. ~(i <= 0)
      BY <1>1
    <3> QED
      BY <2>1, <3>1 DEF HeldAs
  <2>3. \A f \in Files, i \in Positions : \A b : ListedAs(f, i, b)' <=> ListedAs(f, i, b)
    BY <2>1 DEF ListedAs
  <2> QED
    BY <1>3, <2>1, <2>2, <2>3 DEF SentSame, SentAs
<1>5. CASE Reads(w)
  <2>1. PICK c \in Blobs : worker'[w].ids = Append(worker[w].ids, c)
    BY <1>5 DEF Reads
  <2>2. /\ Len(worker'[w].ids) = Len(worker[w].ids) + 1
        /\ \A i \in 1..Len(worker[w].ids) : worker'[w].ids[i] = worker[w].ids[i]
    BY <1>0, <2>1, AppendProperties
  <2>3. /\ UNCHANGED <<blobCh, chunks>> /\ Holds(w) /\ Holds(w)' /\ worker'[w].file = worker[w].file
        /\ NumSent(w) = Len(worker[w].ids) /\ NumSent(w)' = Len(worker[w].ids)
    BY <1>0, <1>5, <2>2 DEF Reads, Holds, NumSent
  <2>4. ASSUME NEW f \in Files, NEW i \in Positions, NEW b PROVE HeldAs(w, f, i, b)' <=> HeldAs(w, f, i, b)
    <3>1. i <= Len(worker[w].ids) => worker'[w].ids[i] = worker[w].ids[i]
      BY <1>0, <1>1, <2>2
    <3> QED
      BY <2>3, <3>1 DEF HeldAs
  <2>5. \A f \in Files, i \in Positions : \A b : ListedAs(f, i, b)' <=> ListedAs(f, i, b)
    BY <2>3 DEF ListedAs
  <2> QED
    BY <1>3, <2>3, <2>4, <2>5 DEF SentSame, SentAs
<1>6. CASE Sends(w)
  <2> DEFINE g == worker[w].file
             n == Len(worker[w].ids)
             c == worker[w].ids[n]
  <2>1. worker[w].at = "send" /\ Holds(w) /\ Holds(w)' /\ UNCHANGED chunks
        /\ worker'[w].file = g /\ worker'[w].ids = worker[w].ids /\ blobCh' = Append(blobCh, c)
    BY <1>6 DEF Sends, Holds
  <2>2. n \in 1..n /\ c \in Blobs /\ g \in Files
    BY <1>0, <2>1, SentBlobType
  <2>3. NumSent(w) = n - 1 /\ NumSent(w)' = n
    BY <1>6 DEF Sends, NumSent
  <2> HIDE DEF n, g, c
  <2>4. n \in Positions
    BY <2>2 DEF Positions
  <2>5. chunks[g] = <<>> /\ Len(chunks[g]) = 0
        /\ \A v \in ChunkWorkers : v # w /\ Holds(v) => worker[v].file # g
    BY <2>1, EmptySeq DEF OneHolder, g
  <2>6. ASSUME NEW b PROVE ~SentAs(g, n, b)
    <3>1. ~(n <= 0) /\ ~(n <= n - 1)
      BY <1>1, <2>4
    <3> QED
      BY <2>3, <2>5, <3>1 DEF SentAs, ListedAs, HeldAs
  <2>7. ASSUME NEW f \in Files, NEW i \in Positions, NEW b
        PROVE  HeldAs(w, f, i, b)' <=> HeldAs(w, f, i, b) \/ (f = g /\ i = n /\ b = c)
    <3>1. i <= n <=> i <= n - 1 \/ i = n
      BY <1>1, <2>4
    <3>2. worker[w].ids[n] = c /\ worker[w].file = g
      BY DEF c, g
    <3> QED
      BY <2>1, <2>3, <3>1, <3>2 DEF HeldAs
  <2>8. \A f \in Files, i \in Positions : \A b : ListedAs(f, i, b)' <=> ListedAs(f, i, b)
    BY <2>1 DEF ListedAs
  <2>9. SentMore(g, n, c)
    BY <1>3, <2>1, <2>6, <2>7, <2>8 DEF SentMore, SentAs
  <2> QED
    BY <2>2, <2>4, <2>9
<1>7. CASE Lists(w)
  <2> DEFINE g == worker[w].file
  <2>1. Holds(w) /\ ~Holds(w)' /\ UNCHANGED blobCh /\ NumSent(w) = Len(worker[w].ids) /\ g \in Files
        /\ chunks'[g] = worker[w].ids /\ \A f \in Files \ {g} : chunks'[f] = chunks[f]
    BY <1>0, <1>7 DEF Lists, Holds, NumSent
  <2>2. Len(chunks[g]) = 0
    BY <2>1, EmptySeq DEF OneHolder
  <2> HIDE DEF g
  <2>3. ASSUME NEW f \in Files, NEW i \in Positions, NEW b
        PROVE  /\ ~HeldAs(w, f, i, b)'
               /\ ListedAs(f, i, b)' <=> ListedAs(f, i, b) \/ HeldAs(w, f, i, b)
    <3>1. ~(i <= 0)
      BY <1>1
    <3>2. CASE f = g
      BY <2>1, <2>2, <3>1, <3>2 DEF ListedAs, HeldAs, g
    <3>3. CASE f # g
      BY <2>1, <3>3 DEF ListedAs, HeldAs, g
    <3> QED
      BY <3>2, <3>3
  <2> QED
    BY <1>3, <2>1, <2>3 DEF SentSame, SentAs
<1>8. CASE Leaves(w)
  <2>1. UNCHANGED <<blobCh, chunks>> /\ ~Holds(w) /\ ~Holds(w)'
    BY <1>8 DEF Leaves, Undisturbed
  <2>2. \A f, i, b : ~HeldAs(w, f, i, b) /\ ~HeldAs(w, f, i, b)'
    BY <2>1 DEF HeldAs
  <2>3. \A f \in Files, i \in Positions : \A b : ListedAs(f, i, b)' <=> ListedAs(f, i, b)
    BY <2>1 DEF ListedAs
  <2> QED
    BY <1>3, <2>1, <2>2, <2>3 DEF SentSame, SentAs
<1> QED
  BY <1>4, <1>5, <1>6, <1>7, <1>8, WorkerCases DEF Drops

LEMMA SentKept ==
    ASSUME Typed, OneHolder, AllSentCounted, NEW w \in ChunkWorkers, ChunkWorker(w),
           ~stopped, Undisturbed'
    PROVE  AllSentCounted'
<1>0. UNCHANGED <<blobsNew, blobsDeduped, inFlight>> /\ blobsNew \in Nat /\ blobsDeduped \in Nat
      /\ blobCh \in Seq(Blobs) /\ Len(blobCh) \in Nat
  BY WorkerFrame, LenProperties DEF assembly, Typed, TypeOK
<1>1. CASE SentSame
  <2>1. SentChunks' = SentChunks
    BY <1>1 DEF SentSame, SentChunks
  <2>2. \A f \in Files, i \in Positions : \A b : SentAs(f, i, b) => SentAs(f, i, b)'
    BY <1>1 DEF SentSame
  <2>3. \A b \in inFlight' \cup Range(blobCh') :
            \E f \in Files, i \in Positions : SentAs(f, i, b)'
    BY <1>0, <1>1, <2>2 DEF SentSame, AllSentCounted
  <2> QED
    BY <1>0, <1>1, <2>1, <2>3 DEF SentSame, AllSentCounted
<1>2. ASSUME NEW g \in Files, NEW n \in Positions, NEW c \in Blobs, SentMore(g, n, c)
      PROVE  AllSentCounted'
  <2>1. blobCh' = Append(blobCh, c) /\ Len(blobCh') = Len(blobCh) + 1
        /\ Range(blobCh') = Range(blobCh) \cup {c}
    BY <1>0, <1>2, AppendProperties, RangeAppend DEF SentMore
  <2>2. ASSUME NEW p \in Files \X Positions
        PROVE  p \in SentChunks' <=> p \in SentChunks \/ p = <<g, n>>
    <3>1. PICK f \in Files, i \in Positions : p = <<f, i>>
      OBVIOUS
    <3>2. (\E b : SentAs(f, i, b)') <=> (\E b : SentAs(f, i, b)) \/ (f = g /\ i = n)
      BY <1>2 DEF SentMore
    <3>3. p = <<g, n>> <=> f = g /\ i = n
      BY <3>1
    <3>4. p \in SentChunks <=> \E b : SentAs(f, i, b)
      BY <3>1 DEF SentChunks
    <3>5. p \in SentChunks' <=> \E b : SentAs(f, i, b)'
      BY <3>1 DEF SentChunks
    <3> QED
      BY <3>2, <3>3, <3>4, <3>5
  <2>3. SentChunks' = SentChunks \cup {<<g, n>>}
    <3>1. SentChunks \subseteq Files \X Positions /\ SentChunks' \subseteq Files \X Positions
          /\ <<g, n>> \in Files \X Positions
      BY DEF SentChunks
    <3> QED
      BY <2>2, <3>1
  <2>4. <<g, n>> \notin SentChunks
    BY <1>2 DEF SentMore, SentChunks
  <2>5. IsFiniteSet(SentChunks') /\ Cardinality(SentChunks') = Cardinality(SentChunks) + 1
    BY <2>3, <2>4, FS_AddElement DEF AllSentCounted
  <2>6. Cardinality(SentChunks') = blobsNew' + blobsDeduped' + Len(blobCh')
    BY <1>0, <2>1, <2>5 DEF AllSentCounted
  <2>7. (\A f \in Files, i \in Positions : \A b : SentAs(f, i, b) => SentAs(f, i, b)') /\ SentAs(g, n, c)'
    BY <1>2 DEF SentMore
  <2>8. \A b \in inFlight' \cup Range(blobCh') :
            \E f \in Files, i \in Positions : SentAs(f, i, b)'
    BY <1>0, <2>1, <2>7 DEF AllSentCounted
  <2> QED
    BY <2>5, <2>6, <2>8 DEF AllSentCounted
<1> QED
  BY <1>1, <1>2, SentStep

LEMMA BlobsKept ==
    ASSUME Typed, OneHolder, BlobsCounted, [Next]_vars
    PROVE  BlobsCounted'
<1>0. blobsNew \in Nat /\ blobsDeduped \in Nat /\ blobCh \in Seq(Blobs) /\ Len(blobCh) \in Nat
  BY LenProperties DEF Typed, TypeOK
<1>1. ASSUME NEW w \in ChunkWorkers, ChunkWorker(w) PROVE BlobsCounted'
  <2>1. UNCHANGED <<blobsNew, assembler, inFlight>> /\ (stopped => stopped')
    BY <1>1, WorkerFrame DEF assembly
  <2>2. Undisturbed' => Undisturbed
    <3>1. ASSUME Undisturbed' PROVE worker[w].at # "failing" /\ ~stopped
      <4>1. ~stopped' /\ worker'[w].at # "failing"
        BY <3>1 DEF Undisturbed
      <4>2. worker[w].at = "failing" => WorkerThrows(w)
        BY <1>1 DEF ChunkWorker, TakeFile, ReadChunk, SendChunk, EndOfFile, SendCanceled,
             ProgressReturns, WorkerReturns, WorkerFails, WorkerIs
      <4> QED
        BY <2>1, <4>1, <4>2 DEF WorkerThrows, Throw
    <3>2. \A v \in ChunkWorkers \ {w} : worker'[v] = worker[v]
      BY <1>1, WorkerCases
    <3> QED
      BY <2>1, <3>1, <3>2 DEF Undisturbed
  <2>3. Undisturbed' => AllSentCounted'
    BY <1>1, <2>2, SentKept DEF BlobsCounted, Undisturbed
  <2> QED
    BY <2>1, <2>2, <2>3 DEF BlobsCounted
<1>2. CASE Assembler
  <2>1. UNCHANGED <<worker, chunks>>
    BY <1>2, AssemblerFrame
  <2>2. /\ SentChunks' = SentChunks
        /\ \A f, i, b : SentAs(f, i, b)' <=> SentAs(f, i, b)
    BY <2>1 DEF SentChunks, SentAs, ListedAs, HeldAs, Holds, NumSent
  <2>3. CASE SkipBlob \/ AddBlob
    <3>0. Undisturbed' => Undisturbed
      BY <2>1, <2>3 DEF SkipBlob, AddBlob, assembly, assemblyOnly, context, Undisturbed
    <3>1. /\ blobCh # <<>> /\ blobCh' = Tail(blobCh)
          /\ \/ blobsDeduped' = blobsDeduped + 1 /\ UNCHANGED <<blobsNew, inFlight>>
             \/ /\ blobsNew' = blobsNew + 1 /\ UNCHANGED blobsDeduped
                /\ inFlight' = inFlight \cup {Head(blobCh)} /\ Head(blobCh) \notin inFlight
      BY <2>3 DEF SkipBlob, AddBlob, Duplicate, assembly
    <3>2. Len(blobCh') = Len(blobCh) - 1 /\ Range(blobCh) = {Head(blobCh)} \cup Range(blobCh')
      BY <1>0, <3>1, HeadTailProperties, RangeHeadTail
    <3>3. inFlight' \cup Range(blobCh') \subseteq inFlight \cup Range(blobCh)
      BY <3>1, <3>2
    <3>4. IsFiniteSet(inFlight') /\ (Undisturbed => blobsNew' = Cardinality(inFlight'))
      <4>1. IsFiniteSet(inFlight) /\ (Undisturbed => blobsNew = Cardinality(inFlight))
        BY DEF BlobsCounted
      <4>2. CASE UNCHANGED <<blobsNew, inFlight>>
        BY <4>1, <4>2
      <4>3. CASE blobsNew' = blobsNew + 1 /\ inFlight' = inFlight \cup {Head(blobCh)}
                 /\ Head(blobCh) \notin inFlight
        <5>1. IsFiniteSet(inFlight') /\ Cardinality(inFlight') = Cardinality(inFlight) + 1
          BY <4>1, <4>3, FS_AddElement
        <5> QED
          BY <4>1, <4>3, <5>1
      <4> QED
        BY <3>1, <4>2, <4>3
    <3>5. blobsNew' + blobsDeduped' + Len(blobCh') = blobsNew + blobsDeduped + Len(blobCh)
      BY <1>0, <3>1, <3>2
    <3>6. Undisturbed => AllSentCounted'
      <4>1. ASSUME Undisturbed PROVE \A b \in inFlight' \cup Range(blobCh') :
                    \E f \in Files, i \in Positions : SentAs(f, i, b)'
        BY <2>2, <3>3, <4>1 DEF BlobsCounted, AllSentCounted
      <4> QED
        BY <2>2, <3>5, <4>1 DEF BlobsCounted, AllSentCounted
    <3> QED
      BY <3>0, <3>4, <3>6 DEF BlobsCounted
  <2>4. CASE SendPack \/ FinishPack \/ DropPack \/ AssemblerReturns
    <3>1. UNCHANGED <<blobCh, blobsNew, blobsDeduped, inFlight, stopped>> /\ assembler # "failing"
      BY <2>4 DEF SendPack, FinishPack, FlushDue, DropPack, AssemblerReturns, counts, context,
                  assemblyOnly
    <3>2. Undisturbed' => Undisturbed
      BY <2>1, <3>1 DEF Undisturbed
    <3> QED
      BY <2>2, <3>1, <3>2 DEF BlobsCounted, AllSentCounted
  <2>5. CASE AddFails \/ FinishFails \/ AssemblerThrows
    <3>1. ~Undisturbed' /\ (UNCHANGED inFlight \/ inFlight' = inFlight \cup {Head(blobCh)})
      BY <2>5 DEF AddFails, FinishFails, AssemblerThrows, Throw, Undisturbed
    <3>2. IsFiniteSet(inFlight')
      BY <3>1, FS_AddElement DEF BlobsCounted
    <3> QED
      BY <3>1, <3>2 DEF BlobsCounted
  <2> QED
    BY <1>2, <2>3, <2>4, <2>5 DEF Assembler
<1>3. CASE Feeder \/ BackupFiles \/ Cancel \/ CloseBlobCh \/ UNCHANGED vars
           \/ \E u \in UploadWorkers : UploadWorker(u)
  <2>1. UNCHANGED <<blobCh, blobsNew, blobsDeduped, assembler, inFlight, worker, chunks>>
        /\ (stopped => stopped')
    BY <1>3, FeederFrame, MainFrame, CancelFrame, CloserFrame, UploaderFrame
    DEF vars, context, counts, channels, assembly
  <2>2. (Undisturbed' => Undisturbed) /\ SentChunks' = SentChunks
        /\ \A f, i, b : SentAs(f, i, b)' <=> SentAs(f, i, b)
    BY <2>1 DEF Undisturbed, SentChunks, SentAs, ListedAs, HeldAs, Holds, NumSent
  <2> QED
    BY <2>1, <2>2 DEF BlobsCounted, AllSentCounted
<1> QED
  BY <1>1, <1>2, <1>3 DEF Next

LEMMA PackCountKept ==
    ASSUME Typed, OnceOK, PacksCounted, [Next]_vars
    PROVE  PacksCounted'
<1>0. /\ packCh \in Seq(SUBSET Blobs) /\ Len(packCh) \in Nat /\ building \in SUBSET Blobs
      /\ uploader \in [UploadWorkers -> UploaderType] /\ packsWritten \in Nat
      /\ IsFiniteSet(Uncounted) /\ Cardinality(Uncounted) \in Nat
  <2>1. IsFiniteSet(Uncounted) /\ Cardinality(Uncounted) \in Nat
    BY WorkersAssumption, FS_Subset, FS_CardinalityType DEF Uncounted
  <2> QED
    BY <2>1, LenProperties DEF Typed, TypeOK, UploaderType
<1>1. CASE Assembler
  <2>1. UNCHANGED <<opts, uploader, packs, packsWritten, Uncounted>>
    BY <1>1, AssemblerFrame DEF input, repo, Uncounted
  <2>2. /\ assembler' \in {"full", "flush", "lastFlush"} => building' # {}
        /\ \A i \in 1..Len(packCh') : packCh'[i] # {}
    <3>1. CASE AddBlob
      BY <3>1 DEF AddBlob, assemblyOnly, PacksCounted
    <3>2. CASE SendPack
      <4>1. packCh' = Append(packCh, building) /\ building # {} /\ assembler' \in {"recv", "done"}
        BY <3>2 DEF SendPack, PacksCounted
      <4>2. /\ Len(packCh') = Len(packCh) + 1 /\ packCh'[Len(packCh) + 1] = building
            /\ \A i \in 1..Len(packCh) : packCh'[i] = packCh[i]
        BY <1>0, <4>1, AppendProperties
      <4>3. \A i \in 1..Len(packCh') : i \in 1..Len(packCh) \/ i = Len(packCh) + 1
        BY <1>0, <4>2
      <4> QED
        BY <4>1, <4>2, <4>3 DEF PacksCounted
    <3>3. CASE SkipBlob \/ FinishPack \/ DropPack \/ AssemblerReturns
               \/ AddFails \/ FinishFails \/ AssemblerThrows
      BY <3>3 DEF SkipBlob, FinishPack, FlushDue, DropPack, AssemblerReturns, AddFails,
                  FinishFails, AssemblerThrows, assembly, assemblyOnly, channels, PacksCounted
    <3> QED
      BY <1>1, <3>1, <3>2, <3>3 DEF Assembler
  <2> QED
    BY <2>1, <2>2 DEF PacksCounted
<1>2. ASSUME NEW u \in UploadWorkers, UploadWorker(u) PROVE PacksCounted'
  <2>0. UNCHANGED <<opts, assembler, building>>
    BY <1>2, UploaderFrame DEF input, assembly
  <2>1. \A v \in UploadWorkers \ {u} : uploader'[v] = uploader[v]
    BY <1>0, <1>2 DEF UploadWorker, TakePack, StorePack, InsertEntries, CountPack, UploadFails,
                      UploaderReturns
  <2>2. CASE TakePack(u)
    <3>1. /\ packCh # <<>> /\ packCh' = Tail(packCh) /\ UNCHANGED <<packs, packsWritten>>
          /\ uploader[u].at = "recv" /\ uploader'[u].pack = Head(packCh)
          /\ uploader'[u].at = IF opts.dryRun THEN "count" ELSE "put"
      BY <1>0, <2>2 DEF TakePack, UploaderIs, counts, repo
    <3>2. /\ Len(packCh) \in Nat \ {0} /\ Len(packCh') = Len(packCh) - 1 /\ Head(packCh) = packCh[1]
          /\ \A i \in 1..Len(packCh') : packCh'[i] = packCh[i + 1]
      BY <1>0, <3>1, HeadTailProperties, EmptySeq
    <3>3. 1 \in 1..Len(packCh) /\ \A i \in 1..Len(packCh') : i + 1 \in 1..Len(packCh)
      BY <3>2
    <3>4. ~opts.dryRun => Uncounted' = Uncounted
      BY <2>1, <3>1 DEF Uncounted
    <3> QED
      BY <2>0, <2>1, <3>1, <3>2, <3>3, <3>4 DEF PacksCounted
  <2>3. CASE StorePack(u)
    <3>1. /\ UNCHANGED <<packCh, packsWritten>> /\ packs' = packs \cup {uploader[u].pack}
          /\ uploader[u].at = "put" /\ uploader'[u].at = "insert"
      BY <1>0, <2>3 DEF StorePack, UploaderIs, UploaderType, channels, counts
    <3>2. uploader[u].pack \notin packs
      <4>1. Taken(u) = uploader[u].pack /\ uploader[u].pack # {}
        BY <3>1 DEF Taken, PacksCounted
      <4>2. \A P \in packs : Taken(u) \cap P = {}
        BY DEF OnceOK, Disjoint
      <4> QED
        BY <4>1, <4>2
    <3>3. Uncounted' = Uncounted \cup {u} /\ u \notin Uncounted
      BY <2>1, <3>1 DEF Uncounted
    <3>4. Cardinality(Uncounted') = Cardinality(Uncounted) + 1
      BY <1>0, <3>3, FS_AddElement
    <3>5. IsFiniteSet(packs) => IsFiniteSet(packs') /\ Cardinality(packs') = Cardinality(packs) + 1
      BY <3>1, <3>2, FS_AddElement
    <3>6. ~opts.dryRun => Cardinality(packs') = packsWritten + Cardinality(Uncounted')
      BY <1>0, <3>4, <3>5 DEF PacksCounted
    <3> QED
      BY <2>0, <2>1, <3>1, <3>5, <3>6 DEF PacksCounted
  <2>4. CASE CountPack(u)
    <3>1. /\ UNCHANGED <<packCh, packs>> /\ packsWritten' = packsWritten + 1
          /\ uploader[u].at = "count" /\ uploader'[u].at = "recv"
      BY <1>0, <2>4 DEF CountPack, UploaderIs, NoPack, channels, repo
    <3>2. Uncounted' = Uncounted \ {u} /\ u \in Uncounted
      BY <2>1, <3>1 DEF Uncounted
    <3>3. Cardinality(Uncounted') = Cardinality(Uncounted) - 1
      BY <1>0, <3>2, FS_RemoveElement
    <3>4. ~opts.dryRun => Cardinality(packs') = packsWritten' + Cardinality(Uncounted')
      BY <1>0, <3>1, <3>3 DEF PacksCounted
    <3> QED
      BY <2>0, <2>1, <3>1, <3>4 DEF PacksCounted
  <2>5. CASE InsertEntries(u) \/ UploadFails(u) \/ UploaderReturns(u)
    <3>1. /\ UNCHANGED <<packCh, packs, packsWritten>> /\ uploader'[u].at \in {"count", "done"}
          /\ uploader[u].at = "insert" <=> uploader'[u].at = "count"
          /\ uploader[u].at \in {"insert", "put", "recv"}
      BY <1>0, <2>5 DEF InsertEntries, UploadFails, UploaderReturns, UploaderIs, UploaderType,
                        channels, counts, repo
    <3>2. Uncounted' = Uncounted
      BY <2>1, <3>1 DEF Uncounted
    <3> QED
      BY <2>0, <2>1, <3>1, <3>2 DEF PacksCounted
  <2> QED
    BY <1>2, <2>2, <2>3, <2>4, <2>5 DEF UploadWorker
<1>3. CASE Feeder \/ BackupFiles \/ Cancel \/ CloseBlobCh \/ UNCHANGED vars
           \/ \E w \in ChunkWorkers : ChunkWorker(w)
  <2>1. UNCHANGED <<opts, assembler, building, packCh, uploader, packs, packsWritten>>
    BY <1>3, FeederFrame, WorkerFrame, MainFrame, CancelFrame, CloserFrame
    DEF vars, channels, counts, input, assembly, repo
  <2> QED
    BY <2>1 DEF PacksCounted, Uncounted
<1> QED
  BY <1>1, <1>2, <1>3 DEF Next

\* The report of a run that goes on after the group.
Reported ==
    LET lists == {x \in Files \X (1..bytesRead) : x[2] <= Len(chunks[x[1]])}
        found == {chunks[x[1]][x[2]] : x \in lists}
    IN  /\ blobsNew = Cardinality(found \ Indexed)
        /\ blobsNew + blobsDeduped = Cardinality(lists)
        /\ bytesRead = Cardinality(lists)
        /\ ~opts.dryRun => packsWritten = Cardinality(packs)

Counted ==
    /\ OneHolder /\ BytesCounted /\ BlobsCounted /\ PacksCounted
    /\ main \in {"saveIndex", "saveSnapshot", "succeeded"} => Reported

\* When the group has returned and was not stopped, all counts are final.
LEMMA AllCounted ==
    ASSUME Inv, Counted, GroupReturned, ~stopped
    PROVE  Reported
<1> DEFINE lists == {x \in Files \X (1..bytesRead) : x[2] <= Len(chunks[x[1]])}
           found == {chunks[x[1]][x[2]] : x \in lists}
<1>0. /\ chunks \in [Files -> Seq(Blobs)] /\ bytesRead \in Nat /\ blobsNew \in Nat
      /\ blobsDeduped \in Nat /\ packsWritten \in Nat
  BY DEF Inv, Typed, TypeOK
<1>1. PICK w \in opts.chunkWorkers : w \in ChunkWorkers
  BY UsedWorkers DEF Inv, Typed
<1>2. blobCh = <<>> /\ Len(blobCh) = 0 /\ Range(blobCh) = {}
  BY EmptySeq DEF Inv, PacksOK, GroupReturned, Range
<1>3. Undisturbed /\ \A v \in ChunkWorkers : ~Holds(v)
  BY DEF GroupReturned, Undisturbed, Holds
<1>4. \A f, i, b : SentAs(f, i, b) <=> ListedAs(f, i, b)
  BY <1>3 DEF SentAs, HeldAs
<1>5. SentChunks = Listed
  BY <1>4 DEF SentChunks, Listed, ListedAs
<1>6. ASSUME NEW f \in Files PROVE Len(chunks[f]) \in Nat /\ Len(chunks[f]) <= bytesRead
  <2> DEFINE n == Len(chunks[f])
             P == {f} \X (1..n)
  <2>1. n \in Nat
    BY <1>0, LenProperties
  <2>2. Cardinality(P) = n
    BY <2>1, PlacesOfFile
  <2>3. P \subseteq Listed
    BY <2>1 DEF Listed, Positions
  <2> HIDE DEF P, n
  <2>4. Cardinality(P) <= Cardinality(Listed)
    BY <2>3, FS_Subset DEF Counted, BytesCounted
  <2>5. n <= bytesRead
    BY <2>2, <2>4 DEF Counted, BytesCounted
  <2> QED
    BY <2>1, <2>5 DEF n
<1>7. lists = Listed
  <2>1. ASSUME NEW f \in Files, NEW i \in Positions, i <= Len(chunks[f]) PROVE i \in 1..bytesRead
    BY <1>0, <1>6, <2>1 DEF Positions
  <2>2. 1..bytesRead \subseteq Positions
    BY <1>0 DEF Positions
  <2> QED
    BY <2>1, <2>2 DEF Listed
<1> HIDE DEF lists
<1>8. found \subseteq inFlight \cup Indexed
  <2>1. ASSUME NEW f \in Files, NEW i \in Positions, i <= Len(chunks[f])
        PROVE  chunks[f][i] \in inFlight \cup Indexed
    <3>1. i \in 1..Len(chunks[f])
      BY <1>6, <2>1 DEF Positions
    <3>2. chunks[f][i] \in Range(chunks[f])
      BY <1>0, <3>1, RangeType
    <3>3. Range(chunks[f]) \subseteq inFlight \cup idx
      BY <1>2 DEF Inv, KnownOK, Known
    <3>4. idx \subseteq Indexed \cup inFlight
      BY DEF Inv, StoredOK, OnceOK
    <3> QED
      BY <3>2, <3>3, <3>4
  <2> QED
    BY <1>7, <2>1 DEF Listed
<1>9. inFlight \subseteq found
  <2>1. ASSUME NEW b \in inFlight PROVE b \in found
    <3>1. PICK f \in Files, i \in Positions : ListedAs(f, i, b)
      BY <1>3, <1>4 DEF Counted, BlobsCounted, AllSentCounted
    <3>2. <<f, i>> \in lists
      BY <1>7, <3>1 DEF ListedAs, Listed
    <3> QED
      BY <3>1, <3>2 DEF ListedAs
  <2> QED
    BY <2>1
<1>10. found \ Indexed = inFlight
  BY <1>8, <1>9 DEF Inv, OnceOK, Disjoint
<1> HIDE DEF found
<1>11. blobsNew = Cardinality(found \ Indexed)
  BY <1>3, <1>10 DEF Counted, BlobsCounted
<1>12. blobsNew + blobsDeduped = Cardinality(lists)
  BY <1>0, <1>2, <1>3, <1>5, <1>7 DEF Counted, BlobsCounted, AllSentCounted
<1>13. bytesRead = Cardinality(lists)
  BY <1>7 DEF Counted, BytesCounted
<1>14. ~opts.dryRun => packsWritten = Cardinality(packs)
  <2>1. Uncounted = {}
    BY DEF GroupReturned, Uncounted
  <2>2. Cardinality(Uncounted) = 0
    BY <2>1, FS_EmptySet
  <2> QED
    BY <1>0, <2>2 DEF Counted, PacksCounted
<1> QED
  BY <1>11, <1>12, <1>13, <1>14 DEF Reported, lists, found

LEMMA ReportKept ==
    ASSUME Inv, Counted, [Next]_vars, main' \in {"saveIndex", "saveSnapshot", "succeeded"}
    PROVE  Reported'
<1>1. CASE Wait
  <2>1. GroupReturned /\ main = "wait" /\ err = Nothing /\ ~canceled
    BY <1>1 DEF Wait
  <2>2. Reported
    BY <2>1, AllCounted DEF Inv, ChannelsOK
  <2>3. UNCHANGED <<opts, chunks, bytesRead, blobsNew, blobsDeduped, packsWritten, packs>>
    BY <1>1 DEF Wait, mainOnly, input, counts, repo
  <2> QED
    BY <2>2, <2>3 DEF Reported
<1>2. CASE ~Wait
  <2>1. main \in {"saveIndex", "saveSnapshot", "succeeded"} /\ main # "wait"
    BY <1>2, FeederFrame, WorkerFrame, AssemblerFrame, UploaderFrame, CancelFrame, CloserFrame
    DEF Next, vars, result, BackupFiles, SaveIndex, SaveSnapshot, SaveFails
  <2>2. GroupReturned
    BY <2>1 DEF Inv, ChannelsOK
  <2>3. (\A w \in ChunkWorkers : ~ChunkWorker(w)) /\ (\A u \in UploadWorkers : ~UploadWorker(u))
        /\ ~Assembler
    BY <2>2, WorkerFrame, UploaderFrame, AssemblerFrame DEF GroupReturned
  <2>4. UNCHANGED <<opts, chunks, bytesRead, blobsNew, blobsDeduped, packsWritten, packs>>
    BY <2>3, FeederFrame, MainFrame, CancelFrame, CloserFrame DEF Next, vars, input, counts, repo
  <2>5. Reported
    BY <2>1 DEF Counted
  <2> QED
    BY <2>4, <2>5 DEF Reported
<1> QED
  BY <1>1, <1>2

LEMMA CountedInit ==
    ASSUME Init
    PROVE  Counted
<1>1. /\ Len(fileCh) = 0 /\ Len(packCh) = 0 /\ Len(blobCh) = 0 /\ Range(blobCh) = {}
      /\ \A f \in Files : chunks[f] = <<>> /\ Len(chunks[f]) = 0
  BY EmptySeq DEF Init, Range
<1>2. \A w \in ChunkWorkers : ~Holds(w) /\ worker[w].ids = <<>>
  BY DEF Init, Idle, Holds
<1>3. OneHolder
  BY <1>1, <1>2 DEF OneHolder
<1>4. \A f \in Files, i \in Positions : ~(i <= Len(chunks[f]))
  BY <1>1 DEF Positions
<1>5. Listed = {} /\ SentChunks = {}
  <2>1. \A f \in Files, i \in Positions : \A b : ~SentAs(f, i, b)
    BY <1>2, <1>4 DEF SentAs, ListedAs, HeldAs
  <2> QED
    BY <1>4, <2>1 DEF Listed, SentChunks
<1>6. IsFiniteSet({}) /\ Cardinality({}) = 0
  BY FS_EmptySet
<1>7. BytesCounted /\ BlobsCounted
  BY <1>1, <1>5, <1>6 DEF Init, BytesCounted, BlobsCounted, AllSentCounted
<1>8. PacksCounted
  <2>1. \A u \in UploadWorkers : uploader[u].at \in {"recv", "done"}
    BY DEF Init, NoPack
  <2>2. Uncounted = {}
    BY <2>1 DEF Uncounted
  <2> QED
    BY <1>1, <1>6, <2>1, <2>2 DEF Init, PacksCounted
<1> QED
  BY <1>3, <1>7, <1>8 DEF Init, Counted

LEMMA CountedKept ==
    ASSUME Inv, Counted, [Next]_vars
    PROVE  Counted'
BY OneHolderKept, BytesKept, BlobsKept, PackCountKept, ReportKept DEF Inv, Counted

-----------------------------------------------------------------------------
(* No goroutine waits for one that has gone                                  *)

\* When each goroutine can take a step: the disjunction of its actions' guards.
FeederCanGo == ~fileClosed /\ (fed = NumFiles \/ Len(fileCh) < FileQueue \/ stopped)

WorkerCanGo(w) ==
    \/ worker[w].at = "recv" /\ (fileCh # <<>> \/ fileClosed \/ stopped)
    \/ worker[w].at = "send" /\ (Len(blobCh) < BlobQueue \/ stopped)
    \/ worker[w].at \in {"read", "failing", "report"}

CloserCanGo == ~blobClosed /\ \A w \in ChunkWorkers : worker[w].at \in {"failing", "done"}

AssemblerCanGo ==
    \/ assembler \in {"full", "failing"}
    \/ assembler = "recv" /\ (blobCh # <<>> \/ blobClosed \/ stopped)
    \/ assembler \in {"flush", "lastFlush"} /\ (Len(packCh) < PackQueue \/ stopped)

UploaderCanGo(u) ==
    \/ uploader[u].at = "recv" /\ (packCh # <<>> \/ packClosed \/ stopped)
    \/ uploader[u].at \in {"put", "insert", "count"}

MainCanGo == (main = "wait" /\ GroupReturned) \/ main \in {"saveIndex", "saveSnapshot"}

SomeoneCanGo ==
    \/ FeederCanGo \/ CloserCanGo \/ AssemblerCanGo \/ MainCanGo
    \/ \E w \in ChunkWorkers : WorkerCanGo(w)
    \/ \E u \in UploadWorkers : UploaderCanGo(u)

\* Until every goroutine has returned, one of them can go on.
NeverStuck == ~AllReturned => SomeoneCanGo

\* A group whose goroutines cannot go on has returned: from the uploaders up to
\* the feeder each channel is empty, so that every stage has room to send, and
\* from the feeder down each channel is closed.
LEMMA StuckGroupReturned ==
    ASSUME Inv, ~SomeoneCanGo
    PROVE  GroupReturned /\ blobClosed
<1>1. /\ ~FeederCanGo /\ ~CloserCanGo /\ ~AssemblerCanGo
      /\ \A w \in ChunkWorkers : ~WorkerCanGo(w)
      /\ \A u \in UploadWorkers : ~UploaderCanGo(u)
  BY DEF SomeoneCanGo
<1>2. /\ \A w \in ChunkWorkers : worker[w].at \in {"recv", "send", "done"}
      /\ \A u \in UploadWorkers : uploader[u].at \in {"recv", "done"}
      /\ assembler \in {"recv", "full", "flush", "lastFlush", "failing", "done"}
  BY <1>1 DEF Inv, Typed, TypeOK, WorkerCanGo, UploaderCanGo
<1>3. /\ fileClosed /\ assembler = "done"
      /\ \A w \in ChunkWorkers : worker[w].at = "done"
      /\ \A u \in UploadWorkers : uploader[u].at = "done"
  <2>1. CASE stopped
    BY <1>1, <1>2, <2>1 DEF FeederCanGo, AssemblerCanGo, WorkerCanGo, UploaderCanGo
  <2>2. CASE ~stopped
    <3>1. PICK w \in opts.chunkWorkers : w \in ChunkWorkers
      BY UsedWorkers DEF Inv, Typed
    <3>2. PICK u \in opts.uploadWorkers : u \in UploadWorkers
      BY UsedWorkers DEF Inv, Typed
    <3>3. packCh = <<>> /\ Len(packCh) < PackQueue
      <4>1. packCh = <<>>
        BY <1>1, <1>2, <2>2, <3>2 DEF Inv, PacksOK, UploaderCanGo
      <4> QED
        BY <4>1, EmptySeq, CapacitiesAssumption
    <3>4. blobCh = <<>> /\ Len(blobCh) < BlobQueue /\ assembler \in {"recv", "done"}
      <4>1. blobCh = <<>> /\ assembler \in {"recv", "done"}
        BY <1>1, <1>2, <2>2, <3>3 DEF Inv, PacksOK, AssemblerCanGo
      <4> QED
        BY <4>1, EmptySeq, CapacitiesAssumption
    <3>5. \A v \in ChunkWorkers : worker[v].at \in {"recv", "done"}
      BY <1>1, <1>2, <3>4 DEF WorkerCanGo
    <3>6. fileCh = <<>> /\ Len(fileCh) < FileQueue
      <4>1. fileCh = <<>>
        BY <1>1, <2>2, <3>1, <3>5 DEF Inv, FilesOK, WorkerCanGo
      <4> QED
        BY <4>1, EmptySeq, CapacitiesAssumption
    <3>7. fileClosed
      BY <1>1, <3>6 DEF FeederCanGo
    <3>8. \A v \in ChunkWorkers : worker[v].at = "done"
      BY <1>1, <3>5, <3>7 DEF WorkerCanGo
    <3>9. blobClosed
      BY <1>1, <3>8 DEF CloserCanGo
    <3>10. assembler = "done" /\ packClosed
      BY <1>1, <3>4, <3>9 DEF AssemblerCanGo, Inv, ChannelsOK
    <3> QED
      BY <1>1, <1>2, <3>7, <3>8, <3>10 DEF UploaderCanGo
  <2> QED
    BY <2>1, <2>2
<1> QED
  BY <1>1, <1>3 DEF CloserCanGo, GroupReturned

-----------------------------------------------------------------------------
(* Theorems                                                                  *)

\* The types of all variables; no channel ever holds more than its capacity.
THEOREM TypeCorrect == Spec => []TypeOK
<1>1. Inv => TypeOK
  BY DEF Inv, Typed
<1> QED
  BY <1>1, InvAlways, PTL

\* blobCh is closed after chunkWG, packCh by its only sender
\* (BackupFiles): no goroutine can panic by sending on a closed channel.
THEOREM NeverSendsOnClosed == Spec => []NoSendOnClosed
<1>1. Inv => NoSendOnClosed
  BY DEF Inv, ChannelsOK, NoSendOnClosed
<1> QED
  BY <1>1, InvAlways, PTL

\* With any number of workers and any capacities, whatever fails or is canceled,
\* no stage waits for ever to send to, or receive from, one that has gone
\* (BackupFiles, send).
THEOREM NeverDeadlocks == Spec => []NeverStuck
<1>1. ASSUME Inv PROVE NeverStuck
  <2>1. SUFFICES ASSUME ~SomeoneCanGo PROVE AllReturned
    BY DEF NeverStuck
  <2>2. GroupReturned /\ blobClosed
    BY <1>1, <2>1, StuckGroupReturned
  <2>3. main \in {"succeeded", "failed"}
    BY <1>1, <2>1, <2>2 DEF Inv, Typed, TypeOK, SomeoneCanGo, MainCanGo
  <2> QED
    BY <2>2, <2>3 DEF AllReturned
<1> QED
  BY <1>1, InvAlways, PTL

\* A manifest is saved only when no send was canceled: every file's chunk list
\* is the whole of one of its versions (BackupFiles).
THEOREM ManifestIsComplete == Spec => []ManifestComplete
<1>1. Inv => ManifestComplete
  BY DEF Inv, ResultOK, ManifestComplete
<1> QED
  BY <1>1, InvAlways, PTL

\* The saved index and the stored packs have every blob of a saved manifest,
\* though flush ignores a send that failed (BackupFiles).
THEOREM ManifestIsStored == Spec => []ManifestStored
<1>1. Inv => ManifestStored
  BY DEF Inv, ResultOK, ManifestStored, ChunksOf
<1> QED
  BY <1>1, InvAlways, PTL

\* However the workers race on a chunk, it is stored in one pack, and in none if
\* the index had it (assembler).
THEOREM EachBlobStoredOnce == Spec => []StoredOnce
<1>1. Inv => StoredOnce
  BY DEF Inv, OnceOK, Disjoint, StoredOnce
<1> QED
  BY <1>1, InvAlways, PTL

\* With one chunk worker no run that read more than Options.MaxBytes succeeds.
THEOREM LimitRespected == Spec => []MaxBytesRespected
<1>1. Inv => MaxBytesRespected
  <2> SUFFICES ASSUME Inv, opts.maxBytes > 0, Cardinality(opts.chunkWorkers) = 1
               PROVE  bytesRead <= opts.maxBytes
    BY DEF MaxBytesRespected
  <2>1. IsFiniteSet(opts.chunkWorkers)
    BY UsedWorkers, WorkersAssumption, FS_Subset DEF Inv, Typed
  <2>2. \E w : opts.chunkWorkers = {w}
    BY <2>1, FS_Singleton
  <2> QED
    BY <2>2 DEF Inv, LimitOK
<1> QED
  BY <1>1, InvAlways, PTL

\* The statistics of a run that succeeds: whatever the workers did at once, each
\* new blob is counted once, every other chunk as deduplicated, every chunk's
\* bytes once, and every stored pack (BackupFiles).
THEOREM StatsAreExact == Spec => []StatsExact
<1>1. Counted => StatsExact
  BY DEF Counted, Reported, StatsExact
<1> QED
  BY <1>1, CountedInit, CountedKept, InvAlways, PTL DEF Spec

-----------------------------------------------------------------------------
(* Refinement                                                                *)

LEMMA IndexIsWritten == Typed => idx # Nothing
BY NothingAssumption DEF Typed, TypeOK

LEMMA NextStep ==
    ASSUME Inv, [Next]_vars
    PROVE  [Order!Next]_<<Indexed \cup UNION packs, savedIndex,
                          IF manifest = Nothing THEN Nothing ELSE ChunksOf(manifest)>>
<1> DEFINE snapshot == IF manifest = Nothing THEN Nothing ELSE ChunksOf(manifest)
<1>1. CASE UNCHANGED <<packs, savedIndex, manifest>>
  BY <1>1 DEF ChunksOf
<1>2. ASSUME NEW u \in UploadWorkers, StorePack(u) PROVE Order!StorePack
  <2>1. main = "wait" /\ savedIndex = Nothing
    BY <1>2 DEF StorePack, UploaderIs, Inv, ChannelsOK, GroupReturned, ResultOK
  <2>2. uploader[u].pack \in SUBSET Blobs
    BY DEF Inv, Typed, TypeOK
  <2>3. packs' = packs \cup {uploader[u].pack} /\ UNCHANGED <<savedIndex, manifest>>
    BY <1>2 DEF StorePack, result
  <2>4. Indexed \cup UNION packs' = (Indexed \cup UNION packs) \cup uploader[u].pack
    BY <2>3
  <2>5. snapshot' = snapshot
    BY <2>3 DEF ChunksOf
  <2> HIDE DEF snapshot
  <2> QED
    BY <2>1, <2>2, <2>3, <2>4, <2>5 DEF Order!StorePack, snapshot
<1>3. CASE SaveIndex
  <2>1. savedIndex = Nothing /\ savedIndex' = idx /\ UNCHANGED <<packs, manifest>>
    BY <1>3 DEF SaveIndex, mainOnly, repo, Inv, ResultOK
  <2>2. idx \in SUBSET (Indexed \cup UNION packs)
    BY DEF Inv, StoredOK
  <2>3. Order!SaveIndex
    BY <2>1, <2>2 DEF Order!SaveIndex, ChunksOf
  <2> QED
    BY <2>3 DEF Order!Next
<1>4. CASE SaveSnapshot
  <2>1. /\ UNCHANGED <<packs, savedIndex>> /\ savedIndex = idx /\ idx # Nothing /\ manifest = Nothing
        /\ ChunksSettled
    BY <1>4, IndexIsWritten DEF SaveSnapshot, mainOnly, repo, Inv, ResultOK
  <2>2. CASE manifest' = Nothing
    BY <1>1, <2>1, <2>2
  <2>3. CASE manifest' # Nothing
    <3>1. ChunksOf(manifest') \in SUBSET savedIndex
      BY <1>4, <2>1 DEF SaveSnapshot, ChunksSettled, ChunksOf
    <3>2. Order!SaveSnapshot
      BY <2>1, <2>3, <3>1 DEF Order!SaveSnapshot
    <3> QED
      BY <3>2 DEF Order!Next
  <2> QED
    BY <2>2, <2>3
<1>5. CASE ~SaveIndex /\ ~SaveSnapshot /\ \A u \in UploadWorkers : ~StorePack(u)
  <2>1. ~BackupFiles => UNCHANGED <<savedIndex, manifest>>
    BY FeederFrame, WorkerFrame, AssemblerFrame, UploaderFrame, CancelFrame, CloserFrame
    DEF Next, vars, result
  <2>2. BackupFiles => UNCHANGED <<savedIndex, manifest>>
    BY <1>5 DEF BackupFiles, Wait, SaveFails
  <2>3. ASSUME NEW u \in UploadWorkers, UploadWorker(u) PROVE UNCHANGED packs
    BY <1>5, <2>3 DEF UploadWorker, TakePack, InsertEntries, CountPack, UploadFails,
                      UploaderReturns, repo
  <2>4. UNCHANGED packs
    BY <2>3, FeederFrame, WorkerFrame, AssemblerFrame, MainFrame, CancelFrame, CloserFrame
    DEF Next, vars, repo
  <2> QED
    BY <1>1, <2>1, <2>2, <2>4
<1> QED
  BY <1>2, <1>3, <1>4, <1>5 DEF Order!Next

\* A run stores packs, then the index over them, then the manifest over the index,
\* as the package comment of repo promises, and may stop after any step.
THEOREM RefinesWriteOrder == Spec => KeepsWriteOrder
<1>1. Init => Order!Init
  <2>1. ASSUME Init PROVE Order!Init
    BY <2>1, OptionsAssumption DEF Init, Order!Init
  <2> QED
    BY <2>1
<1> QED
  BY <1>1, NextStep, InvAlways, PTL DEF Spec, KeepsWriteOrder, Order!Spec

-----------------------------------------------------------------------------
(* Sizes                                                                     *)

\* The walk has seen a version of each file, and the manifest has its size.
SizesSeen ==
    /\ \A f \in Files : \E v \in Versions[f] : sizes[f] = Len(v)
    /\ manifest # Nothing => \A f \in Files : manifest[f].size = sizes[f]

LEMMA SizesKept ==
    ASSUME SizesSeen, [Next]_vars
    PROVE  SizesSeen'
<1>1. UNCHANGED sizes
  BY FeederFrame, WorkerFrame, CloserFrame, AssemblerFrame, UploaderFrame, MainFrame, CancelFrame
  DEF Next, vars, input
<1>2. CASE SaveSnapshot
  BY <1>1, <1>2 DEF SaveSnapshot, SizesSeen
<1>3. CASE ~SaveSnapshot
  <2>1. UNCHANGED manifest
    BY <1>3, FeederFrame, WorkerFrame, CloserFrame, AssemblerFrame, UploaderFrame, CancelFrame
    DEF Next, vars, result, BackupFiles, Wait, SaveIndex, SaveFails
  <2> QED
    BY <1>1, <2>1 DEF SizesSeen
<1> QED
  BY <1>2, <1>3

\* A file may change, but not its length, between the walk and the reads: then the
\* sizes of the manifest are those of its chunks, and restoreOneFile accepts every
\* file.  It is only such a change that a snapshot does not survive.
THEOREM RestorableIfSizesStay ==
    ASSUME \A f \in Files : \A u, v \in Versions[f] : Len(u) = Len(v)
    PROVE  Spec => []ManifestRestorable
<1>1. Init => SizesSeen
  <2> SUFFICES ASSUME Init PROVE SizesSeen
    OBVIOUS
  <2>1. PICK seen \in [Files -> UNION Range(Versions)] :
            /\ \A f \in Files : seen[f] \in Versions[f]
            /\ sizes = [f \in Files |-> Len(seen[f])]
    BY DEF Init
  <2>2. manifest = Nothing
    BY DEF Init
  <2> QED
    BY <2>1, <2>2 DEF SizesSeen
<1>2. SizesSeen /\ [Next]_vars => SizesSeen'
  BY SizesKept
<1>3. Inv /\ SizesSeen => ManifestRestorable
  <2> SUFFICES ASSUME Inv, SizesSeen, manifest # Nothing, NEW f \in Files
               PROVE  manifest[f].size = Len(manifest[f].chunks)
    BY DEF ManifestRestorable
  <2>1. manifest[f].chunks \in Versions[f]
    BY DEF Inv, ResultOK
  <2>2. PICK v \in Versions[f] : manifest[f].size = Len(v)
    BY DEF SizesSeen
  <2> QED
    BY <2>1, <2>2
<1> QED
  BY <1>1, <1>2, <1>3, InvAlways, PTL DEF Spec
=============================================================================
