--------------------------- MODULE BackupPipeline ---------------------------
(***************************************************************************)
(* One call of pipeline.BackupFiles: the goroutines and the channels       *)
(* between them, the group that keeps the first error and cancels the      *)
(* rest, and the writes at the end.                                        *)
(*                                                                         *)
(*   feeder --fileCh--> chunk workers --blobCh--> assembler                *)
(*                                      --packCh--> upload workers         *)
(*                                                                         *)
(* A chunk is its blob ID and counts one byte; a pack is the set of the    *)
(* blobs in it.  A file is read as one of its Versions, since it may       *)
(* change between the walk and the read.  Every channel operation selects  *)
(* on the group's context, so a canceled goroutine may still take the      *)
(* channel's side of the select.                                           *)
(***************************************************************************)
EXTENDS Naturals, Sequences, FiniteSets, Functions

CONSTANTS
    NumFiles,         \* files the walk found, numbered in the manifest's order
    Versions,         \* the chunk sequences each file may be found to hold
    Blobs,            \* the blob IDs of all chunks
    Indexed,          \* the blobs in the index of the repository as opened
    ChunkWorkers, UploadWorkers,
    FileQueue, BlobQueue, PackQueue,  \* the channels' capacities
    PackTarget,       \* blobs at which a pack is full
    OptionSets,       \* the Options a run may be called with
    ReportEvery,      \* files between two calls of Options.Progress, 0 for none
    Faults,           \* what may go wrong: "read", "pack", "store", "cancel"
    Nothing           \* no error, no file, not written

Files == 1..NumFiles

ASSUME NumFilesAssumption == NumFiles \in Nat
ASSUME VersionsAssumption ==
    /\ DOMAIN Versions = Files
    /\ \A f \in Files : Versions[f] \subseteq Seq(Blobs) /\ Versions[f] # {}
ASSUME CapacitiesAssumption ==
    FileQueue \in Nat \ {0} /\ BlobQueue \in Nat \ {0} /\ PackQueue \in Nat \ {0}
ASSUME OptionsAssumption ==
    /\ Indexed \subseteq Blobs
    /\ PackTarget \in Nat \ {0} /\ ReportEvery \in Nat
    /\ OptionSets \subseteq
          [ dryRun : BOOLEAN, maxBytes : Nat,     \* 0 is no limit
            chunkWorkers : (SUBSET ChunkWorkers) \ {{}},
            uploadWorkers : (SUBSET UploadWorkers) \ {{}} ]
    /\ Faults \subseteq {"read", "pack", "store", "cancel"}
ASSUME WorkersAssumption == IsFiniteSet(ChunkWorkers) /\ IsFiniteSet(UploadWorkers)
ASSUME NothingAssumption ==
    Nothing \notin {"chunk", "pack", "upload"} /\ \A B \in SUBSET Blobs : Nothing # B

VARIABLES
    opts,       \* the Options of this run
    canceled,   \* is the caller's context done?
    stopped,    \* is the group's context done?
    err,        \* group.err, the first error
    fed,        \* files the feeder has sent
    fileCh, blobCh, packCh,              \* the channels' buffers
    fileClosed, blobClosed, packClosed,
    worker,     \* each chunk worker: [at, file, todo, ids]
    chunks,     \* backupState.chunks
    filesDone, bytesRead, blobsNew, blobsDeduped, packsWritten,
    assembler,  \* what the assembler does next
    inFlight,   \* the blobs the assembler has claimed for this run
    building,   \* the blobs in the pack under construction
    uploader,   \* each upload worker: [at, pack]
    idx,        \* the blobs r.idx knows
    packs,      \* the packs this run has stored
    sizes,      \* FileEntry.Size, from the walk
    main,       \* what BackupFiles itself does next
    savedIndex, \* the index object this run wrote
    manifest    \* the manifest this run wrote

context == <<canceled, stopped, err>>
input == <<opts, sizes>>
channels == <<fileCh, blobCh, packCh, fileClosed, blobClosed, packClosed>>
counts == <<filesDone, bytesRead, blobsNew, blobsDeduped, packsWritten>>
assembly == <<assembler, inFlight, building>>
repo == <<idx, packs>>
result == <<main, savedIndex, manifest>>
vars == <<context, channels, counts, fed, worker, chunks, assembly, uploader,
          repo, input, result>>

Idle == [at |-> "recv", file |-> Nothing, todo |-> <<>>, ids |-> <<>>]
NoPack == [at |-> "recv", pack |-> {}]

Init ==
    /\ opts \in OptionSets
    /\ canceled = FALSE /\ stopped = FALSE /\ err = Nothing
    /\ fed = 0
    /\ fileCh = <<>> /\ blobCh = <<>> /\ packCh = <<>>
    /\ fileClosed = FALSE /\ blobClosed = FALSE /\ packClosed = FALSE
    /\ worker = [w \in ChunkWorkers |->
                    IF w \in opts.chunkWorkers THEN Idle ELSE [Idle EXCEPT !.at = "done"]]
    /\ chunks = [f \in Files |-> <<>>]
    /\ filesDone = 0 /\ bytesRead = 0
    /\ blobsNew = 0 /\ blobsDeduped = 0 /\ packsWritten = 0
    /\ assembler = "recv" /\ inFlight = {} /\ building = {}
    /\ uploader = [u \in UploadWorkers |->
                    IF u \in opts.uploadWorkers THEN NoPack ELSE [NoPack EXCEPT !.at = "done"]]
    /\ idx = Indexed /\ packs = {}
    /\ \E seen \in [Files -> UNION Range(Versions)] :
          /\ \A f \in Files : seen[f] \in Versions[f]
          /\ sizes = [f \in Files |-> Len(seen[f])]
    /\ main = "wait" /\ savedIndex = Nothing /\ manifest = Nothing

\* A goroutine of the group returns error e: the first one is kept, and the
\* group's context is canceled.
Throw(e) ==
    /\ err' = IF err = Nothing THEN e ELSE err
    /\ stopped' = TRUE
    /\ UNCHANGED canceled

-----------------------------------------------------------------------------
(* Stage 1: the feeder                                                     *)

Feed ==
    /\ ~fileClosed
    /\ fed < NumFiles /\ Len(fileCh) < FileQueue
    /\ fileCh' = Append(fileCh, fed + 1)
    /\ fed' = fed + 1
    /\ UNCHANGED <<context, blobCh, packCh, fileClosed, blobClosed, packClosed,
                   counts, worker, chunks, assembly, uploader, repo, input, result>>

\* Mutant: the feeder sends without selecting on the context.
FeederReturnsAtEnd ==
    /\ ~fileClosed
    /\ fed = NumFiles
    /\ fileClosed' = TRUE
    /\ UNCHANGED <<context, fileCh, blobCh, packCh, blobClosed, packClosed, counts,
                   fed, worker, chunks, assembly, uploader, repo, input, result>>

\* All files are sent, or the send was canceled.
FeederReturns ==
    /\ ~fileClosed
    /\ fed = NumFiles \/ stopped
    /\ fileClosed' = TRUE
    /\ UNCHANGED <<context, fileCh, blobCh, packCh, blobClosed, packClosed, counts,
                   fed, worker, chunks, assembly, uploader, repo, input, result>>

-----------------------------------------------------------------------------
(* Stage 2: the chunk workers                                              *)

WorkerIs(w, l) == worker[w].at = l
SetWorker(w, r) == worker' = [worker EXCEPT ![w] = r]
workersOnly == <<context, channels, counts, fed, chunks, assembly, uploader, repo,
                 input, result>>

\* A worker takes a file and opens it, and will find one of its versions.
TakeFile(w) ==
    /\ WorkerIs(w, "recv") /\ fileCh # <<>>
    /\ fileCh' = Tail(fileCh)
    /\ \E v \in Versions[Head(fileCh)] :
          SetWorker(w, [at |-> "read", file |-> Head(fileCh), todo |-> v, ids |-> <<>>])
    /\ UNCHANGED <<context, blobCh, packCh, fileClosed, blobClosed, packClosed, counts,
                   fed, chunks, assembly, uploader, repo, input, result>>

\* No file is left, or the receive was canceled; chunkWG.Done.
WorkerReturns(w) ==
    /\ WorkerIs(w, "recv")
    /\ (fileClosed /\ fileCh = <<>>) \/ stopped
    /\ SetWorker(w, [Idle EXCEPT !.at = "done"])
    /\ UNCHANGED workersOnly

\* The byte count at the next chunk: the files done, and this one so far.
BytesSeen(w) == bytesRead + Len(worker[w].ids) + 1

\* Mutant: the limit is applied to each file alone.
OverLimitInFile(w) == opts.maxBytes > 0 /\ Len(worker[w].ids) + 1 > opts.maxBytes

OverLimit(w) == opts.maxBytes > 0 /\ BytesSeen(w) > opts.maxBytes

ReadChunk(w) ==
    /\ WorkerIs(w, "read") /\ worker[w].todo # <<>>
    /\ ~OverLimit(w)
    /\ SetWorker(w, [worker[w] EXCEPT !.at = "send",
                                      !.ids = Append(@, Head(worker[w].todo)),
                                      !.todo = Tail(@)])
    /\ UNCHANGED workersOnly

\* Opening fails, also because the context is done; or reading fails, or the
\* limit is passed.  chunkWG.Done runs before the group sees the error.
WorkerFails(w) ==
    /\ WorkerIs(w, "read")
    /\ \/ "read" \in Faults
       \/ stopped /\ worker[w].ids = <<>>
       \/ worker[w].todo # <<>> /\ OverLimit(w)
    /\ SetWorker(w, [Idle EXCEPT !.at = "failing"])
    /\ UNCHANGED workersOnly

WorkerThrows(w) ==
    /\ WorkerIs(w, "failing")
    /\ Throw("chunk")
    /\ SetWorker(w, [Idle EXCEPT !.at = "done"])
    /\ UNCHANGED <<channels, counts, fed, chunks, assembly, uploader, repo, input, result>>

\* Mutant: the channel of chunks has no bound.
SendChunkUnbounded(w) ==
    /\ WorkerIs(w, "send")
    /\ blobCh' = Append(blobCh, worker[w].ids[Len(worker[w].ids)])
    /\ SetWorker(w, [worker[w] EXCEPT !.at = "read"])
    /\ UNCHANGED <<context, fileCh, packCh, fileClosed, blobClosed, packClosed, counts,
                   fed, chunks, assembly, uploader, repo, input, result>>

SendChunk(w) ==
    /\ WorkerIs(w, "send") /\ Len(blobCh) < BlobQueue
    /\ blobCh' = Append(blobCh, worker[w].ids[Len(worker[w].ids)])
    /\ SetWorker(w, [worker[w] EXCEPT !.at = "read"])
    /\ UNCHANGED <<context, fileCh, packCh, fileClosed, blobClosed, packClosed, counts,
                   fed, chunks, assembly, uploader, repo, input, result>>

\* The file is recorded with the chunk list ids and n bytes; every ReportEvery
\* files the worker goes on to call Progress.
FileDone(w, ids, n) ==
    /\ chunks' = [chunks EXCEPT ![worker[w].file] = ids]
    /\ filesDone' = filesDone + 1
    /\ bytesRead' = bytesRead + n
    /\ SetWorker(w, [Idle EXCEPT !.at =
          IF ReportEvery > 0 /\ filesDone' % ReportEvery = 0 THEN "report" ELSE "recv"])
    /\ UNCHANGED <<context, channels, fed, blobsNew, blobsDeduped, packsWritten,
                   assembly, uploader, repo, input, result>>

EndOfFile(w) ==
    /\ WorkerIs(w, "read") /\ worker[w].todo = <<>>
    /\ FileDone(w, worker[w].ids, Len(worker[w].ids))

\* A canceled send ends the file as a success with no chunks.
SendCanceled(w) ==
    /\ WorkerIs(w, "send") /\ stopped
    /\ FileDone(w, <<>>, 0)

ProgressReturns(w) ==
    /\ WorkerIs(w, "report")
    /\ SetWorker(w, Idle)
    /\ UNCHANGED workersOnly

\* Mutant: one worker that has returned is enough to close blobCh.
CloseBlobChEarly ==
    /\ ~blobClosed
    /\ \E w \in ChunkWorkers : worker[w].at \in {"failing", "done"}
    /\ blobClosed' = TRUE
    /\ UNCHANGED <<context, fileCh, blobCh, packCh, fileClosed, packClosed, counts, fed,
                   worker, chunks, assembly, uploader, repo, input, result>>

\* The goroutine that waits for chunkWG.
CloseBlobCh ==
    /\ ~blobClosed
    /\ \A w \in ChunkWorkers : worker[w].at \in {"failing", "done"}
    /\ blobClosed' = TRUE
    /\ UNCHANGED <<context, fileCh, blobCh, packCh, fileClosed, packClosed, counts, fed,
                   worker, chunks, assembly, uploader, repo, input, result>>

-----------------------------------------------------------------------------
(* Stage 3: the assembler                                                  *)

assemblyOnly == <<context, fileCh, packCh, fileClosed, blobClosed, packClosed, fed, worker,
                  filesDone, bytesRead, packsWritten, chunks, uploader, repo, input, result>>

\* Mutant: the assembler asks the index only, which knows a pack once it is stored.
DuplicateInIndex(b) == b \in idx

Duplicate(b) == b \in inFlight \/ b \in idx

SkipBlob ==
    /\ assembler = "recv" /\ blobCh # <<>>
    /\ Duplicate(Head(blobCh))
    /\ blobCh' = Tail(blobCh)
    /\ blobsDeduped' = blobsDeduped + 1
    /\ UNCHANGED <<blobsNew, assembly, assemblyOnly>>

AddBlob ==
    /\ assembler = "recv" /\ blobCh # <<>>
    /\ ~Duplicate(Head(blobCh))
    /\ blobCh' = Tail(blobCh)
    /\ inFlight' = inFlight \cup {Head(blobCh)}
    /\ building' = building \cup {Head(blobCh)}
    /\ blobsNew' = blobsNew + 1
    /\ assembler' = IF Cardinality(building') >= PackTarget THEN "full" ELSE "recv"
    /\ UNCHANGED <<blobsDeduped, assemblyOnly>>

\* flush is due: the pack is full; or blobCh is closed and drained, and it is the last.
FlushDue ==
    \/ assembler = "full"
    \/ assembler = "recv" /\ blobClosed /\ blobCh = <<>> /\ building # {}

\* The pack gets its header, and is next to be sent.
FinishPack ==
    /\ FlushDue
    /\ assembler' = IF assembler = "full" THEN "flush" ELSE "lastFlush"
    /\ UNCHANGED <<blobCh, blobsNew, blobsDeduped, inFlight, building, assemblyOnly>>

\* A pack is sent to the uploaders; after the last one packCh is closed.
SendPack ==
    /\ assembler \in {"flush", "lastFlush"} /\ Len(packCh) < PackQueue
    /\ packCh' = Append(packCh, building)
    /\ building' = {}
    /\ assembler' = IF assembler = "flush" THEN "recv" ELSE "done"
    /\ packClosed' = (assembler = "lastFlush")
    /\ UNCHANGED <<context, fileCh, blobCh, fileClosed, blobClosed, counts, fed, worker,
                   chunks, inFlight, uploader, repo, input, result>>

\* A canceled send drops the pack, and flush still returns no error.
DropPack ==
    /\ assembler \in {"flush", "lastFlush"} /\ stopped
    /\ building' = {}
    /\ assembler' = IF assembler = "flush" THEN "recv" ELSE "done"
    /\ packClosed' = (assembler = "lastFlush")
    /\ UNCHANGED <<context, fileCh, blobCh, packCh, fileClosed, blobClosed, counts, fed,
                   worker, chunks, inFlight, uploader, repo, input, result>>

\* The pack writer refuses a blob, which has been claimed by then.  packCh is
\* closed before the group sees the error.
AddFails ==
    /\ "pack" \in Faults
    /\ assembler = "recv" /\ blobCh # <<>>
    /\ ~Duplicate(Head(blobCh))
    /\ blobCh' = Tail(blobCh)
    /\ inFlight' = inFlight \cup {Head(blobCh)}
    /\ assembler' = "failing"
    /\ packClosed' = TRUE
    /\ UNCHANGED <<context, fileCh, packCh, fileClosed, blobClosed, counts, fed, worker,
                   chunks, building, uploader, repo, input, result>>

\* A pack cannot be finished: its header is too long.
FinishFails ==
    /\ "pack" \in Faults
    /\ FlushDue
    /\ assembler' = "failing"
    /\ packClosed' = TRUE
    /\ UNCHANGED <<context, fileCh, blobCh, packCh, fileClosed, blobClosed, counts, fed, worker,
                   chunks, inFlight, building, uploader, repo, input, result>>

\* Mutant: the assembler's error is lost.
AssemblerEnds ==
    /\ assembler = "failing"
    /\ assembler' = "done"
    /\ UNCHANGED <<context, channels, counts, fed, worker, chunks, inFlight, building, uploader,
                   repo, input, result>>

AssemblerThrows ==
    /\ assembler = "failing"
    /\ Throw("pack")
    /\ assembler' = "done"
    /\ UNCHANGED <<channels, counts, fed, worker, chunks, inFlight, building, uploader, repo,
                   input, result>>

AssemblerReturns ==
    /\ assembler = "recv"
    /\ (blobClosed /\ blobCh = <<>> /\ building = {}) \/ stopped
    /\ assembler' = "done"
    /\ packClosed' = TRUE
    /\ UNCHANGED <<context, fileCh, blobCh, packCh, fileClosed, blobClosed, counts, fed, worker,
                   chunks, inFlight, building, uploader, repo, input, result>>

-----------------------------------------------------------------------------
(* Stage 4: the upload workers                                             *)

UploaderIs(u, l) == uploader[u].at = l

TakePack(u) ==
    /\ UploaderIs(u, "recv") /\ packCh # <<>>
    /\ packCh' = Tail(packCh)
    /\ uploader' = [uploader EXCEPT ![u] =
          [at |-> IF opts.dryRun THEN "count" ELSE "put", pack |-> Head(packCh)]]
    /\ UNCHANGED <<context, fileCh, blobCh, fileClosed, blobClosed, packClosed, counts, fed,
                   worker, chunks, assembly, repo, input, result>>

\* PutPack stores the object, then inserts its entries.
StorePack(u) ==
    /\ UploaderIs(u, "put")
    /\ packs' = packs \cup {uploader[u].pack}
    /\ uploader' = [uploader EXCEPT ![u].at = "insert"]
    /\ UNCHANGED <<context, channels, counts, fed, worker, chunks, assembly, idx, input, result>>

InsertEntries(u) ==
    /\ UploaderIs(u, "insert")
    /\ idx' = idx \cup uploader[u].pack
    /\ uploader' = [uploader EXCEPT ![u].at = "count"]
    /\ UNCHANGED <<context, channels, counts, fed, worker, chunks, assembly, packs, input, result>>

CountPack(u) ==
    /\ UploaderIs(u, "count")
    /\ packsWritten' = packsWritten + 1
    /\ uploader' = [uploader EXCEPT ![u] = NoPack]
    /\ UNCHANGED <<context, channels, filesDone, bytesRead, blobsNew, blobsDeduped, fed, worker,
                   chunks, assembly, repo, input, result>>

\* Mutant: the error of a failed upload is lost.
UploadFailsSilently(u) ==
    /\ UploaderIs(u, "put")
    /\ "store" \in Faults \/ stopped
    /\ uploader' = [uploader EXCEPT ![u] = [at |-> "done", pack |-> {}]]
    /\ UNCHANGED <<context, channels, counts, fed, worker, chunks, assembly, repo, input, result>>

\* The store refuses the write, or finds its context done.
UploadFails(u) ==
    /\ UploaderIs(u, "put")
    /\ "store" \in Faults \/ stopped
    /\ Throw("upload")
    /\ uploader' = [uploader EXCEPT ![u] = [at |-> "done", pack |-> {}]]
    /\ UNCHANGED <<channels, counts, fed, worker, chunks, assembly, repo, input, result>>

UploaderReturns(u) ==
    /\ UploaderIs(u, "recv")
    /\ (packClosed /\ packCh = <<>>) \/ stopped
    /\ uploader' = [uploader EXCEPT ![u].at = "done"]
    /\ UNCHANGED <<context, channels, counts, fed, worker, chunks, assembly, repo, input, result>>

-----------------------------------------------------------------------------
(* BackupFiles: waiting for the group, then the index and the manifest     *)

\* Mutant: the uploaders are not in the group.
GroupWithoutUploaders ==
    /\ fileClosed
    /\ \A w \in ChunkWorkers : worker[w].at = "done"
    /\ assembler = "done"

GroupReturned ==
    /\ fileClosed
    /\ \A w \in ChunkWorkers : worker[w].at = "done"
    /\ assembler = "done"
    /\ \A u \in UploadWorkers : uploader[u].at = "done"

mainOnly == <<canceled, err, channels, counts, fed, worker, chunks, assembly, uploader,
              repo, input>>

\* Mutant: a canceled run without an error goes on.
WaitIgnoringCancel ==
    /\ main = "wait" /\ GroupReturned
    /\ stopped' = TRUE
    /\ main' = IF err # Nothing THEN "failed" ELSE "saveIndex"
    /\ UNCHANGED <<savedIndex, manifest, mainOnly>>

\* g.Wait returns; the run goes on if there was no error and no cancellation.
Wait ==
    /\ main = "wait" /\ GroupReturned
    /\ stopped' = TRUE
    /\ main' = IF err # Nothing \/ canceled THEN "failed"
               ELSE IF opts.dryRun THEN "succeeded" ELSE "saveIndex"
    /\ UNCHANGED <<savedIndex, manifest, mainOnly>>

SaveIndex ==
    /\ main = "saveIndex"
    /\ savedIndex' = idx
    /\ main' = "saveSnapshot"
    /\ UNCHANGED <<stopped, manifest, mainOnly>>

\* The manifest built from the walk and the chunk lists.
SaveSnapshot ==
    /\ main = "saveSnapshot"
    /\ manifest' = [f \in Files |-> [size |-> sizes[f], chunks |-> chunks[f]]]
    /\ main' = "succeeded"
    /\ UNCHANGED <<stopped, savedIndex, mainOnly>>

SaveFails ==
    /\ main \in {"saveIndex", "saveSnapshot"}
    /\ "store" \in Faults \/ canceled
    /\ main' = "failed"
    /\ UNCHANGED <<stopped, savedIndex, manifest, mainOnly>>

\* The user interrupts the run: both contexts are done.
Cancel ==
    /\ "cancel" \in Faults
    /\ ~canceled /\ main \notin {"succeeded", "failed"}
    /\ canceled' = TRUE /\ stopped' = TRUE
    /\ UNCHANGED <<err, channels, counts, fed, worker, chunks, assembly, uploader, repo,
                   input, result>>

-----------------------------------------------------------------------------
Feeder == Feed \/ FeederReturns

ChunkWorker(w) ==
    \/ TakeFile(w) \/ ReadChunk(w) \/ SendChunk(w) \/ EndOfFile(w) \/ ProgressReturns(w)
    \/ WorkerReturns(w) \/ SendCanceled(w) \/ WorkerFails(w) \/ WorkerThrows(w)

Assembler ==
    \/ SkipBlob \/ AddBlob \/ SendPack \/ FinishPack \/ DropPack \/ AssemblerReturns
    \/ AddFails \/ FinishFails \/ AssemblerThrows

UploadWorker(u) ==
    \/ TakePack(u) \/ StorePack(u) \/ InsertEntries(u) \/ CountPack(u)
    \/ UploadFails(u) \/ UploaderReturns(u)

BackupFiles == Wait \/ SaveIndex \/ SaveSnapshot \/ SaveFails

\* Every goroutine has returned, the closer of blobCh among them.
AllReturned == main \in {"succeeded", "failed"} /\ GroupReturned /\ blobClosed

Next ==
    \/ Feeder
    \/ \E w \in ChunkWorkers : ChunkWorker(w)
    \/ CloseBlobCh
    \/ Assembler
    \/ \E u \in UploadWorkers : UploadWorker(u)
    \/ BackupFiles
    \/ Cancel
    \/ AllReturned /\ UNCHANGED vars

\* The Go scheduler lets every goroutine that can run do so, and every call of
\* the source and the store returns; neither says which way a select goes.
Fairness ==
    /\ WF_vars(Feeder)
    /\ \A w \in ChunkWorkers : WF_vars(ChunkWorker(w))
    /\ WF_vars(CloseBlobCh)
    /\ WF_vars(Assembler)
    /\ \A u \in UploadWorkers : WF_vars(UploadWorker(u))
    /\ WF_vars(BackupFiles)

Spec == Init /\ [][Next]_vars /\ Fairness

-----------------------------------------------------------------------------
(* Properties                                                              *)

TypeOK ==
    /\ opts \in OptionSets
    /\ canceled \in BOOLEAN /\ stopped \in BOOLEAN
    /\ err \in {Nothing, "chunk", "pack", "upload"}
    /\ fed \in 0..NumFiles
    /\ fileCh \in Seq(Files) /\ Len(fileCh) <= FileQueue
    /\ blobCh \in Seq(Blobs) /\ Len(blobCh) <= BlobQueue
    /\ packCh \in Seq(SUBSET Blobs) /\ Len(packCh) <= PackQueue
    /\ {fileClosed, blobClosed, packClosed} \subseteq BOOLEAN
    /\ worker \in [ChunkWorkers -> [
          at : {"recv", "read", "send", "failing", "report", "done"},
          file : Files \cup {Nothing}, todo : Seq(Blobs), ids : Seq(Blobs)]]
    /\ chunks \in [Files -> Seq(Blobs)]
    /\ {filesDone, bytesRead, blobsNew, blobsDeduped, packsWritten} \subseteq Nat
    /\ assembler \in {"recv", "full", "flush", "lastFlush", "failing", "done"}
    /\ inFlight \subseteq Blobs /\ building \subseteq inFlight
    /\ uploader \in [UploadWorkers -> [
          at : {"recv", "put", "insert", "count", "done"}, pack : SUBSET Blobs]]
    /\ idx \subseteq Blobs /\ packs \subseteq SUBSET Blobs
    /\ sizes \in [Files -> Nat]
    /\ main \in {"wait", "saveIndex", "saveSnapshot", "succeeded", "failed"}

ChunksOf(m) == UNION {Range(m[f].chunks) : f \in Files}

\* A manifest lists every file whole: a canceled send, which ends a file as a
\* success without chunks, never reaches a manifest that is saved.
ManifestComplete ==
    manifest # Nothing => \A f \in Files : manifest[f].chunks \in Versions[f]

\* Every blob of a saved manifest is in the saved index and in a pack, though
\* flush ignores a send that failed, a pack may turn out not to be one, and
\* the workers race on every chunk.
ManifestStored ==
    manifest # Nothing =>
        ChunksOf(manifest) \subseteq savedIndex \cap (Indexed \cup UNION packs)

\* No send finds its channel closed, which would panic: the set of senders has
\* finished before the channel is closed.
NoSendOnClosed ==
    /\ blobClosed => \A w \in ChunkWorkers : worker[w].at \notin {"read", "send"}
    /\ packClosed => assembler \in {"failing", "done"}

\* Two workers may find the same new chunk at once; it is still stored once,
\* in one pack, and never if the index had it (the single assembler).
StoredOnce ==
    \A P, Q \in packs : P \cap Indexed = {} /\ (P # Q => P \cap Q = {})

\* A run that succeeds, dry or not, reports exactly what it did: each new blob
\* counted once, every other chunk as deduplicated, every pack as written.
StatsExact ==
    main = "succeeded" =>
        LET lists == {x \in Files \X (1..bytesRead) : x[2] <= Len(chunks[x[1]])}
            found == {chunks[x[1]][x[2]] : x \in lists}
        IN  /\ blobsNew = Cardinality(found \ Indexed)
            /\ blobsNew + blobsDeduped = Cardinality(lists)
            /\ bytesRead = Cardinality(lists)
            /\ ~opts.dryRun => packsWritten = Cardinality(packs)

\* The run ends, and no goroutine is left behind: whatever fails or is
\* canceled, no send or receive waits for a stage that has gone.
Terminates == <>AllReturned

\* The limit of Options.MaxBytes: with one chunk worker, a run that has read more
\* does not succeed.  (A worker does not see what the others read of their files.)
MaxBytesRespected ==
    main = "succeeded" /\ opts.maxBytes > 0 /\ Cardinality(opts.chunkWorkers) = 1 =>
        bytesRead <= opts.maxBytes

\* The sizes in a saved manifest are those of the chunks it lists, as restore
\* demands of every file (restoreOneFile).
ManifestRestorable ==
    manifest # Nothing => \A f \in Files : manifest[f].size = Len(manifest[f].chunks)

\* The run keeps the write ordering: packs, then the index, then the manifest.
Order == INSTANCE WriteOrder WITH
    Unwritten <- Nothing,
    stored <- Indexed \cup UNION packs,
    indexed <- savedIndex,
    snapshot <- IF manifest = Nothing THEN Nothing ELSE ChunksOf(manifest)

KeepsWriteOrder == Order!Spec
=============================================================================
