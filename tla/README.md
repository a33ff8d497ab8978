# Verification of distbackup

TLA+ models of distbackup (`src/`), checked with TLC, and theorems about them proved with TLAPS.
This file says what the system consists of, which module models which part and how, what every check
shows and within which bounds, what is proved and from what, and what is left out.

## 1. The system

distbackup backs up file trees into a repository: chunks of files become *blobs*, named by their
SHA-256; blobs are collected in *packs*, whose header is at their end; an *index object* maps blobs
to packs; a *snapshot* is a manifest that lists the blobs of every file. All of these are objects in
an object store.

| Component | Source | State | Operations | Properties that make it correct |
|---|---|---|---|---|
| Repository | `internal/repo/{repo,config,snapshot}.go` | objects `config`, `packs/**`, `index/index`, `snapshots/**`; in memory `r.idx` | Create, Open (LoadIndex or RebuildIndex), PutPack, SaveIndex, SaveSnapshot, ListSnapshots, GetBlob | no snapshot references a blob that is not in a stored pack; an opened index finds every blob of every snapshot; the config is written once |
| Verify and gc | `internal/repo/verify.go` | pack listing, report, orphans to delete | Verify, CollectGarbage | gc deletes nothing a snapshot needs, leaves no garbage, refuses a damaged repository; no false alarm |
| Backup pipeline | `internal/pipeline/{backup,group}.go` | goroutines, three channels, counters, the group's first error and context | BackupFiles | each new blob stored once; manifests complete; write ordering; no deadlock, leak or send on a closed channel; exact statistics; the byte limit |
| Restore pipeline | `internal/pipeline/restore.go` | files being written | RestoreFiles | exact bytes or failure; no partial file left |
| Store contract | `internal/store/store.go` | keys to objects | Put, PutIfAbsent, Delete, List, Get, Stat | calls are atomic, `created` is told to the creator only, what is stored is durable |
| Local store | `internal/store/localfs` | directory entries, temporary files, what is synced | the same, by temp file, fsync, rename or link, fsync of the directory | whole objects only, also after a power loss; the contract |
| S3 store, retry | `internal/store/s3/s3.go`, `internal/retry` | requests, attempts | the same, over HTTP with conditional writes, pages and backoff | lost responses and conflicts never make a caller believe what is not so; every call ends; listings are complete |
| Index | `internal/index` | 256 locked shards | Insert, Lookup, WriteTo, ReadFrom | first location wins; a save and load round trip, shard by shard; corruption detected |
| Pack format | `internal/pack` | writer: entries and offset | Add, Finish, ParseTail | entries locate the bytes added; a tail too short is told from corruption |
| Chunker | `internal/chunker` | window, hash | Next | chunks concatenate to the input, within the size bounds |
| EBS source | `internal/source/ebs` | per call: page token, place in the listing, attempts; the service's tokens and their lifetimes | Size, ListBlocks, ListChangedBlocks, ReadBlock | every written block once, in order, across short and empty pages; a read is exact or fails; every response body is closed; every call ends |
| File tree source | `internal/source/localfs` | none | Walk, Open | every regular file once, in order |
| Commands | `cmd/distbackup` | signal context | init, backup, restore, snapshots, verify, gc | a canceled command writes no snapshot |
| blob, errs | `internal/blob`, `internal/errs` | none | pure functions | |

How they interact. A command opens a store and a repository, and calls one of the two pipelines,
Verify or CollectGarbage. The pipeline's goroutines share `r.idx` (its lookups by the assembler, its
insertions by the upload workers) and the store. Processes share the store only: nothing locks the
repository. The signal handler cancels one context, which every channel operation and every retry
loop selects on.

What is hard: several goroutines around three bounded channels, each of which may fail; crashes
between any two writes, and the commands that run on what is left; an index object that may be
stale; several processes on one repository; power loss in the middle of the local store's system
calls; lost S3 responses and the retries after them; paged listings whose tokens expire, and which
invalidate each other's. PROJECT.json lists these hazards at their lines, with the properties that
would catch them.

## 2. Modules

| Module | Models | Uses |
|---|---|---|
| `Vault` | abstract: what a repository promises about data and manifests | |
| `WriteOrder` | abstract: the order of writes of one backup run (the comment at the head of `repo.go`) | |
| `ObjectStore` | abstract: the contract of `store.ObjectStore` | |
| `Repository` | commands of several processes on one repository | refines `Vault` |
| `RepositoryProofs` | theorems about `Repository` | |
| `BackupPipeline` | the goroutines of one `BackupFiles` | refines `WriteOrder` |
| `BackupPipelineProofs` | theorems about `BackupPipeline` | |
| `Restore` | the goroutines of one `RestoreFiles` and the files they write | |
| `RestoreProofs` | theorems about `Restore` | |
| `LocalStore` | the system calls of the filesystem store | refines `ObjectStore` |
| `LocalStoreProofs` | theorems about `LocalStore` | |
| `S3Store` | the S3 store, its retries and the service | refines `ObjectStore` |
| `S3StoreProofs` | theorems about `S3Store` | |
| `BlockListing` | abstract: what a source promises of one listing | |
| `EBSService` | the EBS direct APIs: pages, tokens, refusals, responses | |
| `EBSSource` | the EBS source's calls, their retries and concurrent callers | extends `EBSService`, refines `BlockListing` |
| `EBSSourceProofs` | theorems about `EBSSource` | |
| `Chunker` | one chunker, from reads to chunks | |
| `ChunkerProofs` | theorems about `Chunker` | |
| `PackFile` | the pack format: its writer, and what finds the header again | |
| `IndexFile` | the index and the object it is saved as | |
| `DataPath` | the bytes of files through chunker, packs, index and back, with damage in between | extends `Chunker`, `PackFile`, `IndexFile` |
| `DataPathProofs` | theorems about `DataPath`, `PackFile` and `IndexFile` | uses `ChunkerProofs` |
| `MC*` | the constants of TLC's instances | |

The layers fit as follows: `Repository` takes each write to the store as one atomic, durable step.
`ObjectStore` states this, and `LocalStore` and `S3Store` implement it with the exceptions described
below. `EBSSource` stands beside them: no command reaches it yet. `Repository` takes the upload of a
backup's packs, in any order and each followed by its insertion in the index, as steps of one
process and then saves index and manifest; `BackupPipeline` shows that the goroutines do just that.
In all of these a blob is its ID; `DataPath` is about the bytes.

### Repository

State and code: `packs`, `index`, `snapshots`, `config` are the objects under the keys of `repo.go`;
`idx[p]` is `r.idx` of process `p`; `pc[p]` is where its command has got to; `source`, `queue` and
`listing` are the local state of a backup or of Verify, gc and RebuildIndex. Actions are named for
the functions they translate. Data is identity: a blob is its ID, a pack is its ID, and the constant
`Contents` gives the blobs in its header. An index entry is a pack, since the pack's address fixes
offset and length.

- `LoadIndex` and `RebuildOnOpen` are the two outcomes of `Open`. A rebuild lists the packs and
  reads them one by one (`RebuildPack`), in any order, while others write.
- `BackupFiles` decides what to pack. The choice depends on the index as it was opened and on what
  the run has claimed, so it is one step; the uploads are steps of their own.
- `ListPacks` and the report are two steps, because Verify lists the packs, then the snapshots, and
  resolves both through an index loaded before.
- `Fail` stops a process anywhere; the constant `GCInterrupted` says whether also between gc's first
  deletion and its last write.
- `LoseIndex` deletes or damages the index object.

`Vault` has the blobs stored and the manifests committed: a manifest is committed only over stored
blobs, and what is reclaimed is in no manifest. The mapping is `stored <- Stored(packs)`, `committed
<- snapshots`.

### BackupPipeline

One variable per channel, per group of counters, per goroutine. A chunk is its blob ID and counts
one byte. `Versions[f]` is the set of contents file `f` may be found with, and the size in the
manifest comes from one of them, the chunks from maybe another: the walk and the read are different
moments. Where the code selects between a channel and the context, the model has an action for
either side, so a canceled goroutine may still take the channel. `WorkerFails` and `WorkerThrows`
are two steps because `chunkWG.Done` runs (deferred) before the group records the error. The options
of a run (dry, `MaxBytes`, how many of the workers) are chosen in `Init`. A `Progress` callback is
two steps, begin and end, outside the lock, as in the code, so two may overlap. The assembler's own
errors are `AddFails` (the pack writer refuses a blob) and `FinishFails` (a header too long), which
stands beside `FinishPack`: a pack is finished before it is sent, so a send that blocks can fail no
more; `AssemblerThrows` is a step of its own, because `packCh` is closed (deferred) before the group
records the error. `WriteOrder` is refined with the blobs in packs, in the saved index and in the
manifest.

### Restore

`disk[f]` is what file `f` of the manifest holds under the target: nothing, a file that somebody
else wrote (before the restore or while it runs), or the chunks written so far, of which the last
may be `Torn`. The workers' steps are the system calls and the reads of blobs. `GetBlob` verifies
what it reads, so it returns the blob or fails. The snapshot and `Overwrite` are chosen in `Init`.
`restoreOneFile` removes the file after every failure but that of the close (`restore.go:202`), and
drops the error of `os.Remove` (`restore.go:198`, `207`): `RemoveFails`. Either way a file may stay
that is not what the manifest says; the worker is done, and is recorded as having left it
(`LeftBehind`). `Displace` is another program that removes or replaces the file a worker is writing:
the worker's handle stays good, what it writes is lost with the old file, and `Remove`, which goes
by the path, takes whatever is there. `displaced` is history, for the properties.

### LocalStore

`entry[k]` is the file a key names now, `onDisk[k]` the files it may name after a power loss;
`SyncDir` makes the two agree for one directory. A file may come back torn unless it was synced. A
directory that `MkdirAll` has made is `"new"`: its own name may be lost. Temporary files left by a
kill are invisible to List and are not modelled further. `WithoutFsync` is the constant `Fsync`.

### S3Store

The service is that of `fake.go` (`Stored`, `PutObject`, `DeleteObject`, the pages of
`ListObjects`), with a choice of faults at each request in place of the fake's plans for them; what
only a remote service does, to lose a response, is marked external. It acts on a request at one
moment. Its response may be lost, whereupon the client retries, although the request has been acted
on. A 409 may come whenever another write to the key is under way. A page of a listing holds the
objects in a range of keys, and may be empty. Named assumption: a request is over when its client
has a response or an error, none acts later. `ObjectStore` lets a call take effect again (a retry)
and then answer `exists` for an object it created itself. That is what the S3 store does when the
response to a successful conditional write is lost. `PutPack` and `SaveSnapshot` treat both answers
alike; `writeConfig` (`config.go:110-117`) would report that a repository already exists.

### EBSService and EBSSource

`EBSService` is the service of `fake.go` behind what `awsclient.go` makes of its answers. A page
token is where the next page starts and when it was issued, a block token its block and the
*generation* of listings it belongs to: under the strict reading of Q-001 (`InvalidateOnRelist`) a
fresh listing kills the tokens of the ones before. `Refusal` is why a request for a block is
refused, `RefusedAs` how that is reported: a superseded token is invalid, one past its time is
expired to the fake and, behind `AWSClient`, invalid (the service says it with a
ValidationException, `awsclient.go:231-238`). `ExpiredKinds` has the two, and the instance takes
both. A listing may lack the tokens of some blocks (`Bare`, `MayOmitTokens`; `awsclient.go:96`,
`143` make an empty string of a missing one). `Classify` is the table from exceptions to kinds of
errors; a response may lack its length, its checksum or its body, or have a body that was altered or
cut off.

`EBSSource` has one record per goroutine, its call: `op` is the method, `at` the place in it,
`since` is `listedAt`, `last` is `lastIndex`. `RequestFails` and `RequestCanceled` are the attempts
of `retry.Do` that fail, one action each for what the service answers is the one that succeeds.
`HandBlock` runs the caller's function, which keeps the reference for reads that come later or from
another goroutine; before it, it checks the order of the blocks, and for `ListChangedBlocks` that
the block has its token (`ebs.go:251-254`). `ListBlocks` hands out a reference without one, which
`ReadBlock` refuses before it asks the service (`BeginInvalid`). `ReadBody` is `readOnce` from the
response to the deferred close. `BlockListing` is refined by every call at once: `handed` is what
the function was called with.

### Chunker, PackFile, IndexFile and DataPath

`Chunker` has the code's `buf[pos:end]` as the sequence `buf`, `c.err` as `err`, `c.offset` as
`offset`. A read is one step: it may return any part of what is left, and with it the end of the
stream or an error. `fill` reads until it has a whole window of `MaxSize` bytes or there is nothing
to read, hence `Filling`; `ReturnChunk` cuts the window where `Boundary` says, and `Boundary` is the
code's scan with its rolling hash (`% 2^(MaskHi + 1)` for the width of a `uint64`), its skipped
minimum and its two masks. `Gear`, the masks' bits and the sizes are constants.

`PackFile` and `IndexFile` have no state: they are the writer and the readers of the two formats.
What goes over all of an index (`Len`, `WriteTo`) takes one shard after the other, each under its
own lock, and an `Insert` may come in between; `DataPath` counts and writes shard by shard, and
`IndexRecovered` shows that the saved object is nevertheless the index of one moment, because the
group has been waited for. A pack is a sequence of cells, each with its kind: one for each byte of a
blob, `EntryCells` for each entry of the header, one for the header's length, one for the magic.
`GetRange` is the local store's (`localfs.go:126-153`); that of S3 differs behind the end of an
object, where `ReadPackHeader` and `GetBlob` do not read (section 3). `ParseTail` and
`ReadPackHeader` translate the code's tests in their order; a header whose JSON has been cut decodes
no more. A blob is its ID here too, the hash having no collisions, but blobs are sequences of bytes.

`DataPath` has one chunk worker and the assembler; packs may be uploaded in any order. When the
index has been saved, a failing disk (external) may remove, cut or change the index object or a
pack, and a second process opens the repository and restores. `LoadIndex` and `RebuildIndex` are the
two outcomes of `Open`. `DamageIndex` changes what `ReadFrom` looks at, `DamageRecord` one of the
records, which it does not.

## 3. What the runs check

Deadlock is checked in the pipeline, restore, data path, EBS and store runs; the step that changes
nothing is where they may stop: the pipeline's `AllReturned`, `Restore` once the call has returned,
`AllCallsMade` of `EBSSource`, and `Stop` of `DataPath` when everything is read back or the command
has failed. In the repository runs it is switched off: processes end, and the instance's packs may
be used up.

| Run | Instance | Shows |
|---|---|---|
| `repository` | 2 blobs, 3 packs (`{a,b}`, `{b}`, `{a}`), 2 source trees; one process with every command, beside a verify | `TypeOK`, `SnapshotsResolve`, `AlarmMeansLoss`, `GCReclaimsGarbage`, `ImplementsVault` |
| `repository_writers` | the same, two processes that back up and verify | `SnapshotDataPresent`, `SkippedBlobsStored`: overlapping backups lose no data |
| `gc_interrupted` | one process, gc may be interrupted | **violates** `SnapshotDataPresent` |
| `pipeline` | 2 files that share a chunk, one of which may change, one chunk known to the index, channels of 1, packs of 2, a progress report every 2 files; as a run with 2 chunk workers and 1 uploader, with 1 and 2, and as a dry run with `MaxBytes` 4; reads, the pack writer, writes and the user's cancel fail or stop it anywhere | `TypeOK`, `StoredOnce`, `StatsExact`, `NoSendOnClosed`, `ManifestComplete`, `ManifestStored`, `MaxBytesRespected`, `KeepsWriteOrder`, `Terminates` |
| `file_changes` | files that change length | **violates** `ManifestRestorable` |
| `restore` | two snapshots of 2 and 3 files (shared chunk, empty file, a size that is wrong), 2 workers, with and without `Overwrite`, any files there before; opens, reads, writes, closes and removals fail, the user cancels, other programs make, take and replace files | `TypeOK`, `WholeOrNothing`, `SuccessIsComplete`, `SparesOthersFiles`, `Returns` |
| `data_path` | 2 byte values, sizes 1, 2 and 4, masks of up to 2 bits; three trees (a file and a part of it behind two other bytes; an empty file; three tiny files, whose header is too long); packs of 4 bytes; an index of 2 shards; an index of more than 3 entries is too large for a reader; at most one damage to the index object and one to a pack; a read may fail | `ChunkerTypeOK`, `EveryByteOnce`, `SizesBounded`, `ContentDefined`, `RestoredExactly`, `IndexRecovered`, `PacksSuffice` |
| `local_store` | 2 callers, 2 keys in one existing directory, 2 values | `ImplementsStore` |
| `not_durable` | the directory does not exist yet | **violates** `StoredIsDurable` |
| `s3_store` | 2 callers on 2 keys, a lister, 2 attempts, all faults | `ImplementsStore`, `CallsEnd`, `ListComplete` |
| `ebs` | blocks 0 and 3, a block a page, the first page of one listing empty; a goroutine that lists beside one that reads and asks for the size, 3 calls in all, 2 attempts; page tokens live less long than block tokens; expired tokens reported either way; block 3 may come without its token; the strict reading of Q-001; a retried and a final exception; responses with one thing wrong, or with neither length nor checksum | `TypeOK`, `NoFalseAlarm`, `RefusedForCause`, `ReadsExact`, `BodiesClosed`, `ListingsComplete`, `CallsEnd` |
| `size_relists` | the same blocks and lifetimes; a goroutine that lists and reads beside one that asks for the size; no faults | **violates** `NeverRelists` |

Why the bounds suffice. With two blobs and the packs `{a,b}`, `{b}`, `{a}` a blob can be stored
twice, a pack can be partly garbage, one pack can be an orphan while another holds its blobs, and an
index can prefer either; processes run any number of commands, so sequences of crashes are
unbounded. In the pipeline the channels hold one element, so each stage is blocked by the next as
early as possible; two workers give every race between workers, and more add no new kind of state.
The local store needs two callers and an overwritten value; two attempts cover a lost response
followed by every other answer. The three options of `pipeline` are those that change what races
with what: two senders on one channel, two uploaders on one index, and a limit that is met in the
middle of a file (4 of the 5 chunks). In `ebs` three calls are a listing, a read of what it handed
out and a listing or `Size` that interferes; with a block a page a listing has a continuation, and
the clock may pass both lifetimes in the middle of it. Block 3 is the last of a listing, so that a
missing token is met after a block was handed out; its page is then followed by none, and the place
of the other blocks is not affected. A second reader or lister adds no new kind of state, and the
theorems are for any number. The trees of `data_path` were chosen so that chunks end at the strict
mask, at the loose one, at `MaxSize` and at the end of a file, that two files share chunks at
different places, that an index is both within `MaxEntries` and above it (it has 2 to 4 blobs), and
that the first read of a pack's end is too short, since `SuggestedTailSize` covers one entry. A read
may return any number of bytes, so every position of the buffer against the stream occurs. `TypeOK`
bounds nothing that grows except by these constants.

Fairness. `BackupPipeline` and `Restore` have weak fairness of each goroutine: the Go scheduler runs
every goroutine that can run, and each call of the source or store is assumed to return. There is
none on which side a select takes, and none on `Cancel`. `S3Store` has weak fairness of each client
(timers fire) and of the service for each client (the request is answered or fails); nothing assumes
that a request ever succeeds. `EBSSource` has weak fairness of each goroutine's own steps (`Step`: a
goroutine that can run does, and every call of the API returns), none on the clock, on cancellation
or on a successful answer: its calls end because attempts run out and pages make progress.

### Disagreements with the code's own documentation

Each is a run that TLC refutes, and a finding in PROJECT.json.

1. `gc_interrupted`. gc deletes, then rebuilds and saves the index. Stopped in between, it leaves an
   index object that lists deleted packs; the comment in `verify.go:198-201` expects the next Open
   to rebuild, but Open believes any index object that decodes. The next backup skips the blobs it
   seems to have, and its snapshot is lost.
2. `file_changes`. A file that changes between walk and read is recorded with a size that is not
   that of its chunks, in a run that succeeds; restore refuses the file.
3. `not_durable`. The local store never syncs the parent of a directory it made.
4. `size_relists`. `Size` is a fresh listing. Under the strict reading of Q-001 it kills the token
   of a read that has been sent, although `docs/OPEN_QUESTIONS.md:22` has the source never re-list
   "while tokens from a prior listing are in flight" and `ebs_test.go:217-219` calls the client
   "safe under this reading". What holds is weaker, and is `RefusedForCause`: a read ends as invalid
   or expired only if a listing has begun since, or the token is past its time, or the service has
   another fault of that kind.

Met while modelling, and not given a run: the index object has no checksum over its records
(`index.go:312`), so Open believes one whose record has changed, and restore fails though every pack
is whole; "a corrupt cache is a reason to discard the cache" (`repo.go:121-122`) holds only of a
damaged magic or count, or an object cut off (`CorruptIndexDiscarded` is refuted on the instance of
`data_path`, and holds without damaged records, which is the theorem `OnlyRecordsDeceive`); two
overlapping backups overwrite each other's index object, and the snapshot of one does not resolve
until somebody removes it (`SnapshotsResolve` is refuted on the instance of `repository_writers`; no
coordination of writers is promised, but "a stale or missing index costs time, not data",
`repo.go:17-18`, does not hold of any command); `MaxBytes` does not count what other workers have
read of their files, so a run with several can pass it and succeed (`backup.go:403`;
`MaxBytesRespected` is refuted on `pipeline` when its premise of one worker is dropped); a pack is
full by its blob bytes only, so about 330,000 blobs of less than 50 bytes make a header above
`MaxHeaderSize` and the run fails, though `pack.go:59-60` takes this to be out of reach; a verify
beside a backup can report the new snapshot's blobs as dangling, because it loaded its index before
(`verify.go:128`; hence `AlarmMeansLoss` speaks of writers); the packs of an interrupted backup are
adopted by the next run (`docs/DECISIONS.md`, D-011) only if there is no index object from before,
since Open does not look at packs otherwise; `Progress` may be called by two chunk workers at once
(`backup.go:361`), though its comment promises a single goroutine (`backup.go:80`); a restored file
whose close or whose removal fails stays, although a partial file "looks like a real file and is
not" (`restore.go:196-207`), and the error returned says nothing of the removal; a file that another
program has put in the place of one being restored is removed with it when the restore of that file
fails, even without `Overwrite`; and, as a rebuild may visit packs in another order than the last, a
second gc can find an orphan in a repository where the first left none, if a blob is in two packs.

Met in the EBS source: `listedAt` is set once, when a listing begins, and a listing that lasts
longer than a page token's lifetime is refused though each of its tokens was fresh
(`ebs.go:130-147`; the service of `fake.go` keeps the time per token). An expired token is an error
of kind expired in the fake and of kind invalid behind `AWSClient` (`awsclient.go:231-238`), so what
the tests of expiry show (`ebs_test.go:212`) is not what an engine with the real service would see.
`ebs.go:115-119` says that the listing is materialised first, but the caller's function runs between
the pages and its time counts. A response with neither length nor checksum reads as an empty block
and a success (`ReadsExact` therefore speaks of responses with a checksum). `ListChangedBlocks`
refuses an entry without a token, `ListBlocks` hands it out. `WithEmptyPages(n)` of the fake says n
empty pages, and serves one to each of n listings.

Met in the stores: `GetRange` at or behind the end of an object returns no bytes from the local
store and an error of kind invalid from S3, whose fake answers 416 (`fake.go:187-192`,
`s3.go:300-309`), though the conformance tests say "Reading past the end must return the available
bytes rather than failing" (`storetest.go:232-234`); and a `GetRange` of length 0 of a missing
object succeeds on S3 only. `PutIfAbsent` of the local store syncs no directory when the key is
taken (`localfs.go:244-249`). Whoever linked the object may have been killed before its own
`syncDir`, or may not have come to it: a backup that is told `exists` of a pack goes on to save its
index and manifest, in other directories, and a power loss may take the pack's name. `ObjectStore`
therefore promises nothing of `exists`, and `Repository`, which takes a pack as durable when
`PutPack` has returned, holds with this exception.

## 4. What is proved

`RepositoryProofs`, for every set of processes, blobs, packs, contents and sources:

| Theorem | Statement | Assumes |
|---|---|---|
| `TypeCorrect` | `Spec => []TypeOK` | the constants' assumptions |
| `DataNeverLost` | `Spec => []SnapshotDataPresent` | `GCRunsAlone` |
| `SkippedAreStored` | `Spec => []SkippedBlobsStored` | `GCRunsAlone` |
| `RefinesVault` | `Spec => ImplementsVault` | `GCRunsAlone` |
| `SnapshotsAlwaysResolve` | `Spec => []SnapshotsResolve` | `OneWriter` |
| `AlarmsAreReal` | `Spec => []AlarmMeansLoss` | `OneWriter` |
| `GCLeavesNoGarbage` | `Spec => GCReclaimsGarbage` | `OneWriter` |

`BackupPipelineProofs`, for any number of files, any versions of them, any finite sets of workers of
which every run uses at least one of each kind, any channel capacities from 1 on, any pack size,
options and faults:

| Theorem | Statement | Assumes |
|---|---|---|
| `TypeCorrect` | `Spec => []TypeOK` | the constants' assumptions |
| `NeverSendsOnClosed` | `Spec => []NoSendOnClosed` | |
| `ManifestIsComplete` | `Spec => []ManifestComplete` | |
| `ManifestIsStored` | `Spec => []ManifestStored` | |
| `EachBlobStoredOnce` | `Spec => []StoredOnce` | |
| `LimitRespected` | `Spec => []MaxBytesRespected` | |
| `StatsAreExact` | `Spec => []StatsExact` | |
| `RestorableIfSizesStay` | `Spec => []ManifestRestorable` | the versions of a file have one length |
| `NeverDeadlocks` | `Spec => []NeverStuck` | |
| `RefinesWriteOrder` | `Spec => KeepsWriteOrder` | |

`LocalStoreProofs` and `S3StoreProofs`, for any sets of callers, keys and values (`S3Store`: any
number of keys, attempts and listers):

| Theorem | Statement | Assumes |
|---|---|---|
| `LocalStoreProofs!TypeCorrect` | `Spec => []TypeOK` | the constants' assumptions |
| `LocalStoreProofs!RefinesObjectStore` | `Spec => ImplementsStore` | `Fsync = TRUE`, `NewDirs = {}` |
| `LocalStoreProofs!ChangeIsDurable` | a call that answers `done` or `created` leaves its key durable | `Fsync = TRUE`, `NewDirs = {}` |
| `S3StoreProofs!TypeCorrect` | `Spec => []TypeOK` | the constants' assumptions |
| `S3StoreProofs!RefinesObjectStore` | `Spec => ImplementsStore` | |
| `S3StoreProofs!ListingsComplete` | `Spec => ListComplete` | |

Both assumptions about the filesystem store are needed: `not_durable` refutes the promise without
the second, and without the first (the option `WithoutFsync`) a power loss tears what was published.
`ChangeIsDurable` is what is left of `StoredIsDurable`: it says nothing of `exists` (see above).

`EBSSourceProofs`, for every finite set of blocks, page size, lifetimes, responses, faults, number
of attempts and finite set of callers:

| Theorem | Statement | Assumes |
|---|---|---|
| `TypeCorrect` | `Spec => []TypeOK` | the constants' assumptions |
| `ListingsImplementContract` | `Spec => ListingsComplete` | |
| `NeverAccused` | `Spec => []NoFalseAlarm` | |
| `TokensRefusedForCause` | `Spec => []RefusedForCause` | |
| `ReadsVerified` | `Spec => []ReadsExact` | `VerifyChecksums` |
| `EveryBodyClosed` | `Spec => []BodiesClosed` | |

`TokensRefusedForCause` holds of both kinds for an expired token, so of the fake and of `AWSClient`.
A validation or quota exception of the service's own is reported like a refused token; the property
admits it as a cause where `Faults` has one, which the instance has not.

`RestoreProofs`, for every set of snapshots, blobs and faults, and any finite, nonempty set of
workers:

| Theorem | Statement | Assumes |
|---|---|---|
| `TypeCorrect` | `Spec => []TypeOK` | the constants' assumptions |
| `NoPartialFile` | `Spec => []WholeOrNothing` | |
| `OnlyCleanupLeavesParts` | `Spec => []NothingHalfWritten` | `"close", "remove" \notin Faults` |
| `OthersFilesSpared` | `Spec => SparesOthersFiles` | |
| `SuccessMeansEveryFile` | `Spec => []SuccessIsComplete` | |
| `NeverDeadlocks` | `Spec => []NeverStuck` | |

`ChunkerProofs`, for every set of streams and of bytes, every gear table, mask and sizes that
`Config.Validate` accepts:

| Theorem | Statement | Assumes |
|---|---|---|
| `TypeCorrect` | `Spec => []ChunkerTypeOK` | the constants' assumptions |
| `NoByteLostOrRepeated` | `Spec => []EveryByteOnce` | |
| `ChunkSizes` | `Spec => []SizesBounded` | |
| `CutsByContent` | `Spec => []ContentDefined` | |

`DataPathProofs`, for any trees of one file or more, any gear table, sizes, pack target, number of
shards, limits and damages:

| Theorem | Statement | Assumes |
|---|---|---|
| `AddKeepsEntries` | a writer's entries locate their blobs, in a new one and after each `Add` | the constants' assumptions |
| `HeaderFoundAgain` | `ReadPackHeader(Finish(w))` is the header, with `w.entries` | below |
| `BlobsFoundAgain` | the range of an entry in `Finish(w)` is its blob | |
| `ChunksOfEveryFile` | `PathSpec => [](ChunkerTypeOK /\ EveryByteOnce /\ SizesBounded /\ ContentDefined)` | |
| `RestoreIsExact` | `PathSpec => []RestoredExactly` | |
| `SavedIndexRecovered` | `PathSpec => []IndexRecovered` | |
| `PacksAreEnough` | `PathSpec => PacksSuffice` | |
| `OnlyRecordsDeceive` | `PathSpec => []CorruptIndexDiscarded` | `"record" \notin Damages` |

`HeaderFoundAgain` assumes what the code ensures: the pack has a blob, and `Finish` does not refuse
the header as too long. Its lemmas: a header of n entries divides back into them; and a read of the
last t cells shows the header if it is among them, and otherwise exactly how many cells it takes,
which the second read asks for. The constants' assumptions are those of the code: the first read of
a pack takes in the trailer (`TailAssumption`; 64 KiB against 8 bytes), and every blob has one of
the shards (`ShardOfAssumption`).

`RestorableIfSizesStay` and `OnlyRecordsDeceive` delimit two of the disagreements of section 3: what
is shown there is the only way to it. `OnlyCleanupLeavesParts` does the same for partial files:
without a failing close or `os.Remove` no other failure, cancel or program makes a restore leave
one.

The argument for `Repository`.

`GCRunsAlone`: a process that may run gc is the only writer, and its gc is not interrupted. Backups
may overlap otherwise. `OneWriter`: there is a single writer, whose gc is not interrupted; readers
do not count. Both are needed: without the one `gc_interrupted` refutes the first property, without
the other overlapping backups refute the second.

`SnapshotDataPresent` is not inductive. A manifest is saved over the blobs a backup packed and those
it skipped because `idx` had them, so the invariant must say that whatever index anybody may
deduplicate against tells the truth. `DataInv` adds: every entry of a writer's index, and of the
index object, is a stored pack that has the blob (`WriterIndexesSound`, `IndexObjectSound`) except
while gc is between its first deletion and its SaveIndex; a running backup's tree is covered by its
index and the packs in its queue (`BackupsCovered`); and what gc is about to delete holds no entry
that a snapshot resolves through (`GCSparesLiveBlobs`). Lemmas state what `Insert` does to soundness
and knowledge of an index and that both survive more packs. `DataStep` goes through the actions one
by one; deletions use that no other writer exists.

`SnapshotsResolve` needs in addition that the index object is never older than the manifests:
`ResolveInv` says that while a command runs the object is the one its writer loaded or saved last,
or there is none, and that what the writer has in memory covers every snapshot.

`RefinesVault` maps each action: `SaveSnapshot` is `Commit`, `PutPack` is `Store`, `DeletePack` is
`Reclaim`, the rest stutter; `DataInv` supplies the preconditions.

`SkippedAreStored` is `BackupsCovered` together with `WriterIndexesSound`. That a lone writer's
verify finds nothing to report (`ReportInv`) rests on `ResolveInv`, since its index knows every live
blob and is sound, and on its listing having every pack, since nobody else stores any. For
`GCLeavesNoGarbage` the packs that gc does not delete are ones a live blob's entry points to, and
soundness says they hold it (`GarbageInv`).

The argument for `BackupPipeline`. The invariant has a part for each thing that the goroutines hand
on. `ChannelsOK`: the closer closes `blobCh` only after every sender has gone (a failed worker
counts as gone before it records its error), the assembler closes `packCh` last of all but its
error, and the group's context is done exactly if there was an error or a cancel. `FilesOK`: unless
the group was stopped, every file fed is in the channel, in a worker's hand, or has all its chunks
(`Accounted`), and a worker returns only when the channel is closed and empty; `PacksOK` says the
same of the assembler and the uploaders. This is where a canceled send matters: it leaves a file
without chunks, but only when the group has been stopped, and then `Wait` fails. `KnownOK`: a blob
that some list names is in `blobCh`, claimed, or indexed; `StoredOK`: a claimed blob is in the pack
being built, in `packCh`, with an uploader, or indexed, and what is indexed is stored. Together,
when the group has returned without having been stopped, all places but the last are empty
(`AllSettled`): the manifest's blobs are indexed and stored. `OnceOK` says that the packs, those in
the channel, those with an uploader and the one being built are pairwise disjoint and apart from
what the index had: the one assembler claims a blob before it adds it, so that workers may race as
they like. `LimitOK` and `ResultOK` are the limit with one worker and what the main goroutine has
saved.

The statistics are counts of sets (`Counted`). `bytesRead` is the number of chunks in the workers'
hands and in the lists (`BytesCounted`), which needs that no two workers have one file
(`OneHolder`); each chunk that was sent has been counted as new or as deduplicated, or is in
`blobCh` (`BlobsCounted`); each pack that was stored has been counted, or its uploader is about to
(`PacksCounted`), which needs that no pack is empty, since two empty ones would be the same object.
When the group has returned without having been stopped nothing is under way, and the counts are
those of the lists. (The attempt corrected the model: two cases of `Wait` overlapped, so that a dry
run that was canceled might be taken to succeed.)

The argument for the stores. In both, a step of one caller changes only its own call, and the step
that takes effect (`Rename`, `Link`, `Unlink`; the service's answer to a request) is the contract's
effect; a crash is its crash. `LocalStore` needs that the file published has the call's bytes and
was synced (`TmpOK`, `DiskOK`): then whatever a power loss leaves of a key is a whole object, and
one that the contract allows because the directory had not been synced. `ListOK` is the lister's
half for S3: of the keys that were there all along, those up to the page token have been seen.

The argument for `EBSSource`. `Known` gives each call what it relies on at its place; its heart is
that the blocks handed out, followed by those of the page in hand and those from the page token on,
are all the written blocks, in order, however the pages are cut, which gives
`ListingsImplementContract` and that the order checks of the two listings never fire, so that only a
missing token can end one as corrupt (`NeverAccused`). `TokensWork`: every reference that was handed
out, or is in a page being handed out, is live with the time of expiry its holder believes or later,
unless its generation is past; and a read that was refused had a cause that its kind allows.
`EveryBodyClosed` counts: opening and closing a body moves one goroutine into and out of the set
`Open`.

The argument for `Restore`. A file is whole when its worker lets go of it only because of how it got
there. `HandInv` says: the channel holds the last files fed, in order, so that no two workers have
one file; and what each worker knows of its file at each place, of which `Copying` is the heart: the
file holds a beginning of its chunks and `todo` is the rest, unless another program has taken it. A
file in nobody's hand is whole, or its worker is done with it after a close or removal that failed,
and then the group has an error. The same invariant shows that a step changes only a file of the
worker's own, and that what it removes without `Overwrite` is its own file or one that displaced it.
For completeness `DoneInv` counts: while nothing has stopped the group, every file handed out is
restored or in a worker's hand, `filesDone` and the workers with a file are as many as the files
handed out, and a worker returns only when the channel is closed and empty. If the group has
stopped, an error or the caller did it (`StopsForAReason`), and `Wait` reports either. Both were
checked with TLC on the instance of `restore` before they were proved.

The argument for `Chunker`. `ChunkInv` says that the chunks tile the stream up to `offset`, that the
buffer is what has been read behind it, and, for `ContentDefined`, that while the stream has not
ended every chunk was cut from a window of `MaxSize` bytes (`CutFromWindow`): a cut depends on no
byte further away (`BoundaryIsLocal`), so it stays where the whole stream would be cut, even when a
read fails later and the stream turns out shorter. A chunk of `MinSize` or less is cut only from a
buffer that nothing can be added to, so it empties it and is the last (`ShortIsLast`). The rolling
hash is never expanded: the proofs hold of any function of the bytes behind `MinSize`.

The argument for `DataPath`. There are three invariants. `InputInv`: the recipes are the chunks,
those of the file in the chunker as far as they were sent, those of the files before put together
the files (`WholeFile`, by the uniqueness of the function in `Bytes` rather than by induction over a
sequence). `OutputInv`: what has been read back is, which rests on `GetBlob` comparing what it read
with the blob, and on nothing else: `RestoreIsExact` needs no assumption about damage. `StoreInv`
holds while the run has not failed and no pack or record is damaged. Of the packs (`PackInv`): each
has a header that can be read and is true, and the entries still to be inserted are among those. Of
the blobs (`BlobInv`): each of the run's is in one pack at one place, stored or waiting, or once in
the writer; a blob that is new goes to the writer (`AddsBlob`), and a flush moves what the writer
holds into a pack (`FlushesBlobs`, from `HeaderFoundAgain`). Of the index (`IndexInv`): it is true
of the stored packs and lacks only what is not yet inserted; so once nothing is pending the packs'
headers give it back (`IndexIsRebuilt`), whatever order the uploads took. Of `WriteTo` (`SaveInv`):
once it runs nothing is left to pack, store or insert, the count is that of the shards counted so
far (`ShardsAdd`) and the cells are the header and the records of the shards written so far
(`ShardWritten`); the finished object reads back as the index (`ReadsBack`), and one that is cut off
or has another magic or count is refused, because its count and its length disagree (`DamageShows`).
The three were checked with TLC on the instance of `data_path` before they were proved. The proof
showed that the property had said too much: `WriteTo` does not look at `MaxEntries`, so an index
above it is saved and never believed (`index.go:229,292`); `IndexRecovered` now says which objects
are believed, and `PacksAreEnough` that even then every file is restored, by rebuilding.

`NeverDeadlocks`, of the backup and of the restore. `Terminates` and `Returns` need fairness and
stay with TLC, and so does deadlock as TLC sees it, a state without a step. What is proved is what
the code has to get right for both, with any number of workers and any capacities: while the call
has not ended, the guard of some goroutine is true (`NeverStuck`; `SomeoneCanGo` is the disjunction
of the guards, since the prover does not know `ENABLED`). A stopped group ends because every channel
operation selects on its context. In one that is not stopped a consumer leaves only when its channel
is closed and empty (`PacksOK`, `FilesOK`, `NoneForgotten`), so if nobody can go, the channels are
empty from the uploaders up to the feeder, each stage has room to send, and the channels are closed
from the feeder down (`StuckGroupReturned`). It needs a worker of each kind in every run, as
`Options` grants (`backup.go:98,107`).

Only model-checked: liveness (`Returns`, `Terminates`, both `CallsEnd`), which the prover does not
reach. Every invariant and every other action property of the passing runs is a theorem.

## 5. Not modelled, and the plan

Left out for good: encodings of config, manifests and reports; key syntax (`ValidateKey`,
`safeJoin`, path syntax); hashing (`blob`); formatting and unwrapping of errors (`errs`; which of
them are retried is in `EBSService` and `S3Store`); the conformance tests; and delays of the retry
loop (a wait may take any time). The index's `Delete` and its statistics, and the pack `Reader`,
have no caller that changes what is stored.

Left for later, in order:

1. The reads of the stores: `Get`, `GetRange` and `Stat` beside writers, with the disagreements
   named above.
2. The file tree source: the walk and the reads of a tree that changes under them (`BackupPipeline`
   has only its outcome).
3. The EBS source as the source of a backup, once a command uses it.
4. Proofs: what a store promises carried over to `Repository`, whose steps assume it.
