----------------------------- MODULE Repository -----------------------------
(***************************************************************************)
(* The repository of distbackup as its commands see it: one object store   *)
(* holding a config, packs, one index object and snapshot manifests        *)
(* (internal/repo), and processes, each running one command at a time      *)
(* (cmd/distbackup).  Every process opens the repository into an index of  *)
(* its own, works on it, and may stop at any step.                         *)
(*                                                                         *)
(* Data is abstracted to identity.  A blob is its content address; a pack  *)
(* is its content address too, and Contents says which blobs are in it     *)
(* (two packs may hold the same blobs in another order).  An index entry   *)
(* is the pack it points to, since a pack's address fixes the offset and   *)
(* the length.  A manifest is the set of blobs it references.              *)
(***************************************************************************)

CONSTANTS
    Procs,          \* processes running distbackup commands on the repository
    Blobs,          \* blob IDs
    Packs,          \* pack IDs
    Contents,       \* the blobs recorded in the header of each pack
    Sources,        \* what a backup may find: the blob sets of the source trees
    Commands,       \* the commands each process may run
    GCInterrupted,  \* may a process stop between gc's first delete and its last write?
    None,           \* an index has no entry for the blob
    NoIndex         \* the index object is missing, or does not decode

ASSUME ContentsAssumption ==
    /\ Contents \in [Packs -> SUBSET Blobs]
    /\ \A k \in Packs : Contents[k] # {}
ASSUME SourcesAssumption == Sources \subseteq SUBSET Blobs
ASSUME CommandsAssumption == Commands \in [Procs -> SUBSET {"backup", "verify", "gc"}]
ASSUME GCInterruptedAssumption == GCInterrupted \in BOOLEAN
ASSUME NoneAssumption == None \notin Packs
ASSUME NoIndexAssumption == NoIndex \notin [Blobs -> Packs \cup {None}]

VARIABLES
    config,     \* does the config object exist?
    packs,      \* the objects under packs/
    index,      \* the object index/index
    snapshots,  \* the objects under snapshots/
    pc,         \* what each process does next
    idx,        \* r.idx, the index in the memory of each process
    source,     \* the blobs of the tree a backup is storing
    queue,      \* packs a backup has yet to upload, or gc has yet to delete
    listing     \* packs a listing has returned, or has yet to visit

store == <<config, packs, index, snapshots>>
memory == <<idx, source, queue, listing>>
vars == <<store, pc, memory>>

Index == [Blobs -> Packs \cup {None}]
EmptyIndex == [b \in Blobs |-> None]

\* The phases of gc in which packs are gone that the index object still lists.
Collecting == {"deleting", "gcRebuilding", "gcSaving"}

PCs == {"idle", "rebuilding", "open", "uploading", "committing",
        "verify", "gc", "failed"} \cup Collecting

TypeOK ==
    /\ config \in BOOLEAN
    /\ packs \subseteq Packs
    /\ index \in Index \cup {NoIndex}
    /\ snapshots \subseteq SUBSET Blobs
    /\ pc \in [Procs -> PCs]
    /\ idx \in [Procs -> Index]
    /\ source \in [Procs -> SUBSET Blobs]
    /\ queue \in [Procs -> SUBSET Packs]
    /\ listing \in [Procs -> SUBSET Packs]

\* What a pack, a set of packs, an index and the manifests hold.
Stored(P) == UNION {Contents[k] : k \in P}
Known(f) == {b \in Blobs : f[b] # None}
Live == UNION snapshots

\* index.Insert for every entry of pack k: the first location of a blob stays.
Insert(f, k) ==
    [b \in Blobs |-> IF b \in Contents[k] /\ f[b] = None THEN k ELSE f[b]]

Goto(p, l) == pc' = [pc EXCEPT ![p] = l]

\* The process exits; what it had in memory is gone.
Exit(p) ==
    /\ Goto(p, "idle")
    /\ idx' = [idx EXCEPT ![p] = EmptyIndex]
    /\ source' = [source EXCEPT ![p] = {}]
    /\ queue' = [queue EXCEPT ![p] = {}]
    /\ listing' = [listing EXCEPT ![p] = {}]

Init ==
    /\ config = FALSE
    /\ packs = {}
    /\ index = NoIndex
    /\ snapshots = {}
    /\ pc = [p \in Procs |-> "idle"]
    /\ idx = [p \in Procs |-> EmptyIndex]
    /\ source = [p \in Procs |-> {}]
    /\ queue = [p \in Procs |-> {}]
    /\ listing = [p \in Procs |-> {}]

-----------------------------------------------------------------------------
(* init, and opening a repository                                          *)

\* Create: the config is written with PutIfAbsent, so a second init fails.
Create(p) ==
    /\ pc[p] = "idle"
    /\ ~config
    /\ config' = TRUE
    /\ UNCHANGED <<packs, index, snapshots, pc, memory>>

\* Mutant: a missing index object is not told from an index.
LoadIndexUnchecked(p) ==
    /\ pc[p] = "idle"
    /\ config
    /\ idx' = [idx EXCEPT ![p] = index]
    /\ Goto(p, "open")
    /\ UNCHANGED <<store, source, queue, listing>>

\* Open, when the index object decodes: it is believed, however old it is.
LoadIndex(p) ==
    /\ pc[p] = "idle"
    /\ config
    /\ index # NoIndex
    /\ idx' = [idx EXCEPT ![p] = index]
    /\ Goto(p, "open")
    /\ UNCHANGED <<store, source, queue, listing>>

\* RebuildIndex starts listing packs/ into a fresh index.
StartRebuild(p, l) ==
    /\ idx' = [idx EXCEPT ![p] = EmptyIndex]
    /\ listing' = [listing EXCEPT ![p] = packs]
    /\ Goto(p, l)
    /\ UNCHANGED <<store, source, queue>>

\* Open, when there is no index object or it is corrupt.
RebuildOnOpen(p) ==
    /\ pc[p] = "idle"
    /\ config
    /\ index = NoIndex
    /\ StartRebuild(p, "rebuilding")

Rebuilding(p) == pc[p] \in {"rebuilding", "gcRebuilding"}

\* The header of one more pack is read and inserted.  The order of a listing
\* is unspecified, and a pack stored after it began may or may not be in it.
RebuildPack(p, k) ==
    /\ Rebuilding(p)
    /\ k \in packs
    /\ idx' = [idx EXCEPT ![p] = Insert(@, k)]
    /\ listing' = [listing EXCEPT ![p] = @ \ {k}]
    /\ UNCHANGED <<store, pc, source, queue>>

\* A pack that another process deleted before the listing came to it is not
\* listed; deleted between listing and read, it fails the command (Fail).
RebuildMiss(p, k) ==
    /\ Rebuilding(p)
    /\ k \in listing[p] \ packs
    /\ listing' = [listing EXCEPT ![p] = @ \ {k}]
    /\ UNCHANGED <<store, pc, idx, source, queue>>

\* Mutant: the rebuilt index is used before the listing is through.
RebuildDoneEarly(p) ==
    /\ Rebuilding(p)
    /\ Goto(p, IF pc[p] = "rebuilding" THEN "open" ELSE "gcSaving")
    /\ UNCHANGED <<store, memory>>

RebuildDone(p) ==
    /\ Rebuilding(p)
    /\ listing[p] = {}
    /\ Goto(p, IF pc[p] = "rebuilding" THEN "open" ELSE "gcSaving")
    /\ UNCHANGED <<store, memory>>

-----------------------------------------------------------------------------
(* backup                                                                  *)

\* The packs Q hold each of the blobs B once.
Packing(Q, B) ==
    /\ Stored(Q) = B
    /\ \A j, k \in Q : j # k => Contents[j] \cap Contents[k] = {}

\* The pipeline reads the source and packs every blob that neither the index
\* nor this run knows.  The run itself only adds to idx what it has packed, so
\* the choice depends on idx as it was opened.
BackupFiles(p, S, Q) ==
    /\ pc[p] = "open"
    /\ "backup" \in Commands[p]
    /\ Packing(Q, S \ Known(idx[p]))
    /\ source' = [source EXCEPT ![p] = S]
    /\ queue' = [queue EXCEPT ![p] = Q]
    /\ Goto(p, "uploading")
    /\ UNCHANGED <<store, idx, listing>>

\* Mutant: a stored pack is not recorded in the index.
PutPackUnindexed(p, k) ==
    /\ pc[p] = "uploading"
    /\ k \in queue[p]
    /\ packs' = packs \cup {k}
    /\ queue' = [queue EXCEPT ![p] = @ \ {k}]
    /\ UNCHANGED <<config, index, snapshots, pc, idx, source, listing>>

\* Mutant: a pack whose upload failed is recorded in the index.
PutPackUnstored(p, k) ==
    /\ pc[p] = "uploading"
    /\ k \in queue[p]
    /\ idx' = [idx EXCEPT ![p] = Insert(@, k)]
    /\ queue' = [queue EXCEPT ![p] = @ \ {k}]
    /\ UNCHANGED <<store, pc, source, listing>>

\* An upload worker stores a pack, then records its blobs.  PutIfAbsent takes
\* a pack that is already there for success.
PutPack(p, k) ==
    /\ pc[p] = "uploading"
    /\ k \in queue[p]
    /\ packs' = packs \cup {k}
    /\ idx' = [idx EXCEPT ![p] = Insert(@, k)]
    /\ queue' = [queue EXCEPT ![p] = @ \ {k}]
    /\ UNCHANGED <<config, index, snapshots, pc, source, listing>>

\* Mutant: the run does not wait for its uploads.
SaveIndexEarly(p) ==
    /\ pc[p] = "uploading"
    /\ index' = idx[p]
    /\ Goto(p, "committing")
    /\ UNCHANGED <<config, packs, snapshots, memory>>

\* All uploads are done: the index object is overwritten, whatever it was.
SaveIndex(p) ==
    /\ pc[p] = "uploading"
    /\ queue[p] = {}
    /\ index' = idx[p]
    /\ Goto(p, "committing")
    /\ UNCHANGED <<config, packs, snapshots, memory>>

\* The manifest is the last write of the run.
SaveSnapshot(p) ==
    /\ pc[p] = "committing"
    /\ snapshots' = snapshots \cup {source[p]}
    /\ Exit(p)
    /\ UNCHANGED <<config, packs, index>>

-----------------------------------------------------------------------------
(* verify and gc                                                           *)

\* Verify first lists the packs; the snapshots are listed later.
ListPacks(p) ==
    /\ pc[p] = "open"
    /\ \E c \in Commands[p] \cap {"verify", "gc"} : Goto(p, c)
    /\ listing' = [listing EXCEPT ![p] = packs]
    /\ UNCHANGED <<store, idx, source, queue>>

\* No blob of a snapshot is dangling, or in a pack that was not listed.
ReportOK(p) == \A b \in Live : idx[p][b] \in listing[p]

OrphanPacks(p) == listing[p] \ {idx[p][b] : b \in Live}

\* verify reports FAILED; gc refuses to touch a damaged repository.
ReportProblems(p) ==
    /\ pc[p] \in {"verify", "gc"}
    /\ ~ReportOK(p)
    /\ Goto(p, "failed")
    /\ UNCHANGED <<store, memory>>

\* verify finds nothing wrong, or gc finds nothing to delete.
NothingToDo(p) ==
    /\ \/ pc[p] = "verify"
       \/ pc[p] = "gc" /\ OrphanPacks(p) = {}
    /\ ReportOK(p)
    /\ Exit(p)
    /\ UNCHANGED store

CollectGarbage(p) ==
    /\ pc[p] = "gc"
    /\ ReportOK(p)
    /\ OrphanPacks(p) # {}
    /\ queue' = [queue EXCEPT ![p] = OrphanPacks(p)]
    /\ Goto(p, "deleting")
    /\ UNCHANGED <<store, idx, source, listing>>

DeletePack(p, k) ==
    /\ pc[p] = "deleting"
    /\ k \in queue[p]
    /\ packs' = packs \ {k}
    /\ queue' = [queue EXCEPT ![p] = @ \ {k}]
    /\ UNCHANGED <<config, index, snapshots, pc, idx, source, listing>>

\* Mutant: the index is rebuilt before the last orphan is deleted.
RebuildAfterGCEarly(p) ==
    /\ pc[p] = "deleting"
    /\ StartRebuild(p, "gcRebuilding")

RebuildAfterGC(p) ==
    /\ pc[p] = "deleting"
    /\ queue[p] = {}
    /\ StartRebuild(p, "gcRebuilding")

SaveIndexAfterGC(p) ==
    /\ pc[p] = "gcSaving"
    /\ index' = idx[p]
    /\ Exit(p)
    /\ UNCHANGED <<config, packs, snapshots>>

-----------------------------------------------------------------------------
(* Failures                                                                *)

\* A process stops: killed, canceled, or on an error of the store or of the
\* source; also a dry run, a restore or a listing of snapshots, which end
\* having written nothing, and the exit after a FAILED report.
Fail(p) ==
    /\ pc[p] # "idle"
    /\ GCInterrupted \/ pc[p] \notin Collecting
    /\ Exit(p)
    /\ UNCHANGED store

\* The index object is deleted or damaged from outside; Open rebuilds it.
LoseIndex ==
    /\ index' = NoIndex
    /\ UNCHANGED <<config, packs, snapshots, pc, memory>>

-----------------------------------------------------------------------------
Step(p) ==
    \/ Create(p)
    \/ LoadIndex(p)
    \/ RebuildOnOpen(p)
    \/ \E k \in Packs : RebuildPack(p, k) \/ RebuildMiss(p, k)
    \/ RebuildDone(p)
    \/ \E S \in Sources, Q \in SUBSET Packs : BackupFiles(p, S, Q)
    \/ \E k \in Packs : PutPack(p, k)
    \/ SaveIndex(p)
    \/ SaveSnapshot(p)
    \/ ListPacks(p)
    \/ ReportProblems(p)
    \/ NothingToDo(p)
    \/ CollectGarbage(p)
    \/ \E k \in Packs : DeletePack(p, k)
    \/ RebuildAfterGC(p)
    \/ SaveIndexAfterGC(p)
    \/ Fail(p)

Next == LoseIndex \/ \E p \in Procs : Step(p)

Spec == Init /\ [][Next]_vars

-----------------------------------------------------------------------------
(* Properties                                                              *)

Writer(p) == Commands[p] \cap {"backup", "gc"} # {}

\* Every blob a manifest references is in a stored pack: packs are written
\* before the manifest (BackupFiles), and gc deletes none a manifest needs.
SnapshotDataPresent == Live \subseteq Stored(packs)

\* Whoever opens the repository next and loads the index object finds every
\* blob of every manifest through it, in a pack that is there.
SnapshotsResolve ==
    index # NoIndex =>
        \A b \in Live : index[b] \in packs /\ b \in Contents[index[b]]

\* A blob a running backup did not put in one of its packs, because its index
\* already knew the blob (HasBlob), really is stored.
SkippedBlobsStored ==
    \A p \in Procs :
        pc[p] \in {"uploading", "committing"} =>
            source[p] \subseteq Stored(packs \cup queue[p])

\* A writer that is alone raises no false alarm: its verify says FAILED, and its
\* gc refuses, only over a repository that lost data of a snapshot
\* (VerifyReport: "A non-empty list means data loss").
AlarmMeansLoss ==
    (\E p \in Procs : Writer(p) /\ pc[p] = "failed") => ~SnapshotDataPresent

\* When gc has rewritten the index, every pack left holds a blob of some
\* snapshot: all the residue of interrupted backups is gone (CollectGarbage).
GCReclaimsGarbage ==
    [][\A p \in Procs : SaveIndexAfterGC(p) =>
            \A k \in packs : Contents[k] \cap Live # {}]_vars

(***************************************************************************)
(* The repository implements the promise of Vault: the blobs of the stored *)
(* packs are what can be read back.                                        *)
(***************************************************************************)
V == INSTANCE Vault WITH stored <- Stored(packs), committed <- snapshots

\* Every command, crash and rebuild does to the data and the manifests what
\* Vault allows: a manifest is saved only over data that is stored, and the
\* packs gc deletes take no blob of a snapshot with them.
ImplementsVault == V!Spec

-----------------------------------------------------------------------------
(***************************************************************************)
(* Why it holds.  distbackup coordinates nothing between processes, so the *)
(* promise rests on how it is run: gc must not be interrupted, and no      *)
(* other process may write while it runs.  Backups may run side by side    *)
(* where there is no gc.                                                   *)
(***************************************************************************)
GCRunsAlone ==
    \A p \in Procs : "gc" \in Commands[p] =>
        /\ ~GCInterrupted
        /\ \A q \in Procs : Writer(q) => q = p

\* Every entry of an index points to one of the packs P, one with the blob.
Sound(f, P) ==
    \A b \in Blobs : f[b] # None => f[b] \in P /\ b \in Contents[f[b]]

PhasesAreAllowed ==
    \A p \in Procs :
        /\ pc[p] \in {"uploading", "committing"} => "backup" \in Commands[p]
        /\ pc[p] \in {"gc"} \cup Collecting => "gc" \in Commands[p]

WriterIndexesSound ==
    \A p \in Procs : Writer(p) /\ pc[p] # "deleting" => Sound(idx[p], packs)

IndexObjectSound ==
    (\A p \in Procs : pc[p] \notin Collecting) => index = NoIndex \/ Sound(index, packs)

BackupsCovered ==
    \A p \in Procs :
        /\ pc[p] \in {"uploading", "committing"} =>
              /\ source[p] \in Sources
              /\ source[p] \subseteq Known(idx[p]) \cup Stored(queue[p])
        /\ pc[p] = "committing" => queue[p] = {}

GCSparesLiveBlobs ==
    \A p \in Procs : pc[p] = "deleting" =>
        \A b \in Live : /\ idx[p][b] \in packs \ queue[p]
                        /\ b \in Contents[idx[p][b]]

\* The inductive invariant behind SnapshotDataPresent and ImplementsVault:
\* whatever index a backup may deduplicate against, in the store or in the
\* memory of a writer, lists only what is stored, except while gc is between
\* its first delete and SaveIndex.
DataInv ==
    /\ TypeOK
    /\ PhasesAreAllowed
    /\ WriterIndexesSound
    /\ IndexObjectSound
    /\ BackupsCovered
    /\ GCSparesLiveBlobs
    /\ SnapshotDataPresent

(***************************************************************************)
(* Opening through the index object needs more: with one writer (and any   *)
(* number of readers) the index object is never older than the manifests.  *)
(***************************************************************************)
OneWriter ==
    /\ ~GCInterrupted
    /\ \A p, q \in Procs : Writer(p) /\ Writer(q) => p = q

WriterKnowsSnapshots ==
    \A p \in Procs : Writer(p) =>
        /\ pc[p] \in {"open", "uploading", "committing", "verify", "gc", "gcSaving"} =>
              Live \subseteq Known(idx[p])
        /\ Rebuilding(p) => Stored(packs \ listing[p]) \subseteq Known(idx[p])

IndexObjectIsWriters ==
    \A p \in Procs : Writer(p) =>
        /\ pc[p] \in {"open", "committing", "verify", "gc", "deleting"} =>
              index \in {NoIndex, idx[p]}
        /\ pc[p] = "rebuilding" => index = NoIndex

\* The inductive invariant behind SnapshotsResolve: while a command runs, the
\* index object is the one the writer loaded or saved last, or there is none,
\* and what the writer has in memory covers every snapshot.
ResolveInv ==
    /\ DataInv
    /\ WriterKnowsSnapshots
    /\ IndexObjectIsWriters
    /\ SnapshotsResolve
=============================================================================
