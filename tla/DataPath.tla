------------------------------ MODULE DataPath ------------------------------
(***************************************************************************)
(* What happens to the bytes of a file: chunked, packed, stored, indexed,  *)
(* and read back by another process through the index object or, if that   *)
(* is gone, the headers of the packs.  One chunk worker; the pack channel  *)
(* has no bound, and packs are uploaded in any order.                      *)
(***************************************************************************)
EXTENDS Chunker, PackFile, IndexFile

CONSTANTS
    Trees,          \* what may be backed up: sequences of files
    PackTarget,
    Damages         \* what may happen to the objects: "index", "record", "pack"

ASSUME TreesAssumption == Trees \subseteq Seq(Streams) \ {<<>>}
ASSUME PackTargetAssumption == PackTarget \in Nat \ {0}
ASSUME DamagesAssumption == Damages \subseteq {"index", "record", "pack"}

\* A blob, that is a chunk, has one of the shards.
ASSUME ShardOfAssumption ==
    \A n \in 1..MaxSize : \A blob \in [1..n -> Byte] : ShardOf(blob) \in 1..NumShards

VARIABLES
    tree, current,  \* the files, and the one in the chunker
    sent,           \* how many of its chunks have gone to the assembler
    recipes,        \* the blob IDs of each file, for the manifest
    inFlight, writer, packCh,
    uploads,        \* packs that are stored, each with its entries not yet inserted
    saving,         \* WriteTo: what it does next, on which shard, and what it has
    packs,          \* the pack objects: from content address to cells
    idx,            \* r.idx
    indexObject,    \* its cells; <<>> is an object that is not there
    damaged,        \* what has been damaged
    restored,       \* the files as they are read back
    phase           \* of the backup, then of the restore

input == <<tree, current, sent, recipes>>
assembler == <<inFlight, writer>>
uploaders == <<packCh, uploads, saving>>
store == <<packs, indexObject, damaged>>
pathVars == <<chunker, input, assembler, uploaders, store, idx, restored, phase>>

NotSaving == [at |-> "no", shard |-> 0, count |-> 0, cells |-> <<>>]

PathInit ==
    /\ tree \in Trees /\ current = 1 /\ sent = 0 /\ recipes = [i \in DOMAIN tree |-> <<>>]
    /\ Init /\ stream = tree[1]
    /\ inFlight = {} /\ writer = NewWriter /\ packCh = {}
    /\ uploads = {} /\ saving = NotSaving
    /\ packs = [p \in {} |-> <<>>] /\ indexObject = <<>> /\ damaged = {}
    /\ idx = EmptyIndex
    /\ restored = <<>> /\ phase = "backup"

-----------------------------------------------------------------------------
(* Backup                                                                  *)

Chunk ==
    /\ phase = "backup"
    /\ Next
    /\ UNCHANGED <<input, assembler, uploaders, store, idx, restored, phase>>

\* Finish, and the pack goes to the upload workers; or the run has failed.
Flush(w) ==
    IF HeaderTooLong(w)
    THEN writer' = w /\ phase' = "failed" /\ UNCHANGED packCh
    ELSE /\ packCh' = packCh \cup {[cells |-> Finish(w), entries |-> w.entries]}
         /\ writer' = NewWriter
         /\ UNCHANGED phase

\* The chunk worker records a chunk; the assembler packs it if it is new.
Assemble ==
    /\ phase = "backup" /\ sent < Len(chunks)
    /\ LET blob == chunks[sent + 1].data
           w == Add(writer, blob)
       IN  /\ recipes' = [recipes EXCEPT ![current] = Append(@, blob)]
           /\ IF blob \in inFlight \/ blob \in DOMAIN idx
              THEN UNCHANGED <<assembler, packCh, phase>>
              ELSE /\ inFlight' = inFlight \cup {blob}
                   /\ IF IsFull(w, PackTarget) THEN Flush(w)
                      ELSE writer' = w /\ UNCHANGED <<packCh, phase>>
    /\ sent' = sent + 1
    /\ UNCHANGED <<chunker, tree, current, uploads, saving, store, idx, restored>>

\* A file that cannot be read to its end fails the run.
ReadFailed ==
    /\ phase = "backup" /\ ended = "failed"
    /\ phase' = "failed"
    /\ UNCHANGED <<chunker, input, assembler, uploaders, store, idx, restored>>

FileEnds == phase = "backup" /\ ended = "eof" /\ sent = Len(chunks)

NextFile ==
    /\ FileEnds /\ current < Len(tree)
    /\ current' = current + 1 /\ sent' = 0
    /\ stream' = tree[current + 1] /\ taken' = 0
    /\ buf' = <<>> /\ err' = "none" /\ offset' = 0 /\ chunks' = <<>> /\ ended' = "no"
    /\ UNCHANGED <<tree, recipes, assembler, uploaders, store, idx, restored, phase>>

\* blobCh is closed: what is in the writer is a pack, full or not.
LastFlush ==
    /\ FileEnds /\ current = Len(tree) /\ writer.entries # <<>>
    /\ Flush(writer)
    /\ UNCHANGED <<chunker, input, inFlight, uploads, saving, store, idx, restored>>

\* PutPack: the pack, then its entries one at a time, beside those of others.
StorePack ==
    /\ phase = "backup"
    /\ \E p \in packCh :
          /\ packs' = [q \in DOMAIN packs \cup {p.cells} |->
                          IF q \in DOMAIN packs THEN packs[q] ELSE p.cells]
          /\ uploads' = uploads \cup {[pack |-> p.cells, entries |-> p.entries]}
          /\ packCh' = packCh \ {p}
    /\ UNCHANGED <<chunker, input, assembler, saving, indexObject, damaged, idx, restored, phase>>

InsertEntry ==
    /\ \E u \in uploads :
          LET e == Head(u.entries)
              rest == [u EXCEPT !.entries = Tail(@)]
          IN  /\ idx' = Insert(idx, e.id, [pack |-> u.pack, offset |-> e.offset,
                                           length |-> e.length])
              /\ uploads' = (uploads \ {u}) \cup (IF rest.entries = <<>> THEN {} ELSE {rest})
    /\ UNCHANGED <<chunker, input, assembler, packCh, saving, store, restored, phase>>

PutPack == StorePack \/ InsertEntry

AllPacked ==
    FileEnds /\ current = Len(tree) /\ writer.entries = <<>> /\ packCh = {}

\* Mutant: the index is saved when the last pack is stored.
StartSaveEarly ==
    /\ AllPacked /\ saving.at = "no"
    /\ saving' = [NotSaving EXCEPT !.at = "count", !.shard = 1]
    /\ UNCHANGED <<chunker, input, assembler, packCh, uploads, store, idx, restored, phase>>

\* The group has been waited for: every uploader has returned.
StartSave ==
    /\ AllPacked /\ uploads = {} /\ saving.at = "no"
    /\ saving' = [NotSaving EXCEPT !.at = "count", !.shard = 1]
    /\ UNCHANGED <<chunker, input, assembler, packCh, uploads, store, idx, restored, phase>>

\* Len.
CountShard ==
    /\ saving.at = "count"
    /\ LET count == saving.count + ShardLen(idx, saving.shard)
       IN  saving' = IF saving.shard < NumShards
                     THEN [saving EXCEPT !.shard = @ + 1, !.count = count]
                     ELSE [at |-> "write", shard |-> 1, count |-> count, cells |-> Header(count)]
    /\ UNCHANGED <<chunker, input, assembler, packCh, uploads, store, idx, restored, phase>>

\* The records, and then the object is put.
WriteShard ==
    /\ saving.at = "write"
    /\ LET cells == saving.cells \o Records(idx, saving.shard)
       IN  IF saving.shard < NumShards
           THEN /\ saving' = [saving EXCEPT !.shard = @ + 1, !.cells = cells]
                /\ UNCHANGED <<indexObject, phase>>
           ELSE saving' = NotSaving /\ indexObject' = cells /\ phase' = "saved"
    /\ UNCHANGED <<chunker, input, assembler, packCh, uploads, packs, damaged, idx, restored>>

WriteTo == CountShard \/ WriteShard
SaveIndex == StartSave \/ WriteTo

-----------------------------------------------------------------------------
(* Between the commands (external)                                         *)

\* The index object is removed, cut off, or has its magic or count changed.
DamageIndex ==
    /\ phase = "saved" /\ "index" \in Damages /\ damaged = {}
    /\ \/ \E n \in 0..(Len(indexObject) - 1) : indexObject' = SubSeq(indexObject, 1, n)
       \/ indexObject' = [indexObject EXCEPT ![1] = <<"junk", 0>>]
       \/ \E n \in 0..(MaxEntries + 1) :
             n # indexObject[2][2] /\ indexObject' = [indexObject EXCEPT ![2] = <<"count", n>>]
    /\ damaged' = {"index"}
    /\ UNCHANGED <<chunker, input, assembler, uploaders, packs, idx, restored, phase>>

\* A record comes to say something else: another blob, or another place.
DamageRecord ==
    /\ phase = "saved" /\ "record" \in Damages /\ damaged = {}
    /\ \E i \in 3..Len(indexObject) :
          \/ indexObject' = [indexObject EXCEPT ![i][2].id = <<>>]
          \/ indexObject' = [indexObject EXCEPT ![i][2].location.offset = @ + 1]
    /\ damaged' = {"record"}
    /\ UNCHANGED <<chunker, input, assembler, uploaders, packs, idx, restored, phase>>

\* A pack is removed or cut off, or one cell of it changes.  (The index object
\* may be damaged too.)
DamagePack ==
    /\ phase = "saved" /\ "pack" \in Damages /\ "pack" \notin damaged
    /\ \E p \in DOMAIN packs :
          \/ packs' = [q \in DOMAIN packs \ {p} |-> packs[q]]
          \/ \E n \in 0..(Len(packs[p]) - 1) : packs' = [packs EXCEPT ![p] = SubSeq(@, 1, n)]
          \/ \E i \in 1..Len(packs[p]) : \E c \in Flipped(packs[p][i]) :
                packs' = [packs EXCEPT ![p][i] = c]
    /\ damaged' = damaged \cup {"pack"}
    /\ UNCHANGED <<chunker, input, assembler, uploaders, indexObject, idx, restored, phase>>

-----------------------------------------------------------------------------
(* Restore                                                                 *)

\* Open believes an index object that decodes.
LoadIndex ==
    /\ phase = "saved" /\ IndexDecodes(indexObject)
    /\ idx' = ReadFrom(indexObject)
    /\ phase' = "open"
    /\ UNCHANGED <<chunker, input, assembler, uploaders, store, restored>>

\* The index that the packs' headers give; no blob of one run is in two packs.
Rebuilt(headers) ==
    LET found == UNION {{[id |-> headers[p].entries[i].id,
                          location |-> [pack |-> p, offset |-> headers[p].entries[i].offset,
                                        length |-> headers[p].entries[i].length]] :
                             i \in DOMAIN headers[p].entries} : p \in DOMAIN headers}
    IN  [b \in {r.id : r \in found} |-> (CHOOSE r \in found : r.id = b).location]

\* One pack that cannot be parsed fails the rebuild, and Open.
RebuildIndex ==
    /\ phase = "saved" /\ ~IndexDecodes(indexObject)
    /\ LET headers == [p \in DOMAIN packs |-> ReadPackHeader(packs[p])]
       IN  IF \E p \in DOMAIN packs : headers[p].kind # "header"
           THEN phase' = "failed" /\ idx' = EmptyIndex
           ELSE phase' = "open" /\ idx' = Rebuilt(headers)
    /\ UNCHANGED <<chunker, input, assembler, uploaders, store, restored>>

\* GetRange, of a store that returns what there is.
GetRange(cells, off, n) == SubSeq(cells, off + 1, IF off + n > Len(cells) THEN Len(cells) ELSE off + n)

\* Mutant: what is read is not verified.
ReadableUnverified(b) ==
    /\ b \in DOMAIN idx
    /\ idx[b].pack \in DOMAIN packs
    /\ Len(GetRange(packs[idx[b].pack], idx[b].offset, idx[b].length)) = idx[b].length

\* GetBlob finds the blob, reads all of it, and what it reads is the blob.
Readable(b) ==
    /\ b \in DOMAIN idx
    /\ idx[b].pack \in DOMAIN packs
    /\ GetRange(packs[idx[b].pack], idx[b].offset, idx[b].length) = BlobCells(b)

\* What GetBlob returns for a blob that it finds, unless it reports an error.
GetBlob(b) ==
    LET cells == GetRange(packs[idx[b].pack], idx[b].offset, idx[b].length)
    IN  [i \in DOMAIN cells |-> cells[i][2]]

\* One file; the others have their own workers and errors.
RestoreFile ==
    /\ phase = "open" /\ Len(restored) < Len(tree)
    /\ LET recipe == recipes[Len(restored) + 1]
       IN  IF \A i \in DOMAIN recipe : Readable(recipe[i])
           THEN /\ restored' = Append(restored, [i \in DOMAIN recipe |-> GetBlob(recipe[i])])
                /\ UNCHANGED phase
           ELSE phase' = "failed" /\ UNCHANGED restored
    /\ UNCHANGED <<chunker, input, assembler, uploaders, store, idx>>

Stop ==
    /\ phase = "failed" \/ Len(restored) = Len(tree)
    /\ UNCHANGED pathVars

PathNext ==
    \/ Chunk \/ Assemble \/ ReadFailed \/ NextFile \/ LastFlush \/ PutPack \/ SaveIndex
    \/ DamageIndex \/ DamageRecord \/ DamagePack
    \/ LoadIndex \/ RebuildIndex \/ RestoreFile
    \/ Stop

PathSpec == PathInit /\ [][PathNext]_pathVars

-----------------------------------------------------------------------------
(* Properties                                                              *)

\* The bytes of a file that has been read back.
Bytes(blobs) ==
    LET b[i \in 0..Len(blobs)] == IF i = 0 THEN <<>> ELSE b[i - 1] \o blobs[i]
    IN  b[Len(blobs)]

\* A file that is read back without an error is the file that was backed up,
\* whatever has happened to the objects.
RestoredExactly == \A i \in DOMAIN restored : Bytes(restored[i]) = tree[i]

\* A saved backup is read back while its packs are whole, with or without the
\* index object: the headers at the end of the packs are enough, two reads
\* of each find them, and an index object that is damaged is noticed, unless
\* it is in a record.
PacksSuffice ==
    [][(phase \in {"saved", "open"} /\ damaged \subseteq {"index"}) => phase' # "failed"]_pathVars

\* What the headers of the packs say.
PackIndex == Rebuilt([p \in DOMAIN packs |-> ReadPackHeader(packs[p])])

\* The index object, and the packs without it, say what the backup's own index
\* said when it was saved.  WriteTo does not ask whether a reader will believe
\* the count (index.go:229,292).
IndexRecovered ==
    phase = "saved" /\ damaged \subseteq {"index"} =>
        /\ IndexDecodes(indexObject) = (damaged = {} /\ Cardinality(DOMAIN idx) <= MaxEntries)
        /\ damaged = {} => ReadFrom(indexObject) = idx
        /\ PackIndex = idx

\* "Corrupt or absent index: rebuild rather than fail. A corrupt cache is a
\* reason to discard the cache" (repo.go:121-122): what Open works with is what
\* the packs say, whatever has become of the index object.
CorruptIndexDiscarded == phase = "open" /\ "pack" \notin damaged => idx = PackIndex
=============================================================================
