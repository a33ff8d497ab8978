--------------------------- MODULE RestoreProofs ---------------------------
(* Theorems about Restore, for all snapshots, blobs and workers.             *)
EXTENDS Restore, FiniteSetTheorems, SequenceTheorems, TLAPS

-----------------------------------------------------------------------------
(* The inductive invariants                                                  *)

\* The files not yet handed to a worker are those above this one.
Handed == fed - Len(fileCh)

\* The file holds a beginning of its chunks, and the worker has the others to do.
Copying(w) ==
    LET f == worker[w].file
        chunks == manifest[f].chunks
        todo == worker[w].todo
    IN  /\ disk[f] \in Seq(Blobs)
        /\ Len(disk[f]) + Len(todo) = Len(chunks)
        /\ \A i \in 1..Len(disk[f]) : disk[f][i] = chunks[i]
        /\ \A i \in 1..Len(todo) : todo[i] = chunks[Len(disk[f]) + i]

\* The channel holds the last files fed, in order.
QueueInOrder ==
    /\ Len(fileCh) <= fed
    /\ \A i \in 1..Len(fileCh) : fileCh[i] = Handed + i

\* A worker's file is its own, and has been handed out.
FilesApart ==
    /\ \A w \in Workers : worker[w].file <= Handed
    /\ \A v, w \in Workers : worker[v].file = worker[w].file /\ worker[w].file # 0 => v = w

\* Another program has taken the worker's file.
Lost(w) == worker[w].file \in displaced /\ ~InPlace(w)

\* What a worker knows of its file, at each place.
Knows(w) ==
    /\ At(w, "recv") => worker[w].file = 0
    /\ At(w, "open") =>
          worker[w].file \in Files /\ worker[w].todo = manifest[worker[w].file].chunks
    /\ worker[w].at \in {"copy", "write", "check", "remove"} =>
          worker[w].file \in Files /\ (Lost(w) \/ disk[worker[w].file] \in Content)
    /\ worker[w].at \in {"copy", "write"} => Lost(w) \/ Copying(w)
    /\ At(w, "write") => worker[w].todo # <<>>
    /\ At(w, "check") =>
          /\ worker[w].todo = <<>>
          /\ Lost(w) \/ disk[worker[w].file] = manifest[worker[w].file].chunks
    /\ At(w, "done") => worker[w].file = 0 \/ failed

WorkersKnow == \A w \in Workers : Knows(w)

\* A file no worker has opened, and none has left behind, is whole.
InHand(f) == \E w \in Workers : worker[w].file = f /\ worker[w].at # "open"

OthersWhole == \A f \in Files : ~InHand(f) => Whole(f)

HandInv == TypeOK /\ QueueInOrder /\ FilesApart /\ WorkersKnow /\ OthersWhole

\* The workers that have a file.
Busy == {w \in Workers : worker[w].file # 0}

\* While nothing has stopped the group, no file is forgotten and none counted twice.
NoneForgotten ==
    ~stopped =>
        /\ fileClosed => fed = Len(manifest)
        /\ \A w \in Workers : At(w, "done") => worker[w].file = 0 /\ fileClosed /\ fileCh = <<>>
        /\ \A f \in (1..Handed) \ displaced :
              Restored(f) \/ \E w \in Workers : worker[w].file = f
        /\ filesDone + Cardinality(Busy) = Handed

StopsForAReason == main = "wait" /\ stopped => failed \/ canceled

DoneInv ==
    /\ NoneForgotten /\ StopsForAReason /\ SuccessIsComplete
    /\ main # "wait" => stopped /\ GroupReturned
-----------------------------------------------------------------------------
(* Type correctness                                                          *)

\* The manifest, and a worker with a file: what the types say of them.
LEMMA ManifestType ==
    ASSUME TypeOK
    PROVE  /\ manifest \in Seq([chunks : Seq(Blobs), size : Nat])
           /\ Len(manifest) \in Nat /\ Files = 1..Len(manifest) /\ Files \subseteq Nat \ {0}
           /\ \A f \in Files : manifest[f].chunks \in Seq(Blobs) /\ manifest[f].size \in Nat
<1> DEFINE Entry == [chunks : Seq(Blobs), size : Nat]
<1>1. manifest \in Seq(Entry)
  BY ManifestsAssumption DEF TypeOK
<1>2. Len(manifest) \in Nat /\ DOMAIN manifest = 1..Len(manifest)
  BY <1>1
<1>3. \A f \in 1..Len(manifest) : manifest[f] \in Entry
  BY <1>1, ElementOfSeq
<1> QED
  BY <1>1, <1>2, <1>3 DEF Files

\* Writing a chunk, or a part of one, or losing the end of a file leaves a content.
LEMMA ContentGrows ==
    ASSUME NEW s \in Content, NEW b \in Blobs \cup {Torn}
    PROVE  Append(s, b) \in Content
BY DEF Content

LEMMA ContentShrinks ==
    ASSUME NEW s \in Content, NEW n \in 0..Len(s)
    PROVE  SubSeq(s, 1, n) \in Content
BY SubSeqProperties DEF Content

\* The states a worker may be in.
WorkerStates ==
    [at : {"recv", "open", "copy", "write", "check", "remove", "done"},
     file : Files \cup {0}, todo : Seq(Blobs)]

\* Setting what is on disk, and returning an error, keep the types.
LEMMA SetDiskType ==
    ASSUME TypeOK, NEW w \in Workers, NEW c \in {Absent, Foreign} \cup Content, SetDisk(w, c)
    PROVE  disk' \in [Files -> {Absent, Foreign} \cup Content]
BY DEF TypeOK, SetDisk

LEMMA ThrowType ==
    ASSUME TypeOK, NEW w \in Workers, NEW r \in WorkerStates, Throw(w, r),
           disk' \in [Files -> {Absent, Foreign} \cup Content]
    PROVE  TypeOK'
<1>1. worker' \in [Workers -> WorkerStates]
  BY DEF Throw, TypeOK, WorkerStates
<1> QED
  BY <1>1 DEF TypeOK, Throw, WorkerStates, given, queue, counts, Files

\* The file a worker has open, while it has its name, holds what was written to it.
LEMMA InPlaceKnows ==
    ASSUME NEW w \in Workers, Knows(w), InPlace(w),
           worker[w].at \in {"copy", "write", "check", "remove"}
    PROVE  /\ OnDisk(w) \in Content
           /\ worker[w].at \in {"copy", "write"} => Copying(w)
BY DEF Knows, Lost, OnDisk

\* A file that has lost its name is one another program took.
LEMMA NotInPlaceKnows ==
    ASSUME NEW w \in Workers, Knows(w), ~InPlace(w),
           worker[w].at \in {"copy", "write", "check", "remove"}
    PROVE  Lost(w)
BY ContentAssumption DEF Knows, Lost, InPlace, OnDisk

LEMMA TypeInit == Init => TypeOK
<1> SUFFICES ASSUME Init PROVE TypeOK
  OBVIOUS
<1>1. Len(manifest) \in Nat
  BY ManifestsAssumption DEF Init
<1>2. fileCh \in Seq(Files) /\ Len(fileCh) <= FileQueue
  BY FileQueueAssumption DEF Init
<1> QED
  <2>1. disk \in [Files -> {Absent, Foreign} \cup Content]
    BY DEF Init
  <2>2. Idle \in WorkerStates /\ worker \in [Workers -> WorkerStates]
    BY DEF Init, Idle, WorkerStates
  <2>3. fed \in 0..Len(manifest) /\ manifest \in Manifests /\ overwrite \in BOOLEAN
    BY <1>1 DEF Init
  <2>4. /\ canceled \in BOOLEAN /\ stopped \in BOOLEAN /\ failed \in BOOLEAN
        /\ fileClosed \in BOOLEAN /\ main \in {"wait", "succeeded", "failed"}
        /\ filesDone \in Nat /\ bytesWritten \in Nat
    BY DEF Init
  <2> QED
    BY <1>2, <2>1, <2>2, <2>3, <2>4 DEF Init, TypeOK, WorkerStates

LEMMA TypeStep ==
    ASSUME TypeOK, WorkersKnow, [Next]_vars
    PROVE  TypeOK'
<1> USE ManifestType
<1>1. CASE UNCHANGED vars
  BY <1>1 DEF TypeOK, vars, given, context, queue, counts, Files
<1>2. CASE Feed
  <2>1. fed + 1 \in Files /\ fileCh \in Seq(Files) /\ Len(fileCh) < FileQueue
    BY <1>2 DEF TypeOK, Feed
  <2>2. Append(fileCh, fed + 1) \in Seq(Files) /\ Len(Append(fileCh, fed + 1)) <= FileQueue
    BY <2>1, FileQueueAssumption
  <2> QED
    BY <1>2, <2>2 DEF TypeOK, Feed, given, context, counts, Files
<1>3. CASE FeederReturns
  BY <1>3 DEF TypeOK, FeederReturns, given, context, counts, Files
<1>4. CASE Wait
  BY <1>4 DEF TypeOK, Wait, given, queue, counts, Files
<1>5. CASE Cancel
  BY <1>5 DEF TypeOK, Cancel, given, queue, counts, Files
<1>6. ASSUME NEW f \in Files, CreateForeign(f) \/ Displace(f) PROVE TypeOK'
  BY <1>6 DEF TypeOK, CreateForeign, Displace, given, context, queue, counts, Files
<1>7. ASSUME NEW w \in Workers, Worker(w) PROVE TypeOK'
  <2>1. CASE TakeFile(w)
    <3>1. fileCh \in Seq(Files) /\ fileCh # <<>> /\ Len(fileCh) <= FileQueue
      BY <2>1 DEF TypeOK, TakeFile
    <3>2. Head(fileCh) \in Files /\ Tail(fileCh) \in Seq(Files) /\ Len(Tail(fileCh)) <= FileQueue
      BY <3>1, FileQueueAssumption, HeadTailProperties
    <3> QED
      BY <2>1, <3>2 DEF TypeOK, TakeFile, given, context, counts, Files
  <2>2. CASE WorkerReturns(w)
    BY <2>2 DEF TypeOK, WorkerReturns, Done, Idle, given, context, queue, counts, Files
  <2>3. CASE Open(w)
    <3>1. <<>> \in Content
      BY DEF Content
    <3> QED
      BY <2>3, <3>1 DEF TypeOK, Open, SetDisk, Goto, given, context, queue, counts, Files
  <2>4. CASE OpenFails(w)
    BY <2>4 DEF TypeOK, OpenFails, Throw, Done, Idle, given, queue, counts, Files
  <2>5. CASE GetBlob(w)
    BY <2>5 DEF TypeOK, GetBlob, Goto, given, context, queue, counts, Files
  <2>6. CASE GetBlobFails(w)
    BY <2>6 DEF TypeOK, GetBlobFails, Goto, given, context, queue, counts, Files
  <2>7. CASE Write(w)
    <3>1. worker[w].todo \in Seq(Blobs) /\ worker[w].todo # <<>>
      BY <2>7 DEF TypeOK, WorkersKnow, Knows, Write, At
    <3>2. Head(worker[w].todo) \in Blobs /\ Tail(worker[w].todo) \in Seq(Blobs)
      BY <3>1, HeadTailProperties
    <3>3. InPlace(w) => Append(OnDisk(w), Head(worker[w].todo)) \in Content
      BY <2>7, <3>2, ContentGrows, InPlaceKnows DEF WorkersKnow, Write, At
    <3>4. disk' \in [Files -> {Absent, Foreign} \cup Content]
      BY <2>7, <3>3, SetDiskType DEF Write, TypeOK
    <3> QED
      BY <2>7, <3>2, <3>4 DEF TypeOK, Write, given, context, queue, counts, Files
  <2>8. CASE WriteFails(w)
    <3>1. InPlace(w) => Append(OnDisk(w), Torn) \in Content
      BY <2>8, ContentGrows, InPlaceKnows DEF WorkersKnow, WriteFails, At
    <3> QED
      <4>1. disk' \in [Files -> {Absent, Foreign} \cup Content]
        BY <2>8, <3>1, SetDiskType DEF WriteFails, TypeOK
      <4> QED
        BY <2>8, <4>1 DEF TypeOK, WriteFails, Goto, given, context, queue, counts, Files
  <2>9. CASE Close(w)
    BY <2>9 DEF TypeOK, Close, Goto, given, context, queue, counts, Files
  <2>10. CASE CloseFails(w)
    <3>1. InPlace(w) => \A n \in 0..Len(OnDisk(w)) : SubSeq(OnDisk(w), 1, n) \in Content
      BY <2>10, ContentShrinks, InPlaceKnows DEF WorkersKnow, CloseFails, At
    <3> QED
      <4>1. disk' \in [Files -> {Absent, Foreign} \cup Content]
        BY <2>10, <3>1, SetDiskType DEF CloseFails, TypeOK
      <4>2. [worker[w] EXCEPT !.at = "done"] \in WorkerStates
        BY DEF TypeOK, WorkerStates
      <4> QED
        BY <2>10, <4>1, <4>2, ThrowType DEF CloseFails
  <2>11. CASE FileDone(w)
    <3>1. Written(w) \in Nat
      <4>1. worker[w].todo = <<>> /\ manifest[worker[w].file].chunks \in Seq(Blobs)
        BY <2>11 DEF WorkersKnow, Knows, FileDone, At
      <4> QED
        BY <4>1 DEF Written
    <3> QED
      BY <3>1, <2>11 DEF TypeOK, FileDone, Idle, given, context, queue, Files
  <2>12. CASE WrongSize(w)
    BY <2>12 DEF TypeOK, WrongSize, Goto, given, context, queue, counts, Files
  <2>13. CASE Remove(w)
    <3>1. Done \in WorkerStates /\ disk' \in [Files -> {Absent, Foreign} \cup Content]
      BY <2>13, SetDiskType DEF Remove, Done, WorkerStates
    <3> QED
      BY <2>13, <3>1, ThrowType DEF Remove
  <2>14. CASE RemoveFails(w)
    <3>1. [worker[w] EXCEPT !.at = "done"] \in WorkerStates
      BY DEF TypeOK, WorkerStates
    <3>2. disk' \in [Files -> {Absent, Foreign} \cup Content]
      BY <2>14 DEF RemoveFails, TypeOK
    <3> QED
      BY <2>14, <3>1, <3>2, ThrowType DEF RemoveFails
  <2> QED
    BY <1>7, <2>1, <2>2, <2>3, <2>4, <2>5, <2>6, <2>7, <2>8, <2>9, <2>10, <2>11, <2>12, <2>13,
       <2>14
    DEF Worker
<1> QED
  BY <1>1, <1>2, <1>3, <1>4, <1>5, <1>6, <1>7 DEF Next, Feeder, vars
-----------------------------------------------------------------------------
(* Files are handed out once, in order                                       *)

LEMMA QueueInit == Init => QueueInOrder /\ FilesApart
BY DEF Init, QueueInOrder, FilesApart, Handed, Idle

\* Whatever a worker does that keeps its file or drops it leaves the files apart.
LEMMA StaysApart ==
    ASSUME TypeOK, QueueInOrder, FilesApart, UNCHANGED <<fed, fileCh>>,
           \A v \in Workers : worker'[v].file \in {0, worker[v].file}
    PROVE  QueueInOrder' /\ FilesApart'
<1>1. Handed \in Nat
  BY DEF TypeOK, QueueInOrder, Handed
<1>3. Handed' = Handed
  BY DEF Handed
<1>4. QueueInOrder'
  BY <1>3 DEF QueueInOrder
<1> QED
  BY <1>1, <1>3, <1>4 DEF FilesApart

LEMMA QueueStep ==
    ASSUME TypeOK, QueueInOrder, FilesApart, [Next]_vars
    PROVE  QueueInOrder' /\ FilesApart'
<1>0. /\ worker \in [Workers -> WorkerStates] /\ Files \subseteq Nat \ {0}
      /\ \A v \in Workers : worker[v].file \in Nat
  BY ManifestType DEF TypeOK, WorkerStates
<1>1. CASE Feed
  <2>1. fileCh \in Seq(Files) /\ fed \in Nat
    BY ManifestType DEF TypeOK
  <2>2. fileCh' = Append(fileCh, fed + 1) /\ fed' = fed + 1 /\ worker' = worker
    BY <1>1 DEF Feed
  <2>3. /\ Len(fileCh') = Len(fileCh) + 1
        /\ \A i \in 1..Len(fileCh) : fileCh'[i] = fileCh[i]
        /\ fileCh'[Len(fileCh) + 1] = fed + 1
    BY <2>1, <2>2
  <2>4. Handed' = Handed
    BY <2>1, <2>2, <2>3 DEF Handed
  <2> QED
    <3>1. QueueInOrder'
      <4> SUFFICES ASSUME NEW i \in 1..Len(fileCh') PROVE fileCh'[i] = Handed + i
        BY <2>1, <2>2, <2>3, <2>4 DEF QueueInOrder
      <4>1. CASE i \in 1..Len(fileCh)
        BY <4>1, <2>3 DEF QueueInOrder
      <4>2. CASE i = Len(fileCh) + 1
        BY <4>2, <2>1, <2>3 DEF Handed
      <4> QED
        BY <4>1, <4>2, <2>1, <2>3
    <3> QED
      BY <3>1, <2>2, <2>4 DEF FilesApart
<1>2. ASSUME NEW w \in Workers, TakeFile(w) PROVE QueueInOrder' /\ FilesApart'
  <2>1. fileCh \in Seq(Files) /\ fileCh # <<>> /\ fed \in Nat
    BY <1>2, ManifestType DEF TypeOK, TakeFile
  <2>2. /\ Len(fileCh') = Len(fileCh) - 1 /\ Len(fileCh) \in Nat \ {0}
        /\ \A i \in 1..Len(fileCh') : fileCh'[i] = fileCh[i + 1]
        /\ Head(fileCh) = fileCh[1] /\ fed' = fed
    BY <1>2, <2>1, HeadTailProperties DEF TakeFile
  <2>3. Handed' = Handed + 1 /\ Head(fileCh) = Handed + 1 /\ Handed \in Nat
    <3>1. Len(fileCh) <= fed /\ fileCh[1] = Handed + 1
      BY <2>2 DEF QueueInOrder
    <3> QED
      BY <3>1, <2>1, <2>2 DEF Handed
  <2>4. QueueInOrder'
    <3>1. \A i \in 1..Len(fileCh') : fileCh'[i] = Handed' + i
      <4> SUFFICES ASSUME NEW i \in 1..Len(fileCh') PROVE fileCh'[i] = Handed' + i
        OBVIOUS
      <4>1. fileCh'[i] = Handed + (i + 1)
        BY <2>2 DEF QueueInOrder
      <4> QED
        BY <4>1, <2>3
    <3> QED
      BY <3>1, <2>1, <2>2 DEF QueueInOrder
  <2>5. /\ worker'[w].file = Handed + 1
        /\ \A v \in Workers \ {w} : worker'[v] = worker[v]
    BY <1>2, <1>0, <2>3 DEF TakeFile
  <2> QED
    BY <1>0, <2>3, <2>4, <2>5 DEF FilesApart
<1>3. ASSUME NEW w \in Workers, Worker(w), ~TakeFile(w) PROVE QueueInOrder' /\ FilesApart'
  <2>1. UNCHANGED <<fed, fileCh>>
    <3>1. UNCHANGED queue
      BY <1>3 DEF Worker, Throw, WorkerReturns, Open, OpenFails, GetBlob, GetBlobFails,
         Write, WriteFails, Close, CloseFails, FileDone, WrongSize, Remove, RemoveFails
    <3> QED
      BY <3>1 DEF queue
  <2> SUFFICES \A v \in Workers : worker'[v].file \in {0, worker[v].file}
    BY <2>1, StaysApart
  <2>2. CASE WorkerReturns(w)
    BY <1>0, <2>2 DEF WorkerReturns, Done, WorkerStates
  <2>3. CASE Open(w)
    BY <1>0, <2>3 DEF Open, Goto, WorkerStates
  <2>4. CASE OpenFails(w)
    BY <1>0, <2>4 DEF OpenFails, Throw, Done, WorkerStates
  <2>5. CASE GetBlob(w)
    BY <1>0, <2>5 DEF GetBlob, Goto, WorkerStates
  <2>6. CASE GetBlobFails(w)
    BY <1>0, <2>6 DEF GetBlobFails, Goto, WorkerStates
  <2>7. CASE Write(w)
    BY <1>0, <2>7 DEF Write, WorkerStates
  <2>8. CASE WriteFails(w)
    BY <1>0, <2>8 DEF WriteFails, Goto, WorkerStates
  <2>9. CASE Close(w)
    BY <1>0, <2>9 DEF Close, Goto, WorkerStates
  <2>10. CASE CloseFails(w)
    BY <1>0, <2>10 DEF CloseFails, Throw, WorkerStates
  <2>11. CASE FileDone(w)
    BY <1>0, <2>11 DEF FileDone, Idle, WorkerStates
  <2>12. CASE WrongSize(w)
    BY <1>0, <2>12 DEF WrongSize, Goto, WorkerStates
  <2>13. CASE Remove(w)
    BY <1>0, <2>13 DEF Remove, Throw, Done, WorkerStates
  <2>14. CASE RemoveFails(w)
    BY <1>0, <2>14 DEF RemoveFails, Throw, WorkerStates
  <2> QED
    BY <1>3, <2>2, <2>3, <2>4, <2>5, <2>6, <2>7, <2>8, <2>9, <2>10, <2>11, <2>12, <2>13, <2>14
    DEF Worker
<1>4. ASSUME UNCHANGED <<fed, fileCh, worker>> PROVE QueueInOrder' /\ FilesApart'
  BY <1>4 DEF QueueInOrder, FilesApart, Handed
<1> QED
  BY <1>1, <1>2, <1>3, <1>4
  DEF Next, Feeder, FeederReturns, Wait, Cancel, CreateForeign, Displace, queue, vars
-----------------------------------------------------------------------------
(* Every file is whole, or a worker has it in hand                           *)

LEMMA HandInit == Init => HandInv
<1> SUFFICES ASSUME Init PROVE HandInv
  OBVIOUS
<1>1. TypeOK /\ QueueInOrder /\ FilesApart
  BY TypeInit, QueueInit
<1>2. WorkersKnow
  BY DEF Init, WorkersKnow, Knows, At, Idle
<1>3. OthersWhole
  BY DEF Init, OthersWhole, Whole
<1> QED
  BY <1>1, <1>2, <1>3 DEF HandInv

\* A worker whose file nobody touches, and that writes nothing, copies on.
LEMMA CopyingStays ==
    ASSUME NEW w \in Workers, Copying(w), manifest' = manifest,
           worker'[w].file = worker[w].file, worker'[w].todo = worker[w].todo,
           disk'[worker[w].file] = disk[worker[w].file]
    PROVE  Copying(w)'
BY DEF Copying

\* If only worker w moves, and nothing changes on disk but its file, it is
\* enough to look at w and at its file.
LEMMA OnlyOneMoves ==
    ASSUME HandInv, NEW w \in Workers, manifest' = manifest,
           displaced' = displaced, failed => failed',
           \A v \in Workers \ {w} : worker'[v] = worker[v],
           \A f \in Files \ {worker[w].file} : disk'[f] = disk[f],
           Knows(w)',
           \A f \in Files : f = worker[w].file /\ ~InHand(f)' => Whole(f)'
    PROVE  WorkersKnow' /\ OthersWhole'
<1>0. /\ Files' = Files /\ 0 \notin Files
  BY ManifestType DEF HandInv, Files
<1>1. ASSUME NEW v \in Workers, v # w PROVE Knows(v)'
  <2>1. worker'[v] = worker[v] /\ Knows(v)
    BY <1>1 DEF HandInv, WorkersKnow
  <2>2. worker[v].file \in Files => worker[v].file # worker[w].file
    BY <1>0, <1>1 DEF HandInv, FilesApart
  <2>3. worker[v].file \in Files => disk'[worker[v].file] = disk[worker[v].file]
    BY <2>2
  <2> QED
    <3>1. worker[v].at \in {"copy", "write", "check", "remove"} =>
             /\ worker[v].file \in Files
             /\ Lost(v) => Lost(v)'
             /\ Copying(v) => Copying(v)'
      <4> SUFFICES ASSUME worker[v].at \in {"copy", "write", "check", "remove"}
                   PROVE  /\ worker[v].file \in Files
                          /\ Lost(v) => Lost(v)'
                          /\ Copying(v) => Copying(v)'
        OBVIOUS
      <4>1. worker[v].file \in Files
        BY <2>1 DEF Knows
      <4>2. Lost(v) => Lost(v)'
        BY <2>1, <2>3, <4>1 DEF Lost, InPlace, OnDisk
      <4>3. ASSUME Copying(v) PROVE Copying(v)'
        <5>1. disk'[worker[v].file] = disk[worker[v].file]
          BY <2>3, <4>1
        <5>2. worker'[v].file = worker[v].file /\ worker'[v].todo = worker[v].todo
          BY <2>1
        <5> QED
          BY <4>3, <5>1, <5>2, CopyingStays
      <4> QED
        BY <4>1, <4>2, <4>3
    <3> QED
      BY <1>0, <2>1, <2>3, <3>1 DEF Knows, At
<1>2. ASSUME NEW f \in Files, f # worker[w].file, ~InHand(f)' PROVE Whole(f)'
  <2>1. ~InHand(f)
    BY <1>2 DEF InHand
  <2>2. disk'[f] = disk[f] /\ Whole(f)
    BY <1>2, <2>1 DEF HandInv, OthersWhole
  <2> QED
    BY <2>2 DEF Whole, Restored
<1>3. WorkersKnow'
  BY <1>1 DEF WorkersKnow
<1>4. OthersWhole'
  <2>1. \A f \in Files : ~InHand(f)' => Whole(f)'
    BY <1>2
  <2> QED
    BY <1>0, <2>1 DEF OthersWhole
<1> QED
  BY <1>3, <1>4

\* A file whose worker has nothing left to do holds all its chunks.
LEMMA CopyEnds ==
    ASSUME HandInv, NEW w \in Workers, Copying(w), worker[w].file \in Files, worker[w].todo = <<>>
    PROVE  disk[worker[w].file] = manifest[worker[w].file].chunks
<1> DEFINE f == worker[w].file
<1>1. disk[f] \in Seq(Blobs) /\ manifest[f].chunks \in Seq(Blobs)
  BY ManifestType DEF HandInv, Copying
<1>2. Len(disk[f]) = Len(manifest[f].chunks)
  BY <1>1 DEF Copying
<1>3. \A i \in 1..Len(disk[f]) : disk[f][i] = manifest[f].chunks[i]
  BY DEF Copying
<1> QED
  BY <1>1, <1>2, <1>3, SeqEqual

\* A worker that has thrown knows nothing of its file any more.
LEMMA DoneKnows ==
    ASSUME NEW w \in Workers, worker'[w].at = "done", worker'[w].file = 0 \/ failed'
    PROVE  Knows(w)'
BY DEF Knows, At

\* A worker is done with a file when it is all there, or somebody else has it.
LEMMA DoneWhole ==
    ASSUME HandInv, NEW w \in Workers, FileDone(w)
    PROVE  worker[w].file \in Files /\ (Lost(w) \/ Restored(worker[w].file))
<1>1. /\ worker[w].file \in Files /\ worker[w].todo = <<>>
      /\ Lost(w) \/ disk[worker[w].file] = manifest[worker[w].file].chunks
  BY DEF HandInv, WorkersKnow, Knows, FileDone, At
<1>2. Len(manifest[worker[w].file].chunks) \in Nat
  BY <1>1, ManifestType DEF HandInv
<1>3. Len(manifest[worker[w].file].chunks) = manifest[worker[w].file].size
  BY <1>1, <1>2 DEF FileDone, RightSize, Written
<1> QED
  BY <1>1, <1>3 DEF Restored

LEMMA HandStepOfWorker ==
    ASSUME HandInv, NEW w \in Workers, Worker(w), TypeOK'
    PROVE  WorkersKnow' /\ OthersWhole'
<1> DEFINE file == worker[w].file
<1>0. /\ worker \in [Workers -> WorkerStates] /\ Knows(w)
      /\ disk \in [Files -> {Absent, Foreign} \cup Content]
      /\ Files \subseteq Nat \ {0}
  BY ManifestType DEF HandInv, TypeOK, WorkerStates, WorkersKnow
<1>1. manifest' = manifest /\ displaced' = displaced /\ (failed => failed')
  BY DEF context, Worker, TakeFile, Throw, WorkerReturns, Open, OpenFails, GetBlob, GetBlobFails,
     Write, WriteFails, Close, CloseFails, FileDone, WrongSize, Remove, RemoveFails, given
<1>2. \A v \in Workers \ {w} : worker'[v] = worker[v]
  BY <1>0 DEF Worker, TakeFile, Throw, WorkerReturns, Open, OpenFails, GetBlob, GetBlobFails,
     Write, WriteFails, Close, CloseFails, FileDone, WrongSize, Remove, RemoveFails, Goto
<1>3. \A f \in Files \ {file} : disk'[f] = disk[f]
  BY <1>0 DEF Worker, TakeFile, WorkerReturns, Open, OpenFails, GetBlob, GetBlobFails,
     Write, WriteFails, Close, CloseFails, FileDone, WrongSize, Remove, RemoveFails, SetDisk
<1> SUFFICES /\ Knows(w)'
             /\ \A f \in Files : f = file /\ ~InHand(f)' => Whole(f)'
  BY <1>1, <1>2, <1>3, OnlyOneMoves
\* A worker that keeps its file, past "open", has it in hand.
<1>4. ASSUME worker'[w].file = file, worker'[w].at # "open"
      PROVE  \A f \in Files : f = file => InHand(f)'
  BY <1>4 DEF InHand
\* A file that stays as it was, and that no one had in hand, is whole.
<1>5. ASSUME UNCHANGED disk, At(w, "open") \/ file = 0
      PROVE  \A f \in Files : f = file /\ ~InHand(f)' => Whole(f)'
  <2> SUFFICES ASSUME NEW f \in Files, f = file PROVE Whole(f)'
    OBVIOUS
  <2>1. ~InHand(f)
    BY <1>0, <1>5 DEF InHand, HandInv, FilesApart, At
  <2> QED
    BY <1>1, <1>5, <2>1 DEF HandInv, OthersWhole, Whole, Restored
\* A step that leaves the disk and the worker's file alone.
<1>18. ASSUME UNCHANGED disk, worker'[w].file = file, file \in Files
       PROVE  /\ Lost(w) => Lost(w)'
              /\ Copying(w) /\ worker'[w].todo = worker[w].todo => Copying(w)'
  BY <1>1, <1>18 DEF Lost, Copying, InPlace, OnDisk
<1>6. CASE TakeFile(w)
  <2>1. Head(fileCh) \in Files
    BY <1>6, HeadTailProperties DEF HandInv, TypeOK, TakeFile
  <2>2. worker'[w] = [at |-> "open", file |-> Head(fileCh), todo |-> manifest[Head(fileCh)].chunks]
    BY <1>0, <1>6 DEF TakeFile
  <2>3. Knows(w)'
    BY <1>1, <2>1, <2>2 DEF Knows, At, Files
  <2> QED
    BY <1>0, <1>5, <1>6, <2>3 DEF TakeFile, Knows, At
<1>7. CASE WorkerReturns(w)
  BY <1>0, <1>5, <1>7, DoneKnows DEF WorkerReturns, Done, Knows, At
<1>8. CASE OpenFails(w)
  BY <1>0, <1>5, <1>8, DoneKnows DEF OpenFails, Throw, Done
<1>9. CASE GetBlob(w)
  <2>1. worker'[w].at = "write" /\ worker'[w].file = file /\ worker'[w].todo = worker[w].todo
    BY <1>0, <1>9 DEF GetBlob, Goto, WorkerStates
  <2>2. Knows(w)'
    BY <1>0, <1>1, <1>9, <1>18, <2>1 DEF GetBlob, Knows, At, Files
  <2> QED
    BY <1>4, <2>1, <2>2
<1>10. CASE GetBlobFails(w) \/ WrongSize(w)
  <2>1. worker'[w].at = "remove" /\ worker'[w].file = file
    BY <1>0, <1>10 DEF GetBlobFails, WrongSize, Goto, WorkerStates
  <2>2. Knows(w)'
    BY <1>0, <1>1, <1>10, <1>18, <2>1 DEF GetBlobFails, WrongSize, Knows, At, Files
  <2> QED
    BY <1>4, <2>1, <2>2
<1>11. CASE Close(w)
  <2>1. /\ worker'[w].at = "check" /\ worker'[w].file = file
        /\ worker'[w].todo = <<>> /\ worker[w].todo = <<>> /\ disk' = disk /\ file \in Files
    BY <1>0, <1>11 DEF Close, Goto, WorkerStates, Knows, At
  <2>2. Lost(w) \/ disk[file] = manifest[file].chunks
    BY <1>0, <1>11, <2>1, CopyEnds DEF Close, Knows, At
  <2>3. Knows(w)'
    BY <1>0, <1>1, <1>11, <1>18, <2>1, <2>2 DEF Close, Knows, At, Files
  <2> QED
    BY <1>4, <2>1, <2>3
<1>12. CASE CloseFails(w)
  <2>1. worker'[w].at = "done" /\ worker'[w].file = file
    BY <1>0, <1>12 DEF CloseFails, Throw, WorkerStates
  <2>2. failed'
    BY <1>12 DEF CloseFails, Throw
  <2> QED
    BY <1>4, <2>1, <2>2, DoneKnows
<1>19. CASE RemoveFails(w)
  <2>1. worker'[w].at = "done" /\ worker'[w].file = file /\ failed'
    BY <1>0, <1>19 DEF RemoveFails, Throw, WorkerStates
  <2> QED
    BY <1>4, <2>1, DoneKnows
<1>13. CASE FileDone(w)
  <2>1. worker'[w] = Idle /\ disk' = disk
    BY <1>0, <1>13 DEF FileDone
  <2>2. file \in Files /\ Whole(file)
    BY <1>13, ManifestType, DoneWhole DEF Whole, Lost, InPlace, OnDisk, HandInv
  <2>3. Knows(w)'
    BY <2>1 DEF Knows, At, Idle
  <2> QED
    BY <1>1, <2>1, <2>2, <2>3 DEF Whole, Restored
<1>14. CASE Remove(w)
  <2>1. worker'[w].at = "done" /\ worker'[w].file = 0 /\ disk'[file] = Absent
    BY <1>0, <1>14 DEF Remove, SetDisk, Throw, Done, Knows, At
  <2> QED
    BY <2>1, DoneKnows DEF Whole
<1>15. CASE WriteFails(w)
  <2>1. worker'[w].at = "remove" /\ worker'[w].file = file
    BY <1>0, <1>15 DEF WriteFails, Goto, WorkerStates
  <2>2. file \in Files
    BY <1>0, <1>15 DEF WriteFails, Knows, At
  <2>3. CASE disk' = disk
    <3>1. Knows(w)'
      BY <1>0, <1>1, <1>15, <1>18, <2>1, <2>2, <2>3 DEF WriteFails, Knows, At, Files
    <3> QED
      BY <1>4, <2>1, <3>1
  <2>4. CASE InPlace(w) /\ SetDisk(w, Append(OnDisk(w), Torn))
    <3>1. OnDisk(w) \in Content
      BY <1>0, <1>15, <2>4, InPlaceKnows DEF WriteFails, At
    <3>2. disk'[file] \in Content
      BY <1>0, <2>2, <2>4, <3>1, ContentGrows DEF SetDisk
    <3>3. Knows(w)'
      BY <1>1, <2>1, <2>2, <3>2 DEF Knows, At, Files
    <3> QED
      BY <1>4, <2>1, <3>3
  <2> QED
    BY <1>15, <2>3, <2>4 DEF WriteFails
<1>16. CASE Open(w)
  <2>1. worker'[w].at = "copy" /\ worker'[w].file = file /\ worker'[w].todo = manifest[file].chunks
    BY <1>0, <1>16 DEF Open, Goto, WorkerStates, Knows, At
  <2>2. file \in Files /\ disk'[file] = <<>>
    BY <1>0, <1>16 DEF Open, SetDisk, Knows, At
  <2>3. manifest[file].chunks \in Seq(Blobs) /\ <<>> \in Seq(Blobs) /\ <<>> \in Content
    BY <2>2, ManifestType DEF HandInv, Content
  <2>4. Copying(w)'
    BY <1>1, <2>1, <2>2, <2>3 DEF Copying
  <2>5. Knows(w)'
    BY <1>1, <2>1, <2>2, <2>3, <2>4 DEF Knows, At, Files
  <2> QED
    BY <1>4, <2>1, <2>5
<1>17. CASE Write(w)
  <2>1. /\ worker'[w].at = "copy" /\ worker'[w].file = file
        /\ worker'[w].todo = Tail(worker[w].todo)
    BY <1>0, <1>17 DEF Write, WorkerStates
  <2>7. file \in Files
    BY <1>0, <1>17 DEF Write, Knows, At
  <2>8. CASE ~InPlace(w)
    <3>1. Lost(w) /\ disk' = disk
      BY <1>0, <1>17, <2>8, NotInPlaceKnows DEF Write, At
    <3>2. Lost(w)'
      BY <1>18, <2>1, <2>7, <3>1
    <3>3. Knows(w)'
      BY <1>1, <2>1, <2>7, <3>2 DEF Knows, At, Files
    <3> QED
      BY <1>4, <2>1, <3>3
  <2> SUFFICES ASSUME InPlace(w)
               PROVE  Knows(w)' /\ \A f \in Files : f = file /\ ~InHand(f)' => Whole(f)'
    BY <2>8
  <2>2. file \in Files /\ disk'[file] = Append(disk[file], Head(worker[w].todo))
    BY <1>0, <1>17, <2>7 DEF Write, SetDisk, OnDisk
  <2>3. /\ worker[w].todo \in Seq(Blobs) /\ manifest[file].chunks \in Seq(Blobs)
        /\ worker[w].todo # <<>> /\ Copying(w)
    BY <1>0, <1>17, <2>2, ManifestType, InPlaceKnows
    DEF Write, HandInv, Knows, At, WorkerStates
  <2>4. Copying(w)'
    <3> DEFINE done == disk[file]
               todo == worker[w].todo
               chunks == manifest[file].chunks
               d == Append(done, Head(todo))
               rest == Tail(todo)
    <3>1. /\ done \in Seq(Blobs) /\ todo \in Seq(Blobs) /\ chunks \in Seq(Blobs) /\ todo # <<>>
          /\ Len(done) + Len(todo) = Len(chunks)
          /\ \A i \in 1..Len(done) : done[i] = chunks[i]
          /\ \A i \in 1..Len(todo) : todo[i] = chunks[Len(done) + i]
      BY <2>3 DEF Copying
    <3>2. /\ d \in Seq(Blobs) /\ Len(d) + Len(rest) = Len(chunks)
          /\ \A i \in 1..Len(d) : d[i] = chunks[i]
          /\ \A i \in 1..Len(rest) : rest[i] = chunks[Len(d) + i]
      <4> HIDE DEF done, todo, chunks, rest
      <4>1. /\ Len(rest) = Len(todo) - 1 /\ Head(todo) \in Blobs /\ Head(todo) = todo[1]
            /\ Len(todo) \in Nat \ {0} /\ Len(done) \in Nat
            /\ \A i \in 1..Len(rest) : rest[i] = todo[i + 1]
        BY <3>1, HeadTailProperties DEF rest
      <4>2. /\ d \in Seq(Blobs) /\ Len(d) = Len(done) + 1 /\ d[Len(done) + 1] = todo[1]
            /\ \A i \in 1..Len(done) : d[i] = done[i]
        BY <3>1, <4>1
      <4>3. todo[1] = chunks[Len(done) + 1]
        BY <3>1, <4>1
      <4>4. ASSUME NEW i \in 1..Len(d) PROVE d[i] = chunks[i]
        <5>1. CASE i \in 1..Len(done)
          BY <3>1, <5>1, <4>2
        <5>2. CASE i = Len(done) + 1
          BY <5>2, <4>2, <4>3
        <5> QED
          BY <5>1, <5>2, <4>1, <4>2
      <4>5. ASSUME NEW i \in 1..Len(rest) PROVE rest[i] = chunks[Len(d) + i]
        <5>1. rest[i] = todo[i + 1] /\ i + 1 \in 1..Len(todo)
          BY <4>1
        <5>2. todo[i + 1] = chunks[Len(done) + (i + 1)]
          BY <3>1, <5>1
        <5> QED
          BY <3>1, <5>1, <5>2, <4>1, <4>2
      <4> HIDE DEF d
      <4>6. Len(d) + Len(rest) = Len(chunks)
        <5>1. Len(done) + Len(todo) = Len(chunks)
          BY <3>1
        <5>2. Len(rest) = Len(todo) - 1 /\ Len(todo) \in Nat /\ Len(done) \in Nat
          BY <4>1
        <5>3. Len(d) = Len(done) + 1
          BY <4>2
        <5> QED
          BY <5>1, <5>2, <5>3
      <4> QED
        BY <4>2, <4>4, <4>5, <4>6
    <3>3. disk'[file] = d /\ worker'[w].todo = rest /\ manifest'[worker'[w].file].chunks = chunks
      BY <1>1, <2>1, <2>2
    <3> HIDE DEF d, rest, todo, chunks
    <3> QED
      BY <2>1, <3>2, <3>3 DEF Copying
  <2>5. disk'[file] \in Content
    BY <1>0, <2>2, <2>3, <1>17, ContentGrows, HeadTailProperties, InPlaceKnows
    DEF Write, At, OnDisk
  <2>6. Knows(w)'
    BY <1>1, <2>1, <2>2, <2>4, <2>5 DEF Knows, At, Files
  <2> QED
    BY <1>4, <2>1, <2>6
<1> QED
  BY <1>6, <1>7, <1>8, <1>9, <1>10, <1>11, <1>12, <1>13, <1>14, <1>15, <1>16, <1>17,
     <1>19
  DEF Worker

LEMMA HandStep ==
    ASSUME HandInv, [Next]_vars
    PROVE  HandInv'
<1>1. TypeOK'
  BY TypeStep DEF HandInv
<1>2. QueueInOrder' /\ FilesApart'
  BY QueueStep DEF HandInv
<1>3. CASE UNCHANGED <<manifest, disk, worker, displaced, failed>>
  BY <1>1, <1>2, <1>3
  DEF HandInv, WorkersKnow, Knows, Copying, Lost, InPlace, OnDisk, At, OthersWhole, InHand,
      Whole, Restored, Files
<1>4. ASSUME NEW w \in Workers, Worker(w) PROVE HandInv'
  BY <1>1, <1>2, <1>4, HandStepOfWorker DEF HandInv
<1>5. ASSUME NEW f \in Files, CreateForeign(f) \/ Displace(f) PROVE HandInv'
  <2>1. /\ UNCHANGED <<manifest, worker, failed>> /\ Files' = Files
        /\ displaced \subseteq displaced'
        /\ \E c \in {Absent, Foreign} : disk' = [disk EXCEPT ![f] = c]
        /\ disk[f] = Absent \/ f \in displaced'
    BY <1>5 DEF CreateForeign, Displace, given, context, Files
  <2>2. /\ disk'[f] \in {Absent, Foreign}
        /\ \A g \in Files \ {f} : disk'[g] = disk[g]
    BY <2>1 DEF HandInv, TypeOK
  <2>3. ASSUME NEW w \in Workers PROVE Knows(w)'
    <3>1. Knows(w)
      BY DEF HandInv, WorkersKnow
    <3>2. CASE worker[w].at \notin {"copy", "write", "check", "remove"}
      BY <2>1, <3>1, <3>2 DEF Knows, At
    <3>3. CASE worker[w].at \in {"copy", "write", "check", "remove"} /\ worker[w].file # f
      <4>1. worker[w].file \in Files /\ disk'[worker[w].file] = disk[worker[w].file]
        BY <2>2, <3>1, <3>3 DEF Knows
      <4>2. (Lost(w) => Lost(w)') /\ (Copying(w) => Copying(w)')
        BY <2>1, <4>1 DEF Lost, Copying, InPlace, OnDisk
      <4> QED
        BY <2>1, <3>1, <4>1, <4>2 DEF Knows, At
    <3>4. CASE worker[w].at \in {"copy", "write", "check", "remove"} /\ worker[w].file = f
      <4>1. disk[f] = Absent => Lost(w)
        BY <3>1, <3>4, NotInPlaceKnows DEF InPlace, OnDisk
      <4>2. Lost(w)'
        BY <2>1, <2>2, <3>4, <4>1 DEF Lost, InPlace, OnDisk
      <4> QED
        BY <2>1, <3>1, <3>4, <4>2 DEF Knows, At
    <3> QED
      BY <3>2, <3>3, <3>4
  <2>4. ASSUME NEW g \in Files, ~InHand(g)' PROVE Whole(g)'
    <3>1. ~InHand(g)
      BY <2>1, <2>4 DEF InHand
    <3> QED
      BY <2>1, <2>2, <3>1 DEF HandInv, OthersWhole, Whole, Restored
  <2>5. OthersWhole'
    BY <2>1, <2>4 DEF OthersWhole
  <2> QED
    BY <1>1, <1>2, <2>3, <2>5 DEF HandInv, WorkersKnow
<1> QED
  BY <1>3, <1>4, <1>5
  DEF Next, Feeder, Feed, FeederReturns, Wait, Cancel, vars, given, context

LEMMA HandAlways == Spec => []HandInv
<1>1. Init => HandInv
  BY HandInit
<1>2. HandInv /\ [Next]_vars => HandInv'
  BY HandStep
<1> QED
  BY <1>1, <1>2, PTL DEF Spec

\* Every variable of RestoreFiles keeps its type.
THEOREM TypeCorrect == Spec => []TypeOK
<1>1. HandInv => TypeOK
  BY DEF HandInv
<1> QED
  BY <1>1, HandAlways, PTL

\* Whatever fails, and whatever other programs do, a file restoreOneFile is done
\* with is absent, somebody else's or all there; one it could not close or could
\* not remove may be none of these, and then RestoreFiles returns an error.
THEOREM NoPartialFile == Spec => []WholeOrNothing
<1>1. ASSUME HandInv, NEW f \in Files, ~Whole(f), ~BeingWritten(f)
      PROVE  LeftBehind(f) /\ failed
  <2>1. PICK w \in Workers : worker[w].file = f /\ worker[w].at # "open"
    BY <1>1 DEF HandInv, OthersWhole, InHand
  <2>2. At(w, "done")
    BY <1>1, <2>1 DEF BeingWritten, At
  <2>3. f # 0 /\ Knows(w)
    BY <1>1, ManifestType DEF HandInv, WorkersKnow
  <2> QED
    BY <2>1, <2>2, <2>3 DEF LeftBehind, Knows
<1>2. HandInv => WholeOrNothing
  BY <1>1 DEF WholeOrNothing
<1> QED
  BY <1>2, HandAlways, PTL

\* No file is half written but one a worker still writes.
NothingHalfWritten == \A f \in Files : Whole(f) \/ BeingWritten(f)

NoneLeft == \A w \in Workers : At(w, "done") => worker[w].file = 0

\* The cleanup is all that stands between a failure and a partial file: when no
\* close and no os.Remove fails, no failure of another kind, no cancellation and
\* no other program makes a restore leave one.
THEOREM OnlyCleanupLeavesParts ==
    ASSUME "close" \notin Faults, "remove" \notin Faults
    PROVE  Spec => []NothingHalfWritten
<1>1. Init => NoneLeft
  BY DEF Init, NoneLeft, At, Idle
<1>2. HandInv /\ NoneLeft /\ [Next]_vars => NoneLeft'
  <2> SUFFICES ASSUME HandInv, NoneLeft, [Next]_vars PROVE NoneLeft'
    OBVIOUS
  <2>0. worker \in [Workers -> WorkerStates]
    BY DEF HandInv, TypeOK, WorkerStates
  <2>1. CASE worker' = worker
    BY <2>1 DEF NoneLeft, At
  <2>2. ASSUME NEW w \in Workers, Worker(w) PROVE NoneLeft'
    <3>1. ~CloseFails(w) /\ ~RemoveFails(w)
      BY DEF CloseFails, RemoveFails
    <3>2. worker'[w].at = "done" => worker'[w].file = 0
      BY <2>0, <2>2, <3>1
      DEF Worker, TakeFile, Throw, WorkerReturns, Open, OpenFails, GetBlob, GetBlobFails, Write,
          WriteFails, Close, FileDone, WrongSize, Remove, Goto, Done, Idle, WorkerStates
    <3>3. \A v \in Workers \ {w} : worker'[v] = worker[v]
      BY <2>0, <2>2, <3>1
      DEF Worker, TakeFile, Throw, WorkerReturns, Open, OpenFails, GetBlob, GetBlobFails, Write,
          WriteFails, Close, FileDone, WrongSize, Remove, Goto
    <3> QED
      BY <3>2, <3>3 DEF NoneLeft, At
  <2> QED
    BY <2>1, <2>2
    DEF Next, Feeder, Feed, FeederReturns, Wait, Cancel, CreateForeign, Displace, vars
<1>3. HandInv /\ NoneLeft => NothingHalfWritten
  <2> SUFFICES ASSUME HandInv, NoneLeft, NEW f \in Files, ~Whole(f) PROVE BeingWritten(f)
    BY DEF NothingHalfWritten
  <2>1. PICK w \in Workers : worker[w].file = f /\ worker[w].at # "open"
    BY DEF HandInv, OthersWhole, InHand
  <2>2. f # 0
    BY ManifestType DEF HandInv
  <2> QED
    BY <2>1, <2>2 DEF NoneLeft, At, BeingWritten
<1> QED
  BY <1>1, <1>2, <1>3, HandAlways, PTL DEF Spec

\* Without Overwrite no step of a restore touches a file it did not create, but
\* for one put under the path of a file that has failed (os.Remove(target)).
THEOREM OthersFilesSpared == Spec => SparesOthersFiles
<1> DEFINE Spared ==
              ~overwrite => \A f \in Files : disk[f] = Foreign =>
                 \/ disk'[f] = Foreign
                 \/ f \in displaced /\ \E w \in Workers : worker[w].file = f /\ At(w, "remove")
<1>1. ASSUME HandInv, [Next]_vars PROVE Spared
  <2> SUFFICES ASSUME ~overwrite, NEW f \in Files, disk[f] = Foreign,
                      ~(f \in displaced /\ \E w \in Workers : worker[w].file = f /\ At(w, "remove"))
               PROVE  disk'[f] = Foreign
    OBVIOUS
  <2>0. disk \in [Files -> {Absent, Foreign} \cup Content]
    BY <1>1 DEF HandInv, TypeOK
  <2>1. CASE UNCHANGED disk
    BY <2>1
  <2>2. ASSUME NEW g \in Files, CreateForeign(g) \/ Displace(g) PROVE disk'[f] = Foreign
    BY <2>0, <2>2 DEF CreateForeign, Displace
  <2>3. ASSUME NEW w \in Workers, NEW c, SetDisk(w, c), worker[w].file # f
        PROVE  disk'[f] = Foreign
    BY <2>0, <2>3 DEF SetDisk
  <2>4. ASSUME NEW w \in Workers, Worker(w) PROVE disk'[f] = Foreign
    <3>1. Knows(w)
      BY <1>1 DEF HandInv, WorkersKnow
    <3>2. CASE Open(w)
      <4>1. worker[w].file # f
        BY <3>2, ContentAssumption DEF Open, OnDisk
      <4> QED
        BY <2>3, <3>2, <4>1 DEF Open
    <3>3. InPlace(w) => worker[w].file # f
      BY DEF InPlace, OnDisk
    <3>4. CASE Write(w)
      BY <2>1, <2>3, <3>3, <3>4 DEF Write
    <3>5. CASE WriteFails(w)
      BY <2>1, <2>3, <3>3, <3>5 DEF WriteFails
    <3>6. CASE CloseFails(w)
      BY <2>1, <2>3, <3>3, <3>6 DEF CloseFails
    <3>7. CASE Remove(w)
      <4>1. worker[w].file # f
        <5>1. SUFFICES ASSUME worker[w].file = f PROVE FALSE
          OBVIOUS
        <5>2. ~InPlace(w) /\ At(w, "remove")
          BY <3>7, <5>1 DEF InPlace, OnDisk, Remove
        <5>3. f \in displaced
          BY <3>1, <5>1, <5>2, NotInPlaceKnows DEF Lost, At
        <5> QED
          BY <5>1, <5>2, <5>3
      <4> QED
        BY <2>3, <3>7, <4>1 DEF Remove
    <3> QED
      BY <2>1, <2>4, <3>2, <3>4, <3>5, <3>6, <3>7
      DEF Worker, TakeFile, WorkerReturns, OpenFails, GetBlob, GetBlobFails, Close, FileDone,
          WrongSize, RemoveFails
  <2> QED
    BY <1>1, <2>1, <2>2, <2>4
    DEF Next, Feeder, Feed, FeederReturns, Wait, Cancel, vars
<1>2. HandInv /\ [Next]_vars => [Spared]_vars
  BY <1>1
<1> QED
  BY <1>2, HandAlways, PTL DEF Spec, SparesOthersFiles
-----------------------------------------------------------------------------
(* A success means every file                                                *)

\* The workers that have a file are finitely many.
LEMMA BusyFinite == IsFiniteSet(Busy) /\ Cardinality(Busy) \in Nat
BY WorkersAssumption, FS_Subset, FS_CardinalityType DEF Busy

LEMMA DoneInit == Init => DoneInv
<1> SUFFICES ASSUME Init PROVE DoneInv
  OBVIOUS
<1>0. fed = 0 /\ Len(fileCh) = 0
  BY DEF Init
<1>1. Handed = 0 /\ Busy = {}
  <2>1. fed - Len(fileCh) = 0
    BY <1>0
  <2>2. \A w \in Workers : worker[w].file = 0
    BY DEF Init, Idle
  <2>3. {w \in Workers : worker[w].file # 0} = {}
    BY <2>2, Zenon
  <2> QED
    BY <2>1, <2>3 DEF Handed, Busy
<1>2. filesDone + Cardinality(Busy) = Handed
  <2>1. Cardinality(Busy) = 0 /\ filesDone = 0
    BY <1>1, FS_EmptySet DEF Init
  <2> QED
    BY <1>1, <2>1
<1>3. NoneForgotten
  <2>1. \A w \in Workers : ~At(w, "done")
    BY DEF Init, Idle, At
  <2>2. ~fileClosed /\ 1..Handed = {}
    BY <1>1 DEF Init
  <2> QED
    BY <1>2, <2>1, <2>2 DEF NoneForgotten
<1> QED
  BY <1>3 DEF Init, DoneInv, StopsForAReason, SuccessIsComplete

\* A worker's step that keeps its file in hand forgets nothing.
LEMMA KeepsFile ==
    ASSUME HandInv, NoneForgotten, NEW w \in Workers,
           UNCHANGED <<manifest, stopped, fed, fileCh, fileClosed, filesDone>>,
           \A v \in Workers \ {w} : worker'[v] = worker[v],
           worker'[w].file = worker[w].file,
           worker'[w].at = "done" => worker[w].file = 0 /\ (stopped \/ (fileClosed /\ fileCh = <<>>)),
           \A f \in Files \ {worker[w].file} : disk'[f] = disk[f],
           displaced' = displaced
    PROVE  NoneForgotten'
<1> SUFFICES ASSUME ~stopped PROVE NoneForgotten'
  BY DEF NoneForgotten
<1>1. Handed' = Handed /\ Handed <= Len(manifest) /\ Handed \in Nat /\ Files = 1..Len(manifest)
  BY ManifestType DEF Handed, HandInv, TypeOK, QueueInOrder
<1>2. Busy' = Busy
  BY DEF Busy
<1>3. ASSUME NEW f \in 1..Handed, f \notin displaced
      PROVE  Restored(f)' \/ \E v \in Workers : worker'[v].file = f
  <2>1. Restored(f) \/ \E v \in Workers : worker[v].file = f
    BY <1>3 DEF NoneForgotten
  <2>2. CASE \E v \in Workers : worker[v].file = f
    BY <2>2
  <2>3. CASE Restored(f) /\ f # worker[w].file
    BY <1>1, <1>3, <2>3 DEF Restored
  <2> QED
    BY <2>1, <2>2, <2>3
<1>4. \A v \in Workers : At(v, "done")' => worker'[v].file = 0 /\ fileClosed' /\ fileCh' = <<>>
  BY DEF NoneForgotten, At
<1> QED
  BY <1>1, <1>2, <1>3, <1>4 DEF NoneForgotten

LEMMA NoneForgottenStep ==
    ASSUME HandInv, HandInv', NoneForgotten, [Next]_vars
    PROVE  NoneForgotten'
<1>0. /\ worker \in [Workers -> WorkerStates]
      /\ disk \in [Files -> {Absent, Foreign} \cup Content]
      /\ Files = 1..Len(manifest) /\ Len(manifest) \in Nat
      /\ Handed \in Nat /\ Handed <= Len(manifest) /\ fed \in Nat
      /\ fileCh \in Seq(Files) /\ Len(fileCh) \in Nat /\ filesDone \in Nat
  <2>1. /\ worker \in [Workers -> WorkerStates] /\ fed \in 0..Len(manifest)
        /\ disk \in [Files -> {Absent, Foreign} \cup Content]
        /\ fileCh \in Seq(Files) /\ filesDone \in Nat /\ Len(fileCh) <= fed
    BY DEF HandInv, TypeOK, WorkerStates, QueueInOrder
  <2>2. Files = 1..Len(manifest) /\ Len(manifest) \in Nat
    BY ManifestType DEF HandInv
  <2>3. Len(fileCh) \in Nat
    BY <2>1
  <2> QED
    BY <2>1, <2>2, <2>3 DEF Handed
<1> SUFFICES ASSUME ~stopped' PROVE NoneForgotten'
  BY DEF NoneForgotten
<1>1. ~stopped
  BY DEF Next, Feeder, Feed, FeederReturns, Wait, Cancel, CreateForeign, Displace, Worker, TakeFile,
     WorkerReturns, Open, OpenFails, GetBlob, GetBlobFails, Write, WriteFails, Close,
     CloseFails, FileDone, WrongSize, Remove, RemoveFails, Throw, context, vars
<1>2. CASE Feed
  <2>1. fileCh' = Append(fileCh, fed + 1) /\ fed' = fed + 1
        /\ UNCHANGED <<manifest, disk, displaced, worker, fileClosed, filesDone>> /\ ~fileClosed
    BY <1>2 DEF Feed, given, counts
  <2>2. Handed' = Handed
    BY <1>0, <2>1 DEF Handed
  <2> QED
    BY <1>1, <2>1, <2>2 DEF NoneForgotten, Restored, Busy, At
<1>3. CASE FeederReturns
  BY <1>1, <1>3
  DEF FeederReturns, NoneForgotten, Restored, Busy, At, Handed, given, context, counts
<1>4. ASSUME NEW f \in Files, CreateForeign(f) PROVE NoneForgotten'
  <2>1. /\ UNCHANGED <<manifest, displaced, worker, fed, fileCh, fileClosed, filesDone>>
        /\ disk[f] = Absent /\ disk' = [disk EXCEPT ![f] = Foreign]
    BY <1>4 DEF CreateForeign, given, queue, counts
  <2>2. ASSUME NEW g \in Files, Restored(g) PROVE Restored(g)'
    <3>1. g # f
      BY <1>0, <2>1, <2>2, ManifestType, ContentAssumption DEF Restored, Content, HandInv
    <3> QED
      BY <1>0, <2>1, <2>2, <3>1 DEF Restored
  <2>3. Handed' = Handed /\ Busy' = Busy
    BY <2>1 DEF Handed, Busy, At
  <2>4. ASSUME NEW g \in (1..Handed) \ displaced PROVE
          Restored(g)' \/ \E w \in Workers : worker'[w].file = g
    BY <1>0, <1>1, <2>1, <2>2, <2>4 DEF NoneForgotten
  <2> QED
    BY <1>1, <2>1, <2>3, <2>4 DEF NoneForgotten, At
<1>10. ASSUME NEW f \in Files, Displace(f) PROVE NoneForgotten'
  <2>1. /\ UNCHANGED <<manifest, worker, fed, fileCh, fileClosed, filesDone>>
        /\ displaced' = displaced \cup {f}
        /\ \A g \in Files \ {f} : disk'[g] = disk[g]
    BY <1>0, <1>10 DEF Displace, given, queue, counts
  <2>2. \A g \in Files : Restored(g) => g = f \/ Restored(g)'
    BY <2>1 DEF Restored
  <2>3. Handed' = Handed /\ Busy' = Busy
    BY <2>1 DEF Handed, Busy, At
  <2>4. ASSUME NEW g \in (1..Handed) \ displaced' PROVE
          Restored(g)' \/ \E w \in Workers : worker'[w].file = g
    BY <1>0, <1>1, <2>1, <2>2, <2>4 DEF NoneForgotten
  <2> QED
    BY <1>1, <2>1, <2>3, <2>4 DEF NoneForgotten, At
<1>5. CASE UNCHANGED vars
  BY <1>1, <1>5
  DEF vars, given, queue, context, counts, NoneForgotten, Restored, Busy, At, Handed
<1>6. ASSUME NEW w \in Workers, TakeFile(w) PROVE NoneForgotten'
  <2>1. /\ UNCHANGED <<manifest, disk, displaced, fed, fileClosed, filesDone>>
        /\ fileCh # <<>> /\ fileCh' = Tail(fileCh)
        /\ At(w, "recv") /\ worker'[w].at = "open" /\ worker'[w].file = Head(fileCh)
        /\ \A v \in Workers \ {w} : worker'[v] = worker[v]
    BY <1>0, <1>6 DEF TakeFile, given, counts
  <2>2. Len(fileCh') = Len(fileCh) - 1 /\ Len(fileCh) > 0 /\ Head(fileCh) = fileCh[1]
    BY <1>0, <2>1, HeadTailProperties
  <2>3. Head(fileCh) = Handed + 1
    BY <1>0, <2>2 DEF HandInv, QueueInOrder
  <2>4. Handed' = Handed + 1
    BY <1>0, <2>1, <2>2 DEF Handed
  <2>5. w \notin Busy /\ Busy' = Busy \cup {w}
    BY <1>0, <2>1, <2>3 DEF Busy, HandInv, WorkersKnow, Knows
  <2>6. Cardinality(Busy') = Cardinality(Busy) + 1
    BY <2>5, BusyFinite, FS_AddElement
  <2>7. ASSUME NEW f \in 1..Handed', f \notin displaced
        PROVE  Restored(f)' \/ \E v \in Workers : worker'[v].file = f
    <3>1. CASE f = Handed + 1
      BY <2>1, <2>3, <3>1
    <3>2. CASE f \in 1..Handed
      <4>1. Restored(f) \/ \E v \in Workers : worker[v].file = f
        BY <1>1, <2>7, <3>2 DEF NoneForgotten
      <4>2. \A v \in Workers : worker[v].file = f => v # w
        BY <2>1, <3>2 DEF HandInv, WorkersKnow, Knows
      <4> QED
        BY <2>1, <4>1, <4>2 DEF Restored
    <3> QED
      BY <1>0, <2>4, <3>1, <3>2
  <2>8. \A v \in Workers : ~At(v, "done")'
    BY <1>1, <2>1 DEF NoneForgotten, At
  <2>9. fileClosed' => fed' = Len(manifest')
    BY <1>1, <2>1 DEF NoneForgotten
  <2>10. filesDone' + Cardinality(Busy') = Handed'
    BY <1>0, <1>1, <2>1, <2>4, <2>6, BusyFinite DEF NoneForgotten
  <2> QED
    BY <2>1, <2>7, <2>8, <2>9, <2>10 DEF NoneForgotten
<1>7. ASSUME NEW w \in Workers, FileDone(w) PROVE NoneForgotten'
  <2>1. /\ UNCHANGED <<manifest, disk, displaced, fed, fileCh, fileClosed>>
        /\ filesDone' = filesDone + 1
        /\ worker'[w] = Idle /\ \A v \in Workers \ {w} : worker'[v] = worker[v]
    BY <1>0, <1>7 DEF FileDone, given, queue
  <2>2. worker[w].file \in Files /\ (worker[w].file \in displaced \/ Restored(worker[w].file))
    BY <1>7, DoneWhole DEF Lost
  <2>3. Handed' = Handed
    BY <2>1 DEF Handed
  <2>4. w \in Busy /\ Busy' = Busy \ {w}
    BY <1>0, <2>1, <2>2 DEF Busy, Idle
  <2>5. Cardinality(Busy') = Cardinality(Busy) - 1
    BY <2>4, BusyFinite, FS_RemoveElement
  <2>6. ASSUME NEW f \in 1..Handed, f \notin displaced
        PROVE  Restored(f)' \/ \E v \in Workers : worker'[v].file = f
    <3>1. Restored(f) \/ \E v \in Workers : worker[v].file = f
      BY <1>1, <2>6 DEF NoneForgotten
    <3>2. f # worker[w].file => Restored(f) \/ \E v \in Workers : worker'[v].file = f
      BY <2>1, <3>1
    <3> QED
      BY <2>1, <2>2, <2>6, <3>2 DEF Restored
  <2>7. \A v \in Workers : At(v, "done")' => worker'[v].file = 0 /\ fileClosed' /\ fileCh' = <<>>
    BY <1>1, <2>1 DEF NoneForgotten, At, Idle
  <2>8. filesDone' + Cardinality(Busy') = Handed'
    BY <1>0, <1>1, <2>1, <2>3, <2>5, BusyFinite DEF NoneForgotten
  <2>9. fileClosed' => fed' = Len(manifest')
    BY <1>1, <2>1 DEF NoneForgotten
  <2> QED
    BY <2>1, <2>3, <2>6, <2>7, <2>8, <2>9 DEF NoneForgotten
<1>8. ASSUME NEW w \in Workers, Worker(w), ~TakeFile(w), ~FileDone(w) PROVE NoneForgotten'
  <2>1. ~OpenFails(w) /\ ~CloseFails(w) /\ ~Remove(w) /\ ~RemoveFails(w)
    BY DEF OpenFails, CloseFails, Remove, RemoveFails, Throw
  <2>2. /\ UNCHANGED <<manifest, displaced, stopped, fed, fileCh, fileClosed, filesDone>>
        /\ \A v \in Workers \ {w} : worker'[v] = worker[v]
    BY <1>0, <1>8, <2>1 DEF Worker, WorkerReturns, Open, GetBlob, GetBlobFails,
       Write, WriteFails, Close, WrongSize, Goto, given, context, queue, counts
  <2>3. \A f \in Files \ {worker[w].file} : disk'[f] = disk[f]
    BY <1>0, <1>8, <2>1 DEF Worker, WorkerReturns, Open, GetBlob, GetBlobFails,
       Write, WriteFails, Close, WrongSize, SetDisk
  <2>4. CASE WorkerReturns(w)
    <3>1. worker'[w] = Done /\ worker[w].file = 0
      BY <1>0, <2>4 DEF WorkerReturns, HandInv, WorkersKnow, Knows
    <3> QED
      BY <2>2, <2>3, <2>4, <3>1, KeepsFile DEF WorkerReturns, Done
  <2>5. CASE Open(w) \/ GetBlob(w) \/ GetBlobFails(w) \/ WriteFails(w) \/ Close(w) \/ WrongSize(w)
    <3>1. \E l \in {"copy", "write", "remove", "check"} : Goto(w, l)
      BY <2>5 DEF Open, GetBlob, GetBlobFails, WriteFails, Close, WrongSize
    <3>2. worker'[w].file = worker[w].file /\ worker'[w].at # "done"
      BY <1>0, <3>1 DEF Goto, WorkerStates
    <3> QED
      BY <2>2, <2>3, <3>2, KeepsFile
  <2>6. CASE Write(w)
    <3>1. worker'[w].file = worker[w].file /\ worker'[w].at # "done"
      BY <1>0, <2>6 DEF Write, WorkerStates
    <3> QED
      BY <2>2, <2>3, <3>1, KeepsFile
  <2> QED
    BY <1>8, <2>1, <2>4, <2>5, <2>6 DEF Worker
<1>9. ~Wait /\ ~Cancel
  BY DEF Wait, Cancel
<1> QED
  BY <1>2, <1>3, <1>4, <1>5, <1>6, <1>7, <1>8, <1>9, <1>10 DEF Next, Feeder
\* The group stops only for an error or because the caller is gone.
LEMMA StopsForAReasonStep == StopsForAReason /\ [Next]_vars => StopsForAReason'
BY DEF StopsForAReason, Next, Feeder, Feed, FeederReturns, Wait, Cancel, CreateForeign, Displace,
   Worker, TakeFile, WorkerReturns, Open, OpenFails, GetBlob, GetBlobFails, Write, WriteFails, Close,
   CloseFails, FileDone, WrongSize, Remove, RemoveFails, Throw, context, vars

\* Once RestoreFiles has returned, only other programs move.
LEMMA NothingAfter ==
    ASSUME DoneInv, [Next]_vars, main # "wait"
    PROVE  /\ UNCHANGED <<given, context, queue, worker, counts, main, displaced>>
           /\ disk' = disk \/ \E f \in Files : CreateForeign(f)
<1>1. fileClosed /\ \A w \in Workers : worker[w].at = "done"
  BY DEF DoneInv, GroupReturned, At
<1>3. \A f \in Files : ~Displace(f)
  BY <1>1 DEF Displace, BeingWritten
<1>2. \A w \in Workers : ~Worker(w)
  BY <1>1
  DEF Worker, At, TakeFile, WorkerReturns, Open, OpenFails, GetBlob, GetBlobFails, Write, WriteFails,
      Close, CloseFails, FileDone, WrongSize, Remove, RemoveFails
<1> QED
  BY <1>1, <1>2, <1>3 DEF Next, Feeder, Feed, FeederReturns, Wait, Cancel, CreateForeign, vars

\* When the last goroutine has returned, and for no error, every file is there.
LEMMA WaitCompletes ==
    ASSUME HandInv, DoneInv, Wait
    PROVE  SuccessIsComplete'
<1> SUFFICES ASSUME ~failed, ~canceled PROVE SuccessIsComplete'
  BY DEF Wait, SuccessIsComplete
<1>1. ~stopped /\ fileClosed /\ \A w \in Workers : At(w, "done")
  BY DEF Wait, GroupReturned, DoneInv, StopsForAReason
<1>2. fed = Len(manifest) /\ fileCh = <<>> /\ \A w \in Workers : worker[w].file = 0
  BY <1>1, WorkersAssumption DEF DoneInv, NoneForgotten
<1>3. Len(fileCh) = 0
  BY <1>2
<1>4. Handed = Len(manifest) /\ Len(manifest) \in Nat /\ Files = 1..Len(manifest)
  BY <1>2, <1>3, ManifestType DEF Handed, HandInv
<1>5. Cardinality(Busy) = 0
  <2>1. Busy = {}
    BY <1>2 DEF Busy
  <2> QED
    BY <2>1, FS_EmptySet
<1>6. filesDone = Len(manifest)
  BY <1>1, <1>4, <1>5 DEF DoneInv, NoneForgotten, HandInv, TypeOK
<1>7. \A f \in Files \ displaced : Restored(f)
  <2> SUFFICES ASSUME NEW f \in Files \ displaced PROVE Restored(f)
    OBVIOUS
  <2>1. f # 0 /\ f \in 1..Handed
    BY <1>4
  <2> QED
    BY <1>1, <1>2, <2>1 DEF DoneInv, NoneForgotten
<1>8. UNCHANGED <<manifest, disk, filesDone, displaced>>
  BY DEF Wait, given, counts
<1> QED
  BY <1>6, <1>7, <1>8 DEF SuccessIsComplete, Restored, Files

\* No other program undoes a success.
LEMMA SuccessStays ==
    ASSUME HandInv, DoneInv, [Next]_vars, main # "wait"
    PROVE  SuccessIsComplete'
<1>1. /\ UNCHANGED <<manifest, filesDone, main, displaced>>
      /\ (disk' = disk \/ \E f \in Files : CreateForeign(f))
  BY NothingAfter DEF given, counts
<1>2. ASSUME main = "succeeded", NEW f \in Files \ displaced
      PROVE  disk[f] = manifest[f].chunks /\ Len(disk[f]) = manifest[f].size /\ disk'[f] = disk[f]
  <2>1. disk[f] = manifest[f].chunks /\ Len(disk[f]) = manifest[f].size
    BY <1>2 DEF DoneInv, SuccessIsComplete, Restored
  <2>2. manifest[f].chunks \in Content
    BY ManifestType DEF HandInv, Content
  <2>3. disk[f] # Absent
    BY <2>1, <2>2, ContentAssumption
  <2> QED
    BY <1>1, <2>1, <2>3 DEF CreateForeign, HandInv, TypeOK
<1>3. main = "succeeded" => filesDone = Len(manifest)
  BY DEF DoneInv, SuccessIsComplete
<1> QED
  BY <1>1, <1>2, <1>3 DEF SuccessIsComplete, Restored, Files

LEMMA DoneStep ==
    ASSUME HandInv, HandInv', DoneInv, [Next]_vars
    PROVE  DoneInv'
<1>1. NoneForgotten'
  BY NoneForgottenStep DEF DoneInv
<1>2. StopsForAReason'
  BY StopsForAReasonStep DEF DoneInv
<1>3. CASE main # "wait"
  <2>1. SuccessIsComplete'
    BY <1>3, SuccessStays
  <2>2. stopped' /\ GroupReturned'
    BY <1>3, NothingAfter DEF DoneInv, GroupReturned, At, context, queue
  <2> QED
    BY <1>1, <1>2, <2>1, <2>2 DEF DoneInv
<1>4. CASE Wait
  <2>1. SuccessIsComplete'
    BY <1>4, WaitCompletes
  <2>2. stopped' /\ GroupReturned'
    BY <1>4 DEF Wait, GroupReturned, At, queue
  <2> QED
    BY <1>1, <1>2, <2>1, <2>2 DEF DoneInv
<1>5. CASE main = "wait" /\ ~Wait
  <2>1. main' = "wait"
    BY <1>5
    DEF Next, Feeder, Feed, FeederReturns, Cancel, CreateForeign, Displace, Worker, TakeFile, WorkerReturns,
        Open, OpenFails, GetBlob, GetBlobFails, Write, WriteFails, Close, CloseFails, FileDone,
        WrongSize, Remove, RemoveFails, Throw, vars
  <2> QED
    BY <1>1, <1>2, <2>1 DEF DoneInv, SuccessIsComplete
<1> QED
  BY <1>3, <1>4, <1>5

\* A restore that returns no error has written every file of the snapshot.
THEOREM SuccessMeansEveryFile == Spec => []SuccessIsComplete
<1>1. Init => DoneInv
  BY DoneInit
<1>2. HandInv /\ HandInv' /\ DoneInv /\ [Next]_vars => DoneInv'
  BY DoneStep
<1>3. DoneInv => SuccessIsComplete
  BY DEF DoneInv
<1> QED
  BY <1>1, <1>2, <1>3, HandAlways, PTL DEF Spec
-----------------------------------------------------------------------------
(* No goroutine waits for one that has gone                                  *)

\* When each goroutine can take a step: the disjunction of its actions' guards.
FeederCanGo == ~fileClosed /\ (fed = Len(manifest) \/ Len(fileCh) < FileQueue \/ stopped)

WorkerCanGo(w) ==
    \/ At(w, "recv") /\ (fileCh # <<>> \/ fileClosed \/ stopped)
    \/ worker[w].at \in {"open", "copy", "check", "remove"}
    \/ At(w, "write") /\ worker[w].todo # <<>>

MainCanGo == main = "wait" /\ GroupReturned

SomeoneCanGo == FeederCanGo \/ MainCanGo \/ \E w \in Workers : WorkerCanGo(w)

\* Until RestoreFiles returns, one of its goroutines can go on.
NeverStuck == main = "wait" => SomeoneCanGo

\* Goroutines that cannot go on have returned: a worker waits at most for the
\* feeder, and one that has left an open channel has stopped the group.
LEMMA StuckGroupReturned ==
    ASSUME HandInv, DoneInv, ~SomeoneCanGo
    PROVE  GroupReturned
<1>1. ~FeederCanGo /\ \A w \in Workers : ~WorkerCanGo(w)
  BY DEF SomeoneCanGo
<1>2. \A w \in Workers : worker[w].at \in {"recv", "done"}
  BY <1>1 DEF HandInv, TypeOK, WorkersKnow, Knows, WorkerCanGo, At
<1>3. fileClosed
  <2>1. SUFFICES ASSUME ~fileClosed PROVE FALSE
    OBVIOUS
  <2>2. ~stopped /\ ~(Len(fileCh) < FileQueue)
    BY <1>1, <2>1 DEF FeederCanGo
  <2>3. fileCh # <<>>
    BY <2>2, EmptySeq, FileQueueAssumption
  <2>4. PICK w \in Workers : TRUE
    BY WorkersAssumption
  <2>5. At(w, "done")
    BY <1>1, <1>2, <2>3 DEF WorkerCanGo, At
  <2> QED
    BY <2>1, <2>2, <2>5 DEF DoneInv, NoneForgotten
<1>4. \A w \in Workers : At(w, "done")
  BY <1>1, <1>2, <1>3 DEF WorkerCanGo, At
<1> QED
  BY <1>3, <1>4 DEF GroupReturned

\* With any number of workers, whatever fails or is canceled, the feeder never
\* waits for ever for a worker, or a worker for the feeder (RestoreFiles).
THEOREM NeverDeadlocks == Spec => []NeverStuck
<1>1. ASSUME HandInv, DoneInv PROVE NeverStuck
  <2>1. SUFFICES ASSUME main = "wait", ~SomeoneCanGo PROVE FALSE
    BY DEF NeverStuck
  <2>2. GroupReturned
    BY <1>1, <2>1, StuckGroupReturned
  <2> QED
    BY <2>1, <2>2 DEF SomeoneCanGo, MainCanGo
<1>2. Init => DoneInv
  BY DoneInit
<1>3. HandInv /\ HandInv' /\ DoneInv /\ [Next]_vars => DoneInv'
  BY DoneStep
<1> QED
  BY <1>1, <1>2, <1>3, HandAlways, PTL DEF Spec
=============================================================================
