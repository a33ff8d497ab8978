------------------------------ MODULE Restore ------------------------------
(***************************************************************************)
(* One call of pipeline.RestoreFiles: a feeder and the workers, each with  *)
(* one file at a time, that write the files of a snapshot under a          *)
(* directory other programs may use.  A chunk is its blob ID and counts    *)
(* one byte; what a file holds is the sequence of chunks written to it.    *)
(***************************************************************************)
EXTENDS Naturals, Sequences, FiniteSets

CONSTANTS
    Manifests,      \* the snapshots to restore: sequences of [chunks, size]
    Blobs,
    Workers,
    FileQueue,      \* the capacity of fileCh
    Faults,         \* what may go wrong: see FaultsAssumption
    Absent,         \* there is no such file
    Foreign,        \* a file this restore has not written
    Torn            \* part of a chunk

ASSUME ManifestsAssumption == Manifests \subseteq Seq([chunks : Seq(Blobs), size : Nat])
ASSUME WorkersAssumption == IsFiniteSet(Workers) /\ Workers # {}
ASSUME FileQueueAssumption == FileQueue \in Nat \ {0}
ASSUME FaultsAssumption ==
    Faults \subseteq {"open", "blob", "write", "close", "remove", "cancel", "displace"}

\* What a file under the target holds that this restore has written.
Content == Seq(Blobs \cup {Torn})

ASSUME ContentAssumption ==
    /\ Torn \notin Blobs /\ Absent # Foreign
    /\ Absent \notin Content /\ Foreign \notin Content

VARIABLES
    manifest, overwrite,    \* snap.Files and RestoreOptions.Overwrite
    disk,       \* what each file of the manifest holds under the target
    canceled, stopped,      \* are the contexts of the caller and the group done?
    failed,     \* has the group an error?
    fed, fileCh, fileClosed,
    worker,     \* each worker: [at, file, todo]
    filesDone, bytesWritten,
    main,       \* what RestoreFiles itself does next
    displaced   \* history, not in the code: the files another program has taken
                \* from under the worker that was writing them

given == <<manifest, overwrite>>
context == <<canceled, stopped, failed>>
queue == <<fed, fileCh, fileClosed>>
counts == <<filesDone, bytesWritten>>
vars == <<given, disk, context, queue, worker, counts, main, displaced>>

Files == DOMAIN manifest
Idle == [at |-> "recv", file |-> 0, todo |-> <<>>]
Done == [at |-> "done", file |-> 0, todo |-> <<>>]

Init ==
    /\ manifest \in Manifests /\ overwrite \in BOOLEAN
    /\ disk \in [Files -> {Absent, Foreign}]
    /\ canceled = FALSE /\ stopped = FALSE /\ failed = FALSE
    /\ fed = 0 /\ fileCh = <<>> /\ fileClosed = FALSE
    /\ worker = [w \in Workers |-> Idle]
    /\ filesDone = 0 /\ bytesWritten = 0
    /\ main = "wait" /\ displaced = {}

-----------------------------------------------------------------------------
(* The feeder                                                              *)

\* Mutant: fileCh has no bound.
FeedUnbounded ==
    /\ ~fileClosed
    /\ fed < Len(manifest)
    /\ fileCh' = Append(fileCh, fed + 1)
    /\ fed' = fed + 1
    /\ UNCHANGED <<given, disk, context, fileClosed, worker, counts, main, displaced>>

Feed ==
    /\ ~fileClosed
    /\ fed < Len(manifest) /\ Len(fileCh) < FileQueue
    /\ fileCh' = Append(fileCh, fed + 1)
    /\ fed' = fed + 1
    /\ UNCHANGED <<given, disk, context, fileClosed, worker, counts, main, displaced>>

\* Mutant: the feeder sends without selecting on the context.
FeederReturnsAtEnd ==
    /\ ~fileClosed
    /\ fed = Len(manifest)
    /\ fileClosed' = TRUE
    /\ UNCHANGED <<given, disk, context, fed, fileCh, worker, counts, main, displaced>>

\* All files are sent, or the send was canceled.
FeederReturns ==
    /\ ~fileClosed
    /\ fed = Len(manifest) \/ stopped
    /\ fileClosed' = TRUE
    /\ UNCHANGED <<given, disk, context, fed, fileCh, worker, counts, main, displaced>>

-----------------------------------------------------------------------------
(* A worker                                                                *)

At(w, l) == worker[w].at = l
Goto(w, l) == worker' = [worker EXCEPT ![w].at = l]
SetDisk(w, content) == disk' = [disk EXCEPT ![worker[w].file] = content]
OnDisk(w) == disk[worker[w].file]

\* The file the worker has open still has its name.
InPlace(w) == OnDisk(w) \notin {Absent, Foreign}

TakeFile(w) ==
    /\ At(w, "recv") /\ fileCh # <<>>
    /\ LET f == Head(fileCh)
       IN  worker' = [worker EXCEPT ![w] =
                        [at |-> "open", file |-> f, todo |-> manifest[f].chunks]]
    /\ fileCh' = Tail(fileCh)
    /\ UNCHANGED <<given, disk, context, fed, fileClosed, counts, main, displaced>>

WorkerReturns(w) ==
    /\ At(w, "recv")
    /\ (fileClosed /\ fileCh = <<>>) \/ stopped
    /\ worker' = [worker EXCEPT ![w] = Done]
    /\ UNCHANGED <<given, disk, context, queue, counts, main, displaced>>

\* The worker returns an error, which stops the group; r is how it ends.
Throw(w, r) ==
    /\ worker' = [worker EXCEPT ![w] = r]
    /\ failed' = TRUE /\ stopped' = TRUE
    /\ UNCHANGED <<given, canceled, queue, counts, main, displaced>>

\* Mutant: O_EXCL is forgotten.
OpenAnything(w) ==
    /\ At(w, "open")
    /\ SetDisk(w, <<>>)
    /\ Goto(w, "copy")
    /\ UNCHANGED <<given, context, queue, counts, main, displaced>>

\* O_EXCL, or O_TRUNC with Overwrite.
Open(w) ==
    /\ At(w, "open")
    /\ overwrite \/ (OnDisk(w) = Absent)
    /\ SetDisk(w, <<>>)
    /\ Goto(w, "copy")
    /\ UNCHANGED <<given, context, queue, counts, main, displaced>>

OpenFails(w) ==
    /\ At(w, "open")
    /\ "open" \in Faults \/ (~overwrite /\ OnDisk(w) # Absent)
    /\ Throw(w, Done)
    /\ UNCHANGED disk

GetBlob(w) ==
    /\ At(w, "copy") /\ worker[w].todo # <<>>
    /\ ~stopped
    /\ Goto(w, "write")
    /\ UNCHANGED <<given, disk, context, queue, counts, main, displaced>>

\* The context is done; or the blob is not in the index, cannot be read, or is
\* not the one its address says.
GetBlobFails(w) ==
    /\ At(w, "copy") /\ worker[w].todo # <<>>
    /\ stopped \/ "blob" \in Faults
    /\ Goto(w, "remove")
    /\ UNCHANGED <<given, disk, context, queue, counts, main, displaced>>

\* What is written to a file that has lost its name goes with it.
Write(w) ==
    /\ At(w, "write")
    /\ IF InPlace(w) THEN SetDisk(w, Append(OnDisk(w), Head(worker[w].todo)))
                     ELSE UNCHANGED disk
    /\ worker' = [worker EXCEPT ![w].at = "copy", ![w].todo = Tail(@)]
    /\ UNCHANGED <<given, context, queue, counts, main, displaced>>

\* Some of the chunk may be in the file.
WriteFails(w) ==
    /\ At(w, "write") /\ "write" \in Faults
    /\ UNCHANGED disk \/ (InPlace(w) /\ SetDisk(w, Append(OnDisk(w), Torn)))
    /\ Goto(w, "remove")
    /\ UNCHANGED <<given, context, queue, counts, main, displaced>>

Close(w) ==
    /\ At(w, "copy") /\ worker[w].todo = <<>>
    /\ Goto(w, "check")
    /\ UNCHANGED <<given, disk, context, queue, counts, main, displaced>>

\* The filesystem may say only now that some of the data is lost.  The file
\* stays, and the worker, though done, is recorded as having left it.
CloseFails(w) ==
    /\ At(w, "copy") /\ worker[w].todo = <<>>
    /\ "close" \in Faults
    /\ \/ UNCHANGED disk
       \/ InPlace(w) /\ \E n \in 0..Len(OnDisk(w)) : SetDisk(w, SubSeq(OnDisk(w), 1, n))
    /\ Throw(w, [worker[w] EXCEPT !.at = "done"])

\* written: what the writes have taken, wherever it is now.
Written(w) == Len(manifest[worker[w].file].chunks) - Len(worker[w].todo)

RightSize(w) == Written(w) = manifest[worker[w].file].size

FileDone(w) ==
    /\ At(w, "check") /\ RightSize(w)
    /\ filesDone' = filesDone + 1
    /\ bytesWritten' = bytesWritten + Written(w)
    /\ worker' = [worker EXCEPT ![w] = Idle]
    /\ UNCHANGED <<given, disk, context, queue, main, displaced>>

WrongSize(w) ==
    /\ At(w, "check") /\ ~RightSize(w)
    /\ Goto(w, "remove")
    /\ UNCHANGED <<given, disk, context, queue, counts, main, displaced>>

\* Mutant: the partial file stays.
RemoveNothing(w) == At(w, "remove") /\ Throw(w, Done) /\ UNCHANGED disk

\* os.Remove goes by the path: it takes whatever is there.
Remove(w) == At(w, "remove") /\ SetDisk(w, Absent) /\ Throw(w, Done)

\* Its error is dropped.  The file stays, and the worker is recorded as having
\* left it.
RemoveFails(w) ==
    /\ At(w, "remove") /\ "remove" \in Faults
    /\ Throw(w, [worker[w] EXCEPT !.at = "done"])
    /\ UNCHANGED disk

-----------------------------------------------------------------------------
(* RestoreFiles, and what happens around it                                *)

GroupReturned == fileClosed /\ \A w \in Workers : At(w, "done")

\* Mutant: a canceled group without an error counts as a success.
WaitIgnoringCancel ==
    /\ main = "wait" /\ GroupReturned
    /\ stopped' = TRUE
    /\ main' = IF failed THEN "failed" ELSE "succeeded"
    /\ UNCHANGED <<given, disk, canceled, failed, queue, worker, counts, displaced>>

Wait ==
    /\ main = "wait" /\ GroupReturned
    /\ stopped' = TRUE
    /\ main' = IF failed \/ canceled THEN "failed" ELSE "succeeded"
    /\ UNCHANGED <<given, disk, canceled, failed, queue, worker, counts, displaced>>

Cancel ==
    /\ "cancel" \in Faults
    /\ main = "wait" /\ ~canceled
    /\ canceled' = TRUE /\ stopped' = TRUE
    /\ UNCHANGED <<given, disk, failed, queue, worker, counts, main, displaced>>

\* Another program makes a file in the target, where there is none.
CreateForeign(f) ==
    /\ disk[f] = Absent
    /\ disk' = [disk EXCEPT ![f] = Foreign]
    /\ UNCHANGED <<given, context, queue, worker, counts, main, displaced>>

\* A worker has opened the file and not yet finished with it.
BeingWritten(f) == \E w \in Workers : worker[w].file = f /\ worker[w].at \notin {"open", "done"}

\* Another program removes the file a worker is writing, or renames one over it:
\* the worker's handle stays good, but no longer belongs to the path.
Displace(f) ==
    /\ "displace" \in Faults
    /\ BeingWritten(f) /\ disk[f] \notin {Absent, Foreign}
    /\ \E c \in {Absent, Foreign} : disk' = [disk EXCEPT ![f] = c]
    /\ displaced' = displaced \cup {f}
    /\ UNCHANGED <<given, context, queue, worker, counts, main>>

Feeder == Feed \/ FeederReturns

Worker(w) ==
    \/ TakeFile(w) \/ WorkerReturns(w) \/ Open(w) \/ OpenFails(w)
    \/ GetBlob(w) \/ GetBlobFails(w) \/ Write(w) \/ WriteFails(w)
    \/ Close(w) \/ CloseFails(w) \/ FileDone(w) \/ WrongSize(w)
    \/ Remove(w) \/ RemoveFails(w)

Next ==
    \/ Feeder
    \/ \E w \in Workers : Worker(w)
    \/ Wait
    \/ Cancel
    \/ \E f \in Files : CreateForeign(f) \/ Displace(f)
    \/ main # "wait" /\ UNCHANGED vars

\* The Go scheduler runs every goroutine that can run, and system calls return.
Fairness == WF_vars(Feeder) /\ WF_vars(Wait) /\ \A w \in Workers : WF_vars(Worker(w))

Spec == Init /\ [][Next]_vars /\ Fairness

-----------------------------------------------------------------------------
(* Properties                                                              *)

TypeOK ==
    /\ manifest \in Manifests /\ overwrite \in BOOLEAN
    /\ disk \in [Files -> {Absent, Foreign} \cup Content]
    /\ canceled \in BOOLEAN /\ stopped \in BOOLEAN /\ failed \in BOOLEAN
    /\ fileClosed \in BOOLEAN
    /\ fed \in 0..Len(manifest)
    /\ fileCh \in Seq(Files) /\ Len(fileCh) <= FileQueue
    /\ worker \in [Workers -> [
          at : {"recv", "open", "copy", "write", "check", "remove", "done"},
          file : Files \cup {0}, todo : Seq(Blobs)]]
    /\ filesDone \in Nat /\ bytesWritten \in Nat
    /\ main \in {"wait", "succeeded", "failed"}
    /\ displaced \subseteq Files

Restored(f) == disk[f] = manifest[f].chunks /\ Len(disk[f]) = manifest[f].size

Whole(f) == disk[f] \in {Absent, Foreign} \/ Restored(f)

\* A worker is done with the file but could not close it, or not remove it: the
\* two ways restoreOneFile leaves one that is not what the manifest says.
LeftBehind(f) == \E w \in Workers : worker[w].file = f /\ At(w, "done")

\* Under the target a file is somebody else's, or absent, or exactly what the
\* manifest says, or a worker is still writing it.  Any other has had its close
\* or its removal fail, and then the restore fails too: nothing a restore leaves
\* looks like a restored file and is not, without an error that says so.
WholeOrNothing ==
    \A f \in Files : Whole(f) \/ BeingWritten(f) \/ (LeftBehind(f) /\ failed)

\* A restore that succeeds has written every file of the snapshot, although a
\* feeder or worker that finds its context done returns without an error; and
\* the files are there, but for those another program took while they were written.
SuccessIsComplete ==
    main = "succeeded" =>
        /\ \A f \in Files \ displaced : Restored(f)
        /\ filesDone = Len(manifest)

\* Without Overwrite the restore never changes or removes a file it did not
\* create, not even one that appears while it runs; except that a worker whose
\* file fails removes by its path, and with it what another program put there.
SparesOthersFiles ==
    [][~overwrite => \A f \in Files : disk[f] = Foreign =>
          \/ disk'[f] = Foreign
          \/ f \in displaced /\ \E w \in Workers : worker[w].file = f /\ At(w, "remove")]_vars

\* RestoreFiles returns, whatever fails and whenever it is canceled.
Returns == <>(main # "wait")
=============================================================================
