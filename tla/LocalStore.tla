----------------------------- MODULE LocalStore -----------------------------
(***************************************************************************)
(* The filesystem store (internal/store/localfs): the system calls that    *)
(* Put, PutIfAbsent and Delete make, by concurrent callers, and what a     *)
(* power loss leaves of them.                                              *)
(*                                                                         *)
(* POSIX promises that a file's data survives once the file is synced, and *)
(* a name in a directory once the directory is.  Until then the file       *)
(* system may have written a change or not.  A directory is itself a name  *)
(* in its parent.                                                          *)
(***************************************************************************)
EXTENDS FiniteSets

CONSTANTS
    Callers, Keys, Values,
    Dirs, DirOf,    \* the directories of the keys
    NewDirs,        \* those that do not exist at first
    Ops,            \* the operations each caller may call
    Fsync,          \* FALSE under the option WithoutFsync
    Absent,         \* there is no object under the key
    Torn            \* an object whose bytes are lost or incomplete

ASSUME DirsAssumption == DirOf \in [Keys -> Dirs] /\ NewDirs \subseteq Dirs
ASSUME OpsAssumption == Ops \in [Callers -> SUBSET {"put", "putIfAbsent", "delete"}]
ASSUME FsyncAssumption == Fsync \in BOOLEAN
ASSUME ValuesAssumption == Absent \notin Values /\ Torn \notin Values /\ Absent # Torn

VARIABLES
    entry,      \* the file each key names: [val, synced], or NoFile
    onDisk,     \* the files it may name after a power loss
    dirs,       \* each directory: "none", "new" or "durable"
    call,       \* each caller's call: [op, key, val, effect], or the last [answer]
    at,         \* what each caller does next
    tmp         \* each caller's temporary file

files == <<entry, onDisk, dirs>>
vars == <<files, call, at, tmp>>

File == [val : Values \cup {Torn}, synced : BOOLEAN]
NoFile == [val |-> Absent, synced |-> TRUE]

Effects == {"none", "done", "created", "exists", "gone"}
Calls == [op : {"put", "putIfAbsent", "delete"}, key : Keys, val : Values \cup {Absent},
          effect : Effects]

TypeOK ==
    /\ entry \in [Keys -> File \cup {NoFile}]
    /\ onDisk \in [Keys -> SUBSET (File \cup {NoFile})]
    /\ \A k \in Keys : entry[k] \in onDisk[k]
    /\ dirs \in [Dirs -> {"none", "new", "durable"}]
    /\ call \in [Callers -> Calls \cup [answer : Effects \cup {"error"}]]
    /\ at \in [Callers -> {"idle", "mkdir", "write", "sync", "publish", "remove", "syncDir", "return"}]
    /\ tmp \in [Callers -> File \cup {NoFile}]
    /\ \A p \in Callers : tmp[p] # NoFile => at[p] \in {"sync", "publish"}

Init ==
    /\ entry = [k \in Keys |-> NoFile]
    /\ onDisk = [k \in Keys |-> {NoFile}]
    /\ dirs = [d \in Dirs |-> IF d \in NewDirs THEN "none" ELSE "durable"]
    /\ call = [p \in Callers |-> [answer |-> "none"]]
    /\ at = [p \in Callers |-> "idle"]
    /\ tmp = [p \in Callers |-> NoFile]

Dir(p) == DirOf[call[p].key]
Goto(p, l) == at' = [at EXCEPT ![p] = l]
Effect(p, e) == call' = [call EXCEPT ![p].effect = e]

-----------------------------------------------------------------------------
(* Put and PutIfAbsent: the temporary file                                 *)

Begin(p, o, k, v) ==
    /\ at[p] = "idle"
    /\ o \in Ops[p]
    /\ v = Absent <=> o = "delete"
    /\ call' = [call EXCEPT ![p] = [op |-> o, key |-> k, val |-> v, effect |-> "none"]]
    /\ Goto(p, IF o = "delete" THEN "remove" ELSE "mkdir")
    /\ UNCHANGED <<files, tmp>>

\* MkdirAll: nothing makes the new directory's own name durable.
MakeDir(p) ==
    /\ at[p] = "mkdir"
    /\ dirs' = [dirs EXCEPT ![Dir(p)] = IF @ = "none" THEN "new" ELSE @]
    /\ Goto(p, "write")
    /\ UNCHANGED <<entry, onDisk, call, tmp>>

WriteTemp(p) ==
    /\ at[p] = "write"
    /\ tmp' = [tmp EXCEPT ![p] = [val |-> call[p].val, synced |-> FALSE]]
    /\ Goto(p, "sync")
    /\ UNCHANGED <<files, call>>

\* Mutant: the file is published without having been synced.
SyncTempSkipped(p) ==
    /\ at[p] = "sync"
    /\ Goto(p, "publish")
    /\ UNCHANGED <<files, call, tmp>>

SyncTemp(p) ==
    /\ at[p] = "sync"
    /\ tmp' = [tmp EXCEPT ![p].synced = Fsync]
    /\ Goto(p, "publish")
    /\ UNCHANGED <<files, call>>

-----------------------------------------------------------------------------
(* Publishing and removing                                                 *)

\* The name changes at once; a power loss may still undo it.
SetEntry(k, f) ==
    /\ entry' = [entry EXCEPT ![k] = f]
    /\ onDisk' = [onDisk EXCEPT ![k] = @ \cup {f}]

Rename(p) ==
    /\ at[p] = "publish" /\ call[p].op = "put"
    /\ SetEntry(call[p].key, tmp[p])
    /\ Effect(p, "done")
    /\ tmp' = [tmp EXCEPT ![p] = NoFile]
    /\ Goto(p, "syncDir")
    /\ UNCHANGED dirs

\* link(2) fails if the name is taken.
Link(p) ==
    /\ at[p] = "publish" /\ call[p].op = "putIfAbsent"
    /\ entry[call[p].key] = NoFile
    /\ SetEntry(call[p].key, tmp[p])
    /\ Effect(p, "created")
    /\ tmp' = [tmp EXCEPT ![p] = NoFile]
    /\ Goto(p, "syncDir")
    /\ UNCHANGED dirs

Remove(p) ==
    /\ at[p] = "remove"
    /\ entry[call[p].key] # NoFile
    /\ SetEntry(call[p].key, NoFile)
    /\ Effect(p, "done")
    /\ Goto(p, "syncDir")
    /\ UNCHANGED <<dirs, tmp>>

\* The key is as the caller wants it: PutIfAbsent finds it taken, Delete finds
\* it free.  Neither syncs the directory.
Found(p) ==
    /\ \/ at[p] = "publish" /\ call[p].op = "putIfAbsent" /\ entry[call[p].key] # NoFile
       \/ at[p] = "remove" /\ entry[call[p].key] = NoFile
    /\ Effect(p, IF call[p].op = "delete" THEN "gone" ELSE "exists")
    /\ tmp' = [tmp EXCEPT ![p] = NoFile]
    /\ Goto(p, "return")
    /\ UNCHANGED files

\* What a power loss may leave of a file, and of a key.
Survives(f) == IF f.synced THEN {f} ELSE {[f EXCEPT !.synced = TRUE], [val |-> Torn, synced |-> TRUE]}
Outcomes(k) == UNION {Survives(f) : f \in onDisk[k]}

Return(p) ==
    /\ call' = [call EXCEPT ![p] = [answer |-> @.effect]]
    /\ Goto(p, "idle")

ReturnFound(p) ==
    /\ at[p] = "return"
    /\ Return(p)
    /\ UNCHANGED <<files, tmp>>

\* All names in the directory are made durable, those of other callers too.
SyncDir(p) ==
    /\ at[p] = "syncDir"
    /\ onDisk' = [k \in Keys |-> IF Fsync /\ DirOf[k] = Dir(p) THEN {entry[k]} ELSE onDisk[k]]
    /\ Return(p)
    /\ UNCHANGED <<entry, dirs, tmp>>

\* A system call fails, or the process is killed.
GiveUp(p) ==
    /\ at[p] # "idle"
    /\ call' = [call EXCEPT ![p] = [answer |-> "error"]]
    /\ tmp' = [tmp EXCEPT ![p] = NoFile]
    /\ Goto(p, "idle")
    /\ UNCHANGED files

\* The machine stops.  A new directory may be gone, with all that was in it.
PowerLoss ==
    /\ \E lost \in SUBSET {d \in Dirs : dirs[d] = "new"} :
          /\ dirs' = [d \in Dirs |-> CASE d \in lost -> "none"
                                        [] dirs[d] = "new" /\ d \notin lost -> "durable"
                                        [] OTHER -> dirs[d]]
          /\ entry' \in [Keys -> File \cup {NoFile}]
          /\ \A k \in Keys : entry'[k] \in IF DirOf[k] \in lost THEN {NoFile} ELSE Outcomes(k)
    /\ onDisk' = [k \in Keys |-> {entry'[k]}]
    /\ call' = [p \in Callers |->
                  IF at[p] = "idle" THEN call[p] ELSE [answer |-> "error"]]
    /\ at' = [p \in Callers |-> "idle"]
    /\ tmp' = [p \in Callers |-> NoFile]

Put(p) == MakeDir(p) \/ WriteTemp(p) \/ SyncTemp(p) \/ Rename(p) \/ Link(p)

Next ==
    \/ \E p \in Callers :
          \/ \E o \in Ops[p], k \in Keys, v \in Values \cup {Absent} : Begin(p, o, k, v)
          \/ Put(p) \/ Remove(p) \/ Found(p) \/ ReturnFound(p) \/ SyncDir(p) \/ GiveUp(p)
    \/ PowerLoss

Spec == Init /\ [][Next]_vars

-----------------------------------------------------------------------------
(* Properties                                                              *)

\* The keys that hold after a power loss what they hold now.
Durable == {k \in Keys :
    /\ \A f \in Outcomes(k) : f.val = entry[k].val
    /\ dirs[DirOf[k]] = "new" => entry[k] = NoFile}

Contract == INSTANCE ObjectStore WITH
    objects <- [k \in Keys |-> entry[k].val],
    durable <- Durable

\* Where the directories exist, the store keeps the contract of ObjectStore:
\* every call takes effect at one instant, a power loss leaves whole objects
\* only, and an object written or removed by a call that returned stays so.
ImplementsStore == Contract!Spec

\* Whoever is told that an object is stored will find it after a power loss:
\* the write ordering of a backup rests on it ("Each step is durable before the
\* next begins").
StoredIsDurable ==
    [][\A p \in Callers :
          /\ at[p] # "idle" /\ at'[p] = "idle"
          /\ call'[p].answer \in {"done", "created", "exists"}
          /\ call[p].op # "delete"
          => call[p].key \in Durable']_vars
=============================================================================
