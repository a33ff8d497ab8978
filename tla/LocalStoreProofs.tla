-------------------------- MODULE LocalStoreProofs --------------------------
(* Theorems about LocalStore, for any callers, keys, values and directories. *)
EXTENDS LocalStore, TLAPS

-----------------------------------------------------------------------------
(* The calls of the callers                                                  *)

Labels == {"idle", "mkdir", "write", "sync", "publish", "remove", "syncDir", "return"}
Answers == [answer : Effects \cup {"error"}]

\* A caller is where its call takes it, with the effect the call has had so far.
CallOK(p) ==
    /\ at[p] = "idle" => call[p] \in Answers
    /\ at[p] # "idle" => call[p] \in Contract!Calls
    /\ at[p] \in {"mkdir", "write", "sync", "publish"} => call[p].op # "delete"
    /\ at[p] = "remove" => call[p].op = "delete"
    /\ at[p] = "syncDir" => call[p].effect \in {"done", "created"}
    /\ at[p] = "return" => call[p].effect \in {"exists", "gone"}

\* The temporary file has the bytes of the call.
TmpOK(p) ==
    /\ at[p] \in {"sync", "publish"} => tmp[p] \in File /\ tmp[p].val = call[p].val
    /\ at[p] \notin {"sync", "publish"} => tmp[p] = NoFile

Inv == TypeOK /\ \A p \in Callers : CallOK(p) /\ TmpOK(p)

LEMMA ContractCalls == Contract!Calls \subseteq Calls
BY DEF Contract!Calls, Contract!Effects, Calls, Effects

LEMMA AnswersAreNoCalls == \A a \in Answers : a \notin Calls
<1> SUFFICES ASSUME NEW a \in Answers, a \in Calls PROVE FALSE
  OBVIOUS
<1>1. DOMAIN a = {"answer"}
  BY DEF Answers
<1>2. DOMAIN a = {"op", "key", "val", "effect"}
  BY DEF Calls
<1> QED
  BY <1>1, <1>2

LEMMA IdleWaits ==
    ASSUME Inv, NEW p \in Callers
    PROVE  Contract!Waiting(p) <=> at[p] # "idle"
BY ContractCalls, AnswersAreNoCalls DEF Inv, CallOK, Contract!Waiting

\* The fields of a call under way.
LEMMA CallFields ==
    ASSUME Inv, NEW p \in Callers, at[p] # "idle"
    PROVE  /\ call[p] \in Contract!Calls /\ call[p] \in Calls
           /\ call[p].op \in {"put", "putIfAbsent", "delete"} /\ call[p].key \in Keys
           /\ call[p].val \in Values \cup {Absent} /\ call[p].effect \in Effects
           /\ call[p].op # "delete" => call[p].val \in Values
           /\ call[p].op = "delete" => call[p].val = Absent
BY ContractCalls DEF Inv, CallOK, Contract!Calls, Contract!Effects, Effects

LEMMA EffectCall ==
    ASSUME NEW c \in Contract!Calls, NEW e \in Effects
    PROVE  /\ [c EXCEPT !.effect = e] \in Contract!Calls
           /\ [c EXCEPT !.effect = e].effect = e
BY DEF Contract!Calls, Contract!Effects, Effects

LEMMA FileIsNotNoFile == \A f \in File : f # NoFile
BY ValuesAssumption DEF File, NoFile

-----------------------------------------------------------------------------
(* Invariance                                                                *)

LEMMA InvInit ==
    ASSUME Init
    PROVE  Inv
<1>1. [answer |-> "none"] \in Answers
  BY DEF Answers, Effects
<1>2. TypeOK
  BY <1>1 DEF Init, TypeOK, Answers
<1>3. \A p \in Callers : CallOK(p) /\ TmpOK(p)
  BY <1>1 DEF Init, CallOK, TmpOK
<1> QED
  BY <1>2, <1>3 DEF Inv

\* A step of one caller keeps the invariant if it leaves the caller in order
\* and the files well-typed.
LEMMA CallerInv ==
    ASSUME Inv, NEW p \in Callers, NEW l \in Labels,
           NEW c \in Calls \cup Answers, NEW f \in File \cup {NoFile},
           at' = [at EXCEPT ![p] = l],
           call' = [call EXCEPT ![p] = c],
           tmp' = [tmp EXCEPT ![p] = f],
           entry' \in [Keys -> File \cup {NoFile}],
           onDisk' \in [Keys -> SUBSET (File \cup {NoFile})],
           \A k \in Keys : entry'[k] \in onDisk'[k],
           dirs' \in [Dirs -> {"none", "new", "durable"}],
           CallOK(p)', TmpOK(p)'
    PROVE  Inv'
<1>1. ASSUME NEW q \in Callers PROVE CallOK(q)' /\ TmpOK(q)'
  BY <1>1 DEF Inv, TypeOK, CallOK, TmpOK
<1>2. TypeOK'
  BY <1>1 DEF Inv, TypeOK, TmpOK, Labels, Answers
<1> QED
  BY <1>1, <1>2 DEF Inv

\* What the steps of a call share: the caller has a call of the contract.
LEMMA BeginInv ==
    ASSUME Inv, NEW p \in Callers, NEW o \in Ops[p], NEW k \in Keys,
           NEW v \in Values \cup {Absent}, Begin(p, o, k, v)
    PROVE  Inv'
<1> DEFINE c == [op |-> o, key |-> k, val |-> v, effect |-> "none"]
<1> DEFINE l == IF o = "delete" THEN "remove" ELSE "mkdir"
<1>1. o \in {"put", "putIfAbsent", "delete"}
  BY OpsAssumption
<1>2. c \in Contract!Calls /\ c \in Calls /\ c.op = o
  BY <1>1 DEF Begin, Contract!Calls, Contract!Effects, Calls, Effects
<1>3. call' = [call EXCEPT ![p] = c] /\ at' = [at EXCEPT ![p] = l]
      /\ UNCHANGED <<entry, onDisk, dirs, tmp>> /\ at[p] = "idle"
  BY DEF Begin, Goto, files
<1>4. l \in {"remove", "mkdir"} /\ (l = "remove" <=> o = "delete")
  OBVIOUS
<1>5. tmp[p] = NoFile /\ tmp' = [tmp EXCEPT ![p] = NoFile]
  BY <1>3 DEF Inv, TypeOK, TmpOK
<1> HIDE DEF c, l
<1>6. CallOK(p)' /\ TmpOK(p)'
  BY <1>2, <1>3, <1>4, <1>5 DEF Inv, TypeOK, CallOK, TmpOK
<1> QED
  BY <1>2, <1>3, <1>4, <1>5, <1>6, CallerInv DEF Inv, TypeOK, Labels

\* The steps before the call takes effect.
LEMMA PrepareInv ==
    ASSUME Inv, NEW p \in Callers, MakeDir(p) \/ WriteTemp(p) \/ SyncTemp(p)
    PROVE  Inv'
<1>1. at[p] # "idle" /\ call[p] \in Contract!Calls /\ call[p] \in Calls
      /\ call[p].op # "delete" /\ call[p].val \in Values
  BY CallFields DEF MakeDir, WriteTemp, SyncTemp, Inv, CallOK
<1>2. call' = call /\ call' = [call EXCEPT ![p] = call[p]]
      /\ UNCHANGED <<entry, onDisk>>
  BY DEF MakeDir, WriteTemp, SyncTemp, files, Inv, TypeOK
<1>3. dirs' \in [Dirs -> {"none", "new", "durable"}]
  BY DEF MakeDir, WriteTemp, SyncTemp, files, Inv, TypeOK
<1>4. CASE MakeDir(p)
  <2>1. at' = [at EXCEPT ![p] = "write"] /\ tmp' = [tmp EXCEPT ![p] = NoFile]
        /\ tmp'[p] = NoFile
    BY <1>4 DEF MakeDir, Goto, Inv, TypeOK, TmpOK
  <2>2. CallOK(p)' /\ TmpOK(p)'
    BY <1>1, <1>2, <2>1 DEF Inv, TypeOK, CallOK, TmpOK
  <2> QED
    BY <1>1, <1>2, <1>3, <2>1, <2>2, CallerInv DEF Inv, TypeOK, Labels
<1>5. CASE WriteTemp(p)
  <2> DEFINE f == [val |-> call[p].val, synced |-> FALSE]
  <2>1. f \in File /\ f.val = call[p].val
    BY <1>1 DEF File
  <2>2. at' = [at EXCEPT ![p] = "sync"] /\ tmp' = [tmp EXCEPT ![p] = f]
    BY <1>5 DEF WriteTemp, Goto
  <2> HIDE DEF f
  <2>3. CallOK(p)' /\ TmpOK(p)'
    BY <1>1, <1>2, <2>1, <2>2 DEF Inv, TypeOK, CallOK, TmpOK
  <2> QED
    BY <1>1, <1>2, <1>3, <2>1, <2>2, <2>3, CallerInv DEF Inv, TypeOK, Labels
<1>6. CASE SyncTemp(p)
  <2> DEFINE f == [tmp[p] EXCEPT !.synced = Fsync]
  <2>1. f \in File /\ f.val = call[p].val
    BY <1>6, FsyncAssumption DEF SyncTemp, Inv, TmpOK, File
  <2>2. at' = [at EXCEPT ![p] = "publish"] /\ tmp' = [tmp EXCEPT ![p] = f]
    BY <1>6 DEF SyncTemp, Goto, Inv, TypeOK
  <2> HIDE DEF f
  <2>3. CallOK(p)' /\ TmpOK(p)'
    BY <1>1, <1>2, <2>1, <2>2 DEF Inv, TypeOK, CallOK, TmpOK
  <2> QED
    BY <1>1, <1>2, <1>3, <2>1, <2>2, <2>3, CallerInv DEF Inv, TypeOK, Labels
<1> QED
  BY <1>4, <1>5, <1>6

\* Publishing, removing, or finding the key as it should be.
LEMMA EffectInv ==
    ASSUME Inv, NEW p \in Callers, at[p] \in {"publish", "remove"},
           NEW e \in Effects, NEW l \in {"syncDir", "return"},
           NEW f \in File \cup {NoFile},
           SetEntry(call[p].key, f) \/ UNCHANGED <<entry, onDisk>>,
           dirs' = dirs, Effect(p, e), Goto(p, l),
           tmp' = [tmp EXCEPT ![p] = NoFile],
           l = "syncDir" => e \in {"done", "created"},
           l = "return" => e \in {"exists", "gone"}
    PROVE  Inv'
<1> DEFINE c == [call[p] EXCEPT !.effect = e]
<1>1. call[p] \in Contract!Calls /\ call[p].key \in Keys
  BY CallFields
<1>2. c \in Contract!Calls /\ c \in Calls /\ c.effect = e
  BY <1>1, EffectCall, ContractCalls
<1>3. call' = [call EXCEPT ![p] = c]
  BY DEF Effect, Inv, TypeOK
<1> HIDE DEF c
<1>4. CallOK(p)' /\ TmpOK(p)'
  BY <1>2, <1>3 DEF Inv, TypeOK, CallOK, TmpOK, Goto
<1>5. /\ entry' \in [Keys -> File \cup {NoFile}]
      /\ onDisk' \in [Keys -> SUBSET (File \cup {NoFile})]
      /\ \A k \in Keys : entry'[k] \in onDisk'[k]
  BY <1>1 DEF SetEntry, Inv, TypeOK
<1>6. dirs' \in [Dirs -> {"none", "new", "durable"}]
  BY DEF Inv, TypeOK
<1> QED
  BY <1>2, <1>3, <1>4, <1>5, <1>6, CallerInv DEF Goto, Labels

\* The call ends: the caller has an answer and no temporary file.
LEMMA EndInv ==
    ASSUME Inv, NEW p \in Callers, NEW a \in Effects \cup {"error"},
           call' = [call EXCEPT ![p] = [answer |-> a]],
           tmp' = [tmp EXCEPT ![p] = NoFile], Goto(p, "idle"),
           UNCHANGED <<entry, dirs>>,
           onDisk' \in [Keys -> SUBSET (File \cup {NoFile})],
           \A k \in Keys : entry[k] \in onDisk'[k]
    PROVE  Inv'
<1> DEFINE c == [answer |-> a]
<1>1. c \in Answers /\ call' = [call EXCEPT ![p] = c]
  BY DEF Answers
<1> HIDE DEF c
<1>2. CallOK(p)' /\ TmpOK(p)'
  BY <1>1 DEF Inv, TypeOK, CallOK, TmpOK, Goto
<1>3. /\ entry' \in [Keys -> File \cup {NoFile}] /\ \A k \in Keys : entry'[k] \in onDisk'[k]
      /\ dirs' \in [Dirs -> {"none", "new", "durable"}]
  BY DEF Inv, TypeOK
<1> QED
  BY <1>1, <1>2, <1>3, CallerInv DEF Goto, Labels

LEMMA PowerLossInv ==
    ASSUME Inv, PowerLoss
    PROVE  Inv'
<1>1. ASSUME NEW p \in Callers
      PROVE  call'[p] \in Answers /\ at'[p] = "idle" /\ tmp'[p] = NoFile
  <2>1. [answer |-> "error"] \in Answers
    BY DEF Answers
  <2> QED
    BY <2>1 DEF PowerLoss, Inv, CallOK
<1>2. \A p \in Callers : CallOK(p)' /\ TmpOK(p)'
  BY <1>1 DEF CallOK, TmpOK
<1>3. /\ entry' \in [Keys -> File \cup {NoFile}]
      /\ onDisk' = [k \in Keys |-> {entry'[k]}]
      /\ dirs' \in [Dirs -> {"none", "new", "durable"}]
  BY DEF PowerLoss, Inv, TypeOK
<1>4. call' \in [Callers -> Calls \cup Answers]
      /\ at' \in [Callers -> Labels] /\ tmp' \in [Callers -> File \cup {NoFile}]
  BY <1>1 DEF PowerLoss, Labels
<1>5. TypeOK'
  BY <1>1, <1>3, <1>4 DEF TypeOK, Labels, Answers
<1> QED
  BY <1>2, <1>5 DEF Inv

LEMMA InvKept ==
    ASSUME Inv, [Next]_vars
    PROVE  Inv'
<1>1. ASSUME NEW p \in Callers, Rename(p) \/ Link(p) PROVE Inv'
  <2>1. at[p] = "publish" /\ tmp[p] \in File
    BY <1>1 DEF Rename, Link, Inv, TmpOK
  <2> QED
    BY <1>1, <2>1, EffectInv DEF Rename, Link, Effects
<1>2. ASSUME NEW p \in Callers, Remove(p) PROVE Inv'
  <2>1. tmp' = [tmp EXCEPT ![p] = NoFile]
    BY <1>2 DEF Remove, Inv, TypeOK, TmpOK
  <2> QED
    BY <1>2, <2>1, EffectInv DEF Remove, Effects
<1>3. ASSUME NEW p \in Callers, Found(p) PROVE Inv'
  BY <1>3, EffectInv DEF Found, files, Effects
<1>4. ASSUME NEW p \in Callers, ReturnFound(p) \/ SyncDir(p) PROVE Inv'
  <2>1. call[p].effect \in Effects
    BY <1>4, CallFields DEF ReturnFound, SyncDir
  <2>2. tmp' = [tmp EXCEPT ![p] = NoFile] /\ UNCHANGED <<entry, dirs>>
        /\ call' = [call EXCEPT ![p] = [answer |-> call[p].effect]] /\ Goto(p, "idle")
    BY <1>4 DEF ReturnFound, SyncDir, Return, files, Inv, TypeOK, TmpOK
  <2>3. onDisk' \in [Keys -> SUBSET (File \cup {NoFile})]
        /\ \A k \in Keys : entry[k] \in onDisk'[k]
    BY <1>4 DEF ReturnFound, SyncDir, files, Inv, TypeOK
  <2> QED
    BY <2>1, <2>2, <2>3, EndInv
<1>5. ASSUME NEW p \in Callers, GiveUp(p) PROVE Inv'
  BY <1>5, EndInv DEF GiveUp, files, Inv, TypeOK
<1>6. CASE UNCHANGED vars
  BY <1>6 DEF vars, files, Inv, TypeOK, CallOK, TmpOK
<1> QED
  BY <1>1, <1>2, <1>3, <1>4, <1>5, <1>6, BeginInv, PrepareInv, PowerLossInv DEF Next, Put

THEOREM InvAlways == Spec => []Inv
BY InvInit, InvKept, PTL DEF Spec

\* The types of all variables: a caller that is not writing one has left no
\* temporary file behind, whatever system call failed.
THEOREM TypeCorrect == Spec => []TypeOK
<1>1. Inv => TypeOK
  BY DEF Inv
<1> QED
  BY <1>1, InvAlways, PTL

-----------------------------------------------------------------------------
(* Refinement: files are synced, and their directories exist                 *)

Fsynced == Fsync = TRUE /\ NewDirs = {}

\* A file of which a power loss leaves nothing else.
Whole == [val : Values \cup {Absent}, synced : {TRUE}]

\* Every published file was synced first, in a directory that is durable.
DiskOK ==
    /\ onDisk \in [Keys -> SUBSET Whole]
    /\ \A d \in Dirs : dirs[d] = "durable"
    /\ \A p \in Callers : at[p] = "publish" => tmp[p] \in Whole

LEMMA WholeFile ==
    ASSUME NEW f \in File, f.synced, f.val \in Values
    PROVE  f \in Whole
BY DEF File, Whole

LEMMA NoFileIsWhole == NoFile \in Whole
BY DEF NoFile, Whole

\* A power loss leaves of a key one of the files it may name.
LEMMA WholeSurvives ==
    ASSUME DiskOK, NEW k \in Keys
    PROVE  Outcomes(k) = onDisk[k]
<1>1. \A f \in onDisk[k] : Survives(f) = {f}
  <2>1. \A f \in Whole : f.synced
    BY DEF Whole
  <2>2. onDisk[k] \subseteq Whole
    BY DEF DiskOK
  <2> QED
    BY <2>1, <2>2 DEF Survives
<1> QED
  BY <1>1 DEF Outcomes

\* A file is its bytes: no two whole files have the same.
LEMMA SameBytes == \A f, g \in Whole : f.val = g.val => f = g
<1>1. \A f \in Whole : f = [val |-> f.val, synced |-> f.synced] /\ f.synced = TRUE
  <2>1. \A f \in Whole : f = [val |-> f.val, synced |-> f.synced]
    BY DEF Whole
  <2>2. \A f \in Whole : f.synced \in {TRUE}
    BY DEF Whole
  <2> QED
    BY <2>1, <2>2, Zenon
<1>2. ASSUME NEW f \in Whole, NEW g \in Whole, f.val = g.val PROVE f = g
  <2>1. f = [val |-> f.val, synced |-> TRUE] /\ g = [val |-> f.val, synced |-> TRUE]
    BY <1>1, <1>2, Zenon
  <2> QED
    BY <2>1, Zenon
<1> QED
  BY <1>2

LEMMA DurableKeys == Inv /\ DiskOK => Durable = {k \in Keys : onDisk[k] = {entry[k]}}
<1> SUFFICES ASSUME Inv, DiskOK
             PROVE  Durable = {k \in Keys : onDisk[k] = {entry[k]}}
  OBVIOUS
<1>1. ASSUME NEW k \in Keys
      PROVE  k \in Durable <=> onDisk[k] = {entry[k]}
  <2>1. dirs[DirOf[k]] # "new"
    BY DirsAssumption DEF DiskOK
  <2>2. onDisk[k] \subseteq Whole /\ entry[k] \in onDisk[k]
    BY DEF DiskOK, Inv, TypeOK
  <2>3. (\A f \in onDisk[k] : f.val = entry[k].val) <=> onDisk[k] = {entry[k]}
    BY <2>2, SameBytes
  <2> QED
    BY <2>1, <2>3, WholeSurvives DEF Durable
<1> QED
  BY <1>1 DEF Durable

LEMMA DiskInit ==
    ASSUME Fsynced, Init
    PROVE  DiskOK
BY NoFileIsWhole DEF Fsynced, Init, DiskOK

LEMMA DiskKept ==
    ASSUME Fsynced, Inv, DiskOK, [Next]_vars
    PROVE  DiskOK'
<1>1. ASSUME NEW p \in Callers, NEW o \in Ops[p], NEW k \in Keys,
             NEW v \in Values \cup {Absent}, Begin(p, o, k, v)
      PROVE  DiskOK'
  BY <1>1 DEF Begin, Goto, files, DiskOK, Inv, TypeOK
<1>2. ASSUME NEW p \in Callers, MakeDir(p) \/ WriteTemp(p)
      PROVE  DiskOK'
  <2>1. UNCHANGED onDisk
    BY <1>2 DEF MakeDir, WriteTemp, files
  <2>2. \A d \in Dirs : dirs'[d] = "durable"
    BY <1>2 DEF MakeDir, WriteTemp, files, DiskOK, Inv, TypeOK
  <2>3. \A q \in Callers : at'[q] = "publish" => tmp'[q] \in Whole
    BY <1>2 DEF MakeDir, WriteTemp, Goto, DiskOK, Inv, TypeOK
  <2> QED
    BY <2>1, <2>2, <2>3 DEF DiskOK
<1>3. ASSUME NEW p \in Callers, SyncTemp(p)
      PROVE  DiskOK'
  <2> DEFINE f == [tmp[p] EXCEPT !.synced = Fsync]
  <2>1. call[p].val \in Values
    BY <1>3, CallFields DEF SyncTemp, Inv, CallOK
  <2>2. f \in File /\ f.synced /\ f.val \in Values
    BY <1>3, <2>1 DEF Fsynced, SyncTemp, Inv, TmpOK, File
  <2>3. f \in Whole
    BY <2>2, WholeFile
  <2>4. tmp' = [tmp EXCEPT ![p] = f] /\ at' = [at EXCEPT ![p] = "publish"]
        /\ UNCHANGED <<onDisk, dirs>>
    BY <1>3 DEF SyncTemp, Goto, files, Inv, TypeOK
  <2> HIDE DEF f
  <2> QED
    BY <2>3, <2>4 DEF DiskOK, Inv, TypeOK
<1>4. ASSUME NEW p \in Callers, Rename(p) \/ Link(p) \/ Remove(p) \/ Found(p)
      PROVE  DiskOK'
  <2>1. onDisk' \in [Keys -> SUBSET Whole]
    BY <1>4, NoFileIsWhole DEF Rename, Link, Remove, Found, SetEntry, files, DiskOK
  <2>2. UNCHANGED dirs
    BY <1>4 DEF Rename, Link, Remove, Found, files
  <2>3. \A q \in Callers : at'[q] = "publish" => tmp'[q] \in Whole
    BY <1>4, NoFileIsWhole DEF Rename, Link, Remove, Found, Goto, DiskOK, Inv, TypeOK
  <2> QED
    BY <2>1, <2>2, <2>3 DEF DiskOK
<1>5. ASSUME NEW p \in Callers, ReturnFound(p) \/ SyncDir(p) \/ GiveUp(p)
      PROVE  DiskOK'
  <2>1. onDisk' \in [Keys -> SUBSET Whole] /\ UNCHANGED dirs
    BY <1>5 DEF ReturnFound, SyncDir, GiveUp, files, DiskOK, Inv, TypeOK
  <2>2. \A q \in Callers : at'[q] = "publish" => tmp'[q] \in Whole
    BY <1>5, NoFileIsWhole DEF ReturnFound, SyncDir, GiveUp, Return, Goto, DiskOK, Inv, TypeOK
  <2> QED
    BY <2>1, <2>2 DEF DiskOK
<1>6. CASE PowerLoss
  <2>1. \A k \in Keys : entry'[k] \in Whole
    <3>1. ASSUME NEW k \in Keys PROVE entry'[k] \in Outcomes(k) \cup {NoFile}
      BY <1>6, DirsAssumption DEF PowerLoss
    <3> QED
      BY <3>1, WholeSurvives, NoFileIsWhole DEF DiskOK
  <2>2. onDisk' = [k \in Keys |-> {entry'[k]}] /\ at' = [p \in Callers |-> "idle"]
    BY <1>6 DEF PowerLoss
  <2>3. \A d \in Dirs : dirs'[d] = "durable"
    BY <1>6 DEF PowerLoss, DiskOK
  <2> QED
    BY <2>1, <2>2, <2>3 DEF DiskOK
<1>7. CASE UNCHANGED vars
  BY <1>7 DEF vars, files, DiskOK
<1> QED
  BY <1>1, <1>2, <1>3, <1>4, <1>5, <1>6, <1>7 DEF Next, Put

-----------------------------------------------------------------------------

\* Rename, Link and Remove are where a call takes effect.
LEMMA PublishStep ==
    ASSUME Inv, DiskOK, DiskOK', Inv', NEW p \in Callers, Rename(p) \/ Link(p) \/ Remove(p)
    PROVE  Contract!Next
<1> DEFINE o == [k \in Keys |-> entry[k].val]
<1> DEFINE v == IF call[p].op = "delete" THEN Absent ELSE call[p].val
<1>1. Contract!Waiting(p) /\ call[p].key \in Keys
  BY IdleWaits, CallFields DEF Rename, Link, Remove
<1>2. PICK f \in File \cup {NoFile} : SetEntry(call[p].key, f) /\ f.val = v
  <2>1. CASE Rename(p) \/ Link(p)
    BY <2>1 DEF Rename, Link, Inv, TmpOK
  <2>2. CASE Remove(p)
    BY <2>2 DEF Remove, Inv, CallOK, NoFile
  <2> QED
    BY <2>1, <2>2
<1>3. o' = [o EXCEPT ![call[p].key] = v]
  BY <1>1, <1>2 DEF SetEntry, Inv, TypeOK
<1>4. Durable' \in {Durable, Durable \ {call[p].key}}
  <2>1. \A k \in Keys \ {call[p].key} : onDisk'[k] = onDisk[k] /\ entry'[k] = entry[k]
    BY <1>2 DEF SetEntry, Inv, TypeOK
  <2>2. onDisk'[call[p].key] = onDisk[call[p].key] \cup {f} /\ entry'[call[p].key] = f
        /\ entry[call[p].key] \in onDisk[call[p].key]
    BY <1>1, <1>2 DEF SetEntry, Inv, TypeOK
  <2>3. onDisk'[call[p].key] = {f} => onDisk[call[p].key] = {entry[call[p].key]}
    BY <2>2
  <2>4. Durable' = {k \in Keys : onDisk'[k] = {entry'[k]}}
    <3>1. (Inv /\ DiskOK => Durable = {k \in Keys : onDisk[k] = {entry[k]}})'
      BY DurableKeys, PTL
    <3> QED
      BY <3>1
  <2> QED
    BY <1>1, <2>1, <2>2, <2>3, <2>4, DurableKeys
<1>5. ASSUME NEW e, Effect(p, e) PROVE Contract!Become(p, v, e)
  BY <1>3, <1>4, <1>5 DEF Contract!Become, Effect
<1>6. o[call[p].key] = Absent <=> entry[call[p].key] = NoFile
  <2>1. entry[call[p].key] \in File => entry[call[p].key].val # Absent
    BY ValuesAssumption DEF File
  <2>2. NoFile.val = Absent
    BY DEF NoFile
  <2> QED
    BY <1>1, <2>1, <2>2 DEF Inv, TypeOK
<1> HIDE DEF o, v
<1>7. Contract!Apply(p)
  BY <1>1, <1>5, <1>6 DEF o, v, Rename, Link, Remove, Inv, CallOK, Contract!Apply,
                          Contract!Put, Contract!PutIfAbsent, Contract!Delete
<1> QED
  BY <1>7 DEF Contract!Next

\* Returning from a synced directory: what was written or removed is durable.
LEMMA SyncDirStep ==
    ASSUME Fsynced, Inv, DiskOK, Inv', DiskOK', NEW p \in Callers, SyncDir(p)
    PROVE  Contract!Next
<1>1. Contract!Waiting(p) /\ call[p].key \in Keys /\ call[p].effect # "none"
  BY IdleWaits, CallFields DEF SyncDir, Inv, CallOK
<1>2. onDisk' = [k \in Keys |-> IF DirOf[k] = Dir(p) THEN {entry[k]} ELSE onDisk[k]]
      /\ UNCHANGED entry
  BY DEF Fsynced, SyncDir
<1>3. Durable' = {k \in Keys : onDisk'[k] = {entry'[k]}}
  <2>1. (Inv /\ DiskOK => Durable = {k \in Keys : onDisk[k] = {entry[k]}})'
    BY DurableKeys, PTL
  <2> QED
    BY <2>1
<1>4. call[p].key \in Durable' /\ Durable \subseteq Durable'
  BY <1>1, <1>2, <1>3, DurableKeys DEF Dir
<1>5. Contract!Return(p)
  BY <1>1, <1>2, <1>4 DEF SyncDir, Return, Contract!Return
<1> QED
  BY <1>5 DEF Contract!Next

\* A step that leaves the files alone leaves the durable keys alone.
LEMMA SameFiles ==
    ASSUME UNCHANGED files
    PROVE  UNCHANGED <<[k \in Keys |-> entry[k].val], Durable>>
BY DEF files, Durable, Outcomes

\* The steps that touch no file.
LEMMA QuietStep ==
    ASSUME Inv, NEW p \in Callers, Found(p) \/ ReturnFound(p) \/ GiveUp(p)
    PROVE  Contract!Next
<1>1. Contract!Waiting(p) /\ call[p].key \in Keys
  BY IdleWaits, CallFields DEF Found, ReturnFound, GiveUp
<1>2. UNCHANGED <<[k \in Keys |-> entry[k].val], Durable>>
  BY SameFiles DEF Found, ReturnFound, GiveUp
<1>3. CASE Found(p)
  <2> DEFINE o == [k \in Keys |-> entry[k].val]
  <2>1. o[call[p].key] = Absent <=> entry[call[p].key] = NoFile
    <3>1. entry[call[p].key] \in File => entry[call[p].key].val # Absent
      BY ValuesAssumption DEF File
    <3>2. NoFile.val = Absent
      BY DEF NoFile
    <3> QED
      BY <1>1, <3>1, <3>2 DEF Inv, TypeOK
  <2> HIDE DEF o
  <2>2. \A e : Effect(p, e) => Contract!Found(p, e)
    BY <1>2 DEF Effect, Contract!Found
  <2>3. Contract!Apply(p)
    BY <1>1, <1>3, <2>1, <2>2 DEF o, Found, Inv, CallOK, Contract!Apply,
                                  Contract!PutIfAbsent, Contract!Delete
  <2> QED
    BY <2>3 DEF Contract!Next
<1>4. CASE ReturnFound(p)
  <2>1. call[p].effect \in {"exists", "gone"}
    BY <1>4 DEF ReturnFound, Inv, CallOK
  <2>2. Contract!Return(p)
    BY <1>1, <1>2, <1>4, <2>1 DEF ReturnFound, Return, Contract!Return
  <2> QED
    BY <2>2 DEF Contract!Next
<1>5. CASE GiveUp(p)
  <2>1. Contract!GiveUp(p)
    BY <1>1, <1>2, <1>5 DEF GiveUp, Contract!GiveUp
  <2> QED
    BY <2>1 DEF Contract!Next
<1> QED
  BY <1>3, <1>4, <1>5

LEMMA BeginStep ==
    ASSUME Inv, NEW p \in Callers, NEW o \in Ops[p], NEW k \in Keys,
           NEW v \in Values \cup {Absent}, Begin(p, o, k, v)
    PROVE  Contract!Next
<1> DEFINE c == [op |-> o, key |-> k, val |-> v, effect |-> "none"]
<1>1. c \in Contract!Calls /\ c.effect = "none"
  BY OpsAssumption DEF Begin, Contract!Calls, Contract!Effects
<1>2. call' = [call EXCEPT ![p] = c] /\ at[p] = "idle" /\ UNCHANGED files
  BY DEF Begin
<1> HIDE DEF c
<1>3. Contract!Begin(p)
  BY <1>1, <1>2, IdleWaits, SameFiles DEF Contract!Begin
<1> QED
  BY <1>3 DEF Contract!Next

\* No file of this disk is torn.
LEMMA PowerLossStep ==
    ASSUME Inv, DiskOK, Inv', DiskOK', PowerLoss
    PROVE  Contract!PowerLoss
<1>1. onDisk' = [k \in Keys |-> {entry'[k]}]
  BY DEF PowerLoss
<1>2. Durable' = Keys
  <2>1. (Inv /\ DiskOK => Durable = {k \in Keys : onDisk[k] = {entry[k]}})'
    BY DurableKeys, PTL
  <2> QED
    BY <1>1, <2>1
<1>3. ASSUME NEW k \in Keys PROVE entry'[k].val \in Values \cup {Absent}
  <2>1. entry'[k] \in Whole
    BY <1>1 DEF DiskOK
  <2> QED
    BY <2>1 DEF Whole
<1>4. ASSUME NEW k \in Durable PROVE entry'[k] = entry[k]
  <2>1. k \in Keys /\ onDisk[k] = {entry[k]} /\ dirs[DirOf[k]] = "durable"
    BY DurableKeys, DirsAssumption DEF DiskOK
  <2>2. Outcomes(k) = {entry[k]}
    BY <2>1, WholeSurvives
  <2> QED
    BY <2>1, <2>2 DEF PowerLoss
<1>5. \A p \in Callers : Contract!Waiting(p) <=> at[p] # "idle"
  BY IdleWaits
<1>6. DOMAIN call = Callers
  BY DEF Inv, TypeOK
<1>7. call' = [p \in DOMAIN call |-> IF Contract!Waiting(p) THEN [answer |-> "error"] ELSE call[p]]
  BY <1>5, <1>6 DEF PowerLoss
<1>8. Durable \subseteq Keys
  BY DEF Durable
<1> QED
  BY <1>2, <1>3, <1>4, <1>7, <1>8 DEF Contract!PowerLoss

LEMMA NextStep ==
    ASSUME Fsynced, Inv, DiskOK, Inv', DiskOK', [Next]_vars
    PROVE  [Contract!Next]_(Contract!vars)
<1>1. ASSUME NEW p \in Callers, MakeDir(p) \/ WriteTemp(p) \/ SyncTemp(p) \/ UNCHANGED vars
      PROVE  UNCHANGED Contract!vars
  <2>1. UNCHANGED <<entry, onDisk, call>>
    BY <1>1 DEF MakeDir, WriteTemp, SyncTemp, vars, files
  <2>2. UNCHANGED dirs
    BY <1>1 DEF MakeDir, WriteTemp, SyncTemp, vars, files, DiskOK, Inv, TypeOK, Dir
  <2> QED
    BY <2>1, <2>2, SameFiles DEF Contract!vars, files
<1>2. CASE UNCHANGED vars
  BY <1>2, SameFiles DEF Contract!vars, vars
<1> QED
  BY <1>1, <1>2, BeginStep, PublishStep, SyncDirStep, QuietStep, PowerLossStep
  DEF Next, Put, Contract!Next

\* Put, PutIfAbsent and Delete of localfs.go keep what store.ObjectStore promises,
\* whoever calls them at the same time, whatever system call fails and wherever
\* the power goes: where files are synced and their directories exist.
THEOREM RefinesObjectStore ==
    ASSUME Fsync = TRUE, NewDirs = {}
    PROVE  Spec => ImplementsStore
<1>1. Fsynced
  BY DEF Fsynced
<1>2. Init => Contract!Init
  <2>1. ASSUME Init PROVE Contract!Init
    <3>1. Inv /\ DiskOK
      BY <1>1, <2>1, InvInit, DiskInit
    <3>2. Durable = Keys
      BY <2>1, <3>1, DurableKeys DEF Init
    <3>3. [k \in Keys |-> entry[k].val] \in [Keys -> Values \cup {Absent}]
      BY <2>1 DEF Init, NoFile
    <3> QED
      BY <2>1, <3>2, <3>3 DEF Init, Contract!Init
  <2> QED
    BY <2>1
<1>3. Init => DiskOK
  BY <1>1, DiskInit
<1>4. Inv /\ DiskOK /\ [Next]_vars => DiskOK'
  BY <1>1, DiskKept
<1>5. Inv /\ DiskOK /\ Inv' /\ DiskOK' /\ [Next]_vars => [Contract!Next]_(Contract!vars)
  BY <1>1, NextStep
<1> QED
  BY <1>2, <1>3, <1>4, <1>5, InvAlways, PTL DEF Spec, ImplementsStore, Contract!Spec

-----------------------------------------------------------------------------
(* What is durable                                                           *)

Returns(p) == at[p] # "idle" /\ at'[p] = "idle"

\* A call returns in one of four ways, and only one of them from an effect of its own.
LEMMA ReturnCases ==
    ASSUME Inv, [Next]_vars, NEW p \in Callers, Returns(p), call'[p].answer \in {"done", "created"}
    PROVE  SyncDir(p)
<1>1. at \in [Callers -> Labels] /\ DOMAIN call = Callers
  BY DEF Inv, TypeOK, Labels
<1>2. CASE PowerLoss
  BY <1>2 DEF PowerLoss, Returns
<1>3. CASE UNCHANGED vars
  BY <1>3 DEF vars, Returns
<1>4. ASSUME NEW q \in Callers,
             \/ \E o \in Ops[q], k \in Keys, v \in Values \cup {Absent} : Begin(q, o, k, v)
             \/ Put(q) \/ Remove(q) \/ Found(q)
      PROVE  FALSE
  <2>1. \E l \in Labels \ {"idle"} : at' = [at EXCEPT ![q] = l]
    BY <1>4 DEF Begin, Put, MakeDir, WriteTemp, SyncTemp, Rename, Link, Remove, Found, Goto, Labels
  <2> QED
    BY <1>1, <2>1 DEF Returns
<1>5. ASSUME NEW q \in Callers, ReturnFound(q) \/ SyncDir(q) \/ GiveUp(q)
      PROVE  SyncDir(p)
  <2>1. at' = [at EXCEPT ![q] = "idle"]
    BY <1>5 DEF ReturnFound, SyncDir, GiveUp, Return, Goto
  <2>2. p = q
    BY <1>1, <2>1 DEF Returns
  <2>3. CASE ReturnFound(q)
    <3>1. call'[q] = [answer |-> call[q].effect] /\ call[q].effect \in {"exists", "gone"}
      BY <1>1, <2>3 DEF ReturnFound, Return, Inv, CallOK
    <3> QED
      BY <2>2, <3>1
  <2>4. CASE GiveUp(q)
    <3>1. call'[q] = [answer |-> "error"]
      BY <1>1, <2>4 DEF GiveUp
    <3> QED
      BY <2>2, <3>1
  <2> QED
    BY <1>5, <2>2, <2>3, <2>4
<1> QED
  BY <1>2, <1>3, <1>4, <1>5 DEF Next

\* Put, PutIfAbsent or Delete that has changed a key and returned without an error
\* has made the change durable, whoever changes the directory at the same time
\* (syncDir).  Of a PutIfAbsent that finds the key taken this does not hold.
THEOREM ChangeIsDurable ==
    ASSUME Fsync = TRUE, NewDirs = {}
    PROVE  Spec => [][\A p \in Callers :
                         /\ at[p] # "idle" /\ at'[p] = "idle"
                         /\ call'[p].answer \in {"done", "created"}
                         => call[p].key \in Durable']_vars
<1>1. Fsynced
  BY DEF Fsynced
<1>2. Init => DiskOK
  BY <1>1, DiskInit
<1>3. Inv /\ DiskOK /\ [Next]_vars => DiskOK'
  BY <1>1, DiskKept
<1>4. ASSUME Inv, DiskOK, Inv', DiskOK', [Next]_vars, NEW p \in Callers,
             at[p] # "idle", at'[p] = "idle", call'[p].answer \in {"done", "created"}
      PROVE  call[p].key \in Durable'
  <2>1. SyncDir(p)
    BY <1>4, ReturnCases DEF Returns
  <2>2. call[p].key \in Keys
    BY <1>4, CallFields
  <2>3. onDisk' = [k \in Keys |-> IF DirOf[k] = Dir(p) THEN {entry[k]} ELSE onDisk[k]]
        /\ UNCHANGED entry
    BY <1>1, <2>1 DEF Fsynced, SyncDir
  <2>4. Durable' = {k \in Keys : onDisk'[k] = {entry'[k]}}
    <3>1. (Inv /\ DiskOK => Durable = {k \in Keys : onDisk[k] = {entry[k]}})'
      BY DurableKeys, PTL
    <3> QED
      BY <1>4, <3>1
  <2> QED
    BY <2>2, <2>3, <2>4 DEF Dir
<1>5. Inv /\ DiskOK /\ Inv' /\ DiskOK' /\ [Next]_vars =>
          [\A p \in Callers :
              /\ at[p] # "idle" /\ at'[p] = "idle"
              /\ call'[p].answer \in {"done", "created"}
              => call[p].key \in Durable']_vars
  BY <1>4
<1> QED
  BY <1>2, <1>3, <1>5, InvAlways, PTL DEF Spec
=============================================================================
