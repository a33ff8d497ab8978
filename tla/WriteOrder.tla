----------------------------- MODULE WriteOrder -----------------------------
(***************************************************************************)
(* The write ordering of one backup run, as the crash-safety argument of   *)
(* package repo states it: packs, then the index, then the snapshot, each  *)
(* step only over what the step before made durable.  The run may stop     *)
(* after any of them.                                                      *)
(***************************************************************************)
CONSTANTS Blobs, Unwritten

VARIABLES
    stored,    \* the blobs in stored packs
    indexed,   \* the blobs of the index the run saved, or Unwritten
    snapshot   \* the blobs of the manifest the run saved, or Unwritten

Init ==
    /\ stored \in SUBSET Blobs
    /\ indexed = Unwritten
    /\ snapshot = Unwritten

StorePack == \E B \in SUBSET Blobs :
    /\ indexed = Unwritten
    /\ stored' = stored \cup B
    /\ UNCHANGED <<indexed, snapshot>>

SaveIndex == \E B \in SUBSET stored :
    /\ indexed = Unwritten
    /\ indexed' = B
    /\ UNCHANGED <<stored, snapshot>>

SaveSnapshot ==
    /\ indexed # Unwritten
    /\ snapshot = Unwritten
    /\ \E B \in SUBSET indexed : snapshot' = B
    /\ UNCHANGED <<stored, indexed>>

Next == StorePack \/ SaveIndex \/ SaveSnapshot

Spec == Init /\ [][Next]_<<stored, indexed, snapshot>>
=============================================================================
