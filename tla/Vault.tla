------------------------------- MODULE Vault --------------------------------
(***************************************************************************)
(* What a backup repository promises, with nothing of how distbackup keeps *)
(* it: content is stored, snapshots of stored content are committed, and   *)
(* what is reclaimed is in no committed snapshot.  There are no packs, no  *)
(* index, no processes and no failures here; a snapshot is never deleted,  *)
(* as no command of distbackup deletes one.                                *)
(***************************************************************************)
CONSTANTS Blobs, Sources

VARIABLES
    stored,     \* the blobs that can be read back
    committed   \* the snapshots a user believes are backed up

Init == stored = {} /\ committed = {}

Store == \E B \in SUBSET Blobs :
    /\ stored' = stored \cup B
    /\ UNCHANGED committed

Commit == \E S \in Sources :
    /\ S \subseteq stored
    /\ committed' = committed \cup {S}
    /\ UNCHANGED stored

Reclaim == \E B \in SUBSET (stored \ UNION committed) :
    /\ stored' = stored \ B
    /\ UNCHANGED committed

Next == Store \/ Commit \/ Reclaim

Spec == Init /\ [][Next]_<<stored, committed>>
=============================================================================
