----------------------------- MODULE IndexFile -----------------------------
(***************************************************************************)
(* The index in memory and the object it is saved as (internal/index).     *)
(* Each operation on an entry holds the lock of its shard, so an index is  *)
(* a function from blob IDs to locations that changes an entry at a time;  *)
(* what goes over all of it takes one shard after the other.  The object   *)
(* is a magic, a count, and as many records.                               *)
(***************************************************************************)
EXTENDS Naturals, Sequences, FiniteSets

Seqs == INSTANCE SequencesExt

CONSTANTS
    MaxEntries,         \* the largest count a reader believes
    NumShards,
    ShardOf(_)          \* the shard of a blob ID

ASSUME MaxEntriesAssumption == MaxEntries \in Nat
ASSUME NumShardsAssumption == NumShards \in Nat \ {0}

EmptyIndex == [b \in {} |-> [pack |-> <<>>, offset |-> 0, length |-> 0]]

\* A blob that is there keeps its location.
Insert(idx, id, location) ==
    [b \in DOMAIN idx \cup {id} |-> IF b \in DOMAIN idx THEN idx[b] ELSE location]

\* The share of Len and of WriteTo that one shard is.
Shard(idx, s) == {b \in DOMAIN idx : ShardOf(b) = s}
ShardLen(idx, s) == Cardinality(Shard(idx, s))

\* The order of a shard's records is that of Go's maps, and is of no account.
Header(count) == <<<<"magic", 0>>, <<"count", count>>>>
Records(idx, s) ==
    Seqs!SetToSeq({<<"record", [id |-> b, location |-> idx[b]]>> : b \in Shard(idx, s)})

\* Is the object accepted?  It is refused when truncated, or with trailing bytes.
IndexDecodes(cells) ==
    /\ Len(cells) >= 2
    /\ cells[1][1] = "magic"
    /\ cells[2][2] <= MaxEntries
    /\ Len(cells) - 2 = cells[2][2]

ReadFrom(cells) ==
    LET records == {cells[i][2] : i \in 3..Len(cells)}
    IN  [b \in {r.id : r \in records} |-> (CHOOSE r \in records : r.id = b).location]
=============================================================================
