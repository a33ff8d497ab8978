----------------------------- MODULE MCRestore -----------------------------
(* Snapshots of three files: an empty one, files that share a chunk, and one *)
(* that changed under the backup, whose size is not that of its chunks.      *)
EXTENDS Restore

CONSTANTS a, b, w1, w2

File(ids, n) == [chunks |-> ids, size |-> n]

Snapshots == {
    <<File(<<a, b>>, 2), File(<<>>, 0), File(<<b>>, 1)>>,
    <<File(<<b>>, 1), File(<<a>>, 2)>>}
=============================================================================
