---------------------------- MODULE MCRepository ----------------------------
(* Small instances of Repository: two blobs, and three packs such that       *)
(* every set of blobs can be packed and every blob can be stored twice.      *)
EXTENDS Repository

CONSTANTS p1, p2, a, b, k1, k2, k3

TwoBlobs == {a, b}
ThreePacks == {k1, k2, k3}
ThreeContents ==
    [k \in ThreePacks |-> CASE k = k1 -> {a, b} [] k = k2 -> {b} [] k = k3 -> {a}]
TwoSources == {{a, b}, {b}}

AllCommands == [p \in Procs |-> {"backup", "verify", "gc"}]
TwoWriters == [p \in Procs |-> {"backup", "verify"}]
WriterAndReader ==
    [p \in Procs |-> IF p = p1 THEN {"backup", "verify", "gc"} ELSE {"verify"}]
=============================================================================
