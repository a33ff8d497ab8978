---------------------------- MODULE MCDataPath ----------------------------
(* Small instances of DataPath: two byte values, files that share chunks.    *)
EXTENDS DataPath

TwoGears == [b \in {0, 1} |-> IF b = 0 THEN 1 ELSE 6]

\* Two files, of which the second is part of the first with two bytes before it,
\* cut by the strict mask, by the loose one and at MaxSize; and three files, of
\* which one is empty, with chunks that are whatever is left; and files of a byte
\* or two, whose entries make the header longer than it may be.
SomeTrees == {<<<<0, 0, 0, 1, 0, 0, 1, 1, 1>>, <<1, 0, 0, 0, 0, 1, 0>>>>,
              <<<<0, 1, 1, 1, 1, 1, 0, 1>>, <<>>, <<1>>>>,
              <<<<0>>, <<1>>, <<0, 1>>>>}
\* Blobs that share their first byte share their shard.
ByFirstByte(b) == IF b # <<>> /\ b[1] = 1 THEN 2 ELSE 1

TreeFiles == UNION {{t[i] : i \in DOMAIN t} : t \in SomeTrees}
=============================================================================
