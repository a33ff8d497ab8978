---------------------------- MODULE MCEBSSource ----------------------------
(* A small instance of EBSSource: two blocks with a gap, a page each; one   *)
(* goroutine lists beside another that reads blocks and asks for the size;  *)
(* responses with one thing wrong, or with nothing to check them by.        *)
EXTENDS EBSSource

CONSTANTS c1, c2

SparseBlocks == {0, 3}

ListerAndReader ==
    [c \in Callers |-> IF c = c1 THEN {"list", "changed"} ELSE {"size", "read"}]

\* The calls of the run on NeverRelists: one goroutine lists and then reads,
\* another only asks for the size.
SizeBesideReader ==
    [c \in Callers |-> IF c = c1 THEN {"list", "read"} ELSE {"size"}]

Sound == [body |-> "intact", length |-> "whole", checksum |-> "SHA256"]
OddResponses ==
    {Sound, [Sound EXCEPT !.length = "absent", !.checksum = "absent"]}
    \cup {[Sound EXCEPT !.body = b] : b \in {"altered", "cut", "absent"}}
    \cup {[Sound EXCEPT !.length = l] : l \in {"absent", "outside"}}
    \cup {[Sound EXCEPT !.checksum = s] : s \in {"absent", "unknown"}}
=============================================================================
