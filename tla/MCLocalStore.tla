---------------------------- MODULE MCLocalStore ----------------------------
(* Two callers of the operations of Ops, and keys in one directory.          *)
EXTENDS LocalStore

CONSTANTS p1, p2, k1, k2, d1, v1, v2

OneDir == [k \in Keys |-> d1]
AllOps == [p \in Callers |-> {"put", "putIfAbsent", "delete"}]
Writers == [p \in Callers |-> {"put", "putIfAbsent"}]
=============================================================================
