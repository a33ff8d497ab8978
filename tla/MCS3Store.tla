------------------------------ MODULE MCS3Store ------------------------------
(* Two callers and a lister on two keys; every kind of fault.                *)
EXTENDS S3Store

CONSTANTS p1, p2, l1, v1, v2

\* Both contend for the first key; the other is created while it is listed.
Contenders ==
    [p \in Callers |-> IF p = p1 THEN {<<"putIfAbsent", 1>>, <<"put", 2>>}
                                 ELSE {<<"putIfAbsent", 1>>, <<"delete", 1>>}]
=============================================================================
