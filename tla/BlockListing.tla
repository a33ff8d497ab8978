---------------------------- MODULE BlockListing ----------------------------
(***************************************************************************)
(* What a source promises of one listing of a snapshot (source.BlockSource,*)
(* ListBlocks and ListChangedBlocks): the caller's function is given every *)
(* written block, once, in increasing order and without a gap, and only    *)
(* then is the call a success.  It may fail at any point, and what was     *)
(* handed out by then is a prefix.                                         *)
(***************************************************************************)
EXTENDS Naturals

CONSTANT Written        \* the indexes of the blocks that have data

VARIABLES status,       \* "idle", "running", "ok" or "failed"
          handed        \* the indexes the caller's function was called with

Init == status = "idle" /\ handed = {}

\* The call may be refused at once.
Begin ==
    /\ status = "idle"
    /\ status' \in {"running", "failed"}
    /\ UNCHANGED handed

\* The function may itself fail, which ends the call.
Hand ==
    /\ status = "running"
    /\ \E b \in Written \ handed :
          /\ \A x \in Written : x < b <=> x \in handed
          /\ handed' = handed \cup {b}
    /\ status' \in {"running", "failed"}

Succeed ==
    /\ status = "running"
    /\ handed = Written
    /\ status' = "ok"
    /\ UNCHANGED handed

Fail ==
    /\ status = "running"
    /\ status' = "failed"
    /\ UNCHANGED handed

\* The caller drops the result.
Forget ==
    /\ status \in {"ok", "failed"}
    /\ status' = "idle"
    /\ handed' = {}

vars == <<status, handed>>
Next == Begin \/ Hand \/ Succeed \/ Fail \/ Forget
Spec == Init /\ [][Next]_vars
=============================================================================
