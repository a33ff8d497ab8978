---------------------------- MODULE ObjectStore ----------------------------
(***************************************************************************)
(* What the repository may expect of an object store (store.ObjectStore):  *)
(* a map from keys to whole objects, changed by calls that take effect at  *)
(* one instant.  A retry may give a call its effect again, PutIfAbsent     *)
(* says "created" only to a caller that created the object, and what a     *)
(* caller was told is done is durable: a power loss does not undo it.      *)
(***************************************************************************)

CONSTANTS Callers, Keys, Values,
    Absent      \* there is no object under the key

VARIABLES
    objects,    \* the object under each key
    durable,    \* the keys whose object, or absence, survives a power loss
    call        \* each caller's call, or the answer to its last one

vars == <<objects, durable, call>>

\* A call has had no effect; it has written or removed the object ("done"), or
\* created it; or it found the key as it should be.
Effects == {"none", "done", "created", "exists", "gone"}

Calls == [op : {"put", "putIfAbsent"}, key : Keys, val : Values, effect : Effects]
         \cup [op : {"delete"}, key : Keys, val : {Absent}, effect : Effects]
Answers == [answer : {"error"} \cup Effects]

Init ==
    /\ objects \in [Keys -> Values \cup {Absent}]
    /\ durable = Keys
    /\ call = [p \in Callers |-> [answer |-> "none"]]

Waiting(p) == call[p] \in Calls

Begin(p) ==
    /\ ~Waiting(p)
    /\ \E c \in Calls : c.effect = "none" /\ call' = [call EXCEPT ![p] = c]
    /\ UNCHANGED <<objects, durable>>

\* The caller's key now holds v, with effect e, and need not be durable yet.
Become(p, v, e) ==
    /\ objects' = [objects EXCEPT ![call[p].key] = v]
    /\ durable' \in {durable, durable \ {call[p].key}}
    /\ call' = [call EXCEPT ![p].effect = e]

Found(p, e) ==
    /\ call' = [call EXCEPT ![p].effect = e]
    /\ UNCHANGED <<objects, durable>>

Put(p) == call[p].op = "put" /\ Become(p, call[p].val, "done")

PutIfAbsent(p) ==
    /\ call[p].op = "putIfAbsent"
    /\ \/ objects[call[p].key] = Absent /\ Become(p, call[p].val, "created")
       \/ objects[call[p].key] # Absent /\ Found(p, "exists")

Delete(p) ==
    /\ call[p].op = "delete"
    /\ \/ objects[call[p].key] # Absent /\ Become(p, Absent, "done")
       \/ objects[call[p].key] = Absent /\ Found(p, "gone")

Apply(p) == Waiting(p) /\ (Put(p) \/ PutIfAbsent(p) \/ Delete(p))

\* The caller learns of the effect.  One that found the key as it should be
\* is not promised that it will stay so.
Return(p) ==
    /\ Waiting(p)
    /\ call[p].effect # "none"
    /\ call[p].effect \in {"done", "created"} => call[p].key \in durable'
    /\ call' = [call EXCEPT ![p] = [answer |-> @.effect]]
    /\ durable \subseteq durable'
    /\ UNCHANGED objects

\* The call fails, or the caller is killed: it may have had its effect or not.
GiveUp(p) ==
    /\ Waiting(p)
    /\ call' = [call EXCEPT ![p] = [answer |-> "error"]]
    /\ UNCHANGED <<objects, durable>>

\* Keys that are not durable may lose their object, or get an older one back;
\* whatever is there afterwards is a whole object.
PowerLoss ==
    /\ objects' \in [Keys -> Values \cup {Absent}]
    /\ \A k \in durable : objects'[k] = objects[k]
    /\ durable' = Keys
    /\ call' = [p \in DOMAIN call |->
                  IF Waiting(p) THEN [answer |-> "error"] ELSE call[p]]

Next ==
    \/ \E p \in Callers : Begin(p) \/ Apply(p) \/ Return(p) \/ GiveUp(p)
    \/ PowerLoss

Spec == Init /\ [][Next]_vars
=============================================================================
