------------------------------ MODULE S3Store ------------------------------
(***************************************************************************)
(* The S3 store (internal/store/s3) over the retry loop (internal/retry):  *)
(* callers that write, listers that page through the keys, the requests    *)
(* they send, and the service: that of fake.go, each call under its lock,  *)
(* which beyond the fake may lose a response after it has acted on the     *)
(* request and end a page anywhere.  A request is over when its client has *)
(* a response or an error: none acts later.                                *)
(***************************************************************************)
EXTENDS Naturals

CONSTANTS
    Callers, Listers,
    NumKeys,        \* keys are numbered in the order of a listing
    Values,
    MaxAttempts,    \* Policy.MaxAttempts
    Ops,            \* the operations each caller may call, and on which keys
    Faults,         \* what may go wrong: "transient", "denied", "cancel"
    Absent          \* there is no object under the key

Keys == 1..NumKeys
Clients == Callers \cup Listers

ASSUME ClientsAssumption == Callers \cap Listers = {}
ASSUME NumKeysAssumption == NumKeys \in Nat
ASSUME MaxAttemptsAssumption == MaxAttempts \in Nat \ {0}
ASSUME OpsAssumption == Ops \in [Callers -> SUBSET ({"put", "putIfAbsent", "delete"} \X Keys)]
ASSUME FaultsAssumption == Faults \subseteq {"transient", "denied", "cancel"}
ASSUME AbsentAssumption == Absent \notin Values

VARIABLES
    objects,    \* the bucket
    call,       \* each caller's call: [op, key, val, effect], or the last [answer]
    page,       \* each lister's listing: [token, seen, held]
    at,         \* what each client does next
    attempt,    \* attempts at the current request that have failed
    canceled    \* is the context done?

vars == <<objects, call, page, at, attempt, canceled>>

Effects == {"none", "done", "created", "exists", "gone"}
Calls == [op : {"put", "putIfAbsent", "delete"}, key : Keys, val : Values \cup {Absent},
          effect : Effects]
Ended == [token |-> 0, seen |-> {}, held |-> {}]

TypeOK ==
    /\ objects \in [Keys -> Values \cup {Absent}]
    /\ call \in [Callers -> Calls \cup [answer : Effects \cup {"error"}]]
    /\ page \in [Listers -> [token : 0..NumKeys, seen : SUBSET Keys, held : SUBSET Keys]]
    /\ at \in [Clients -> {"idle", "try", "sent", "answered", "failed"}]
    /\ attempt \in [Clients -> 0..(MaxAttempts - 1)]
    /\ canceled \in BOOLEAN

Init ==
    /\ objects \in [Keys -> Values \cup {Absent}]
    /\ call = [p \in Callers |-> [answer |-> "none"]]
    /\ page = [p \in Listers |-> Ended]
    /\ at = [p \in Clients |-> "idle"]
    /\ attempt = [p \in Clients |-> 0]
    /\ canceled = FALSE

Goto(p, l) == at' = [at EXCEPT ![p] = l]

\* The store's method returns to its caller with answer a.
Return(p, a) ==
    /\ Goto(p, "idle")
    /\ attempt' = [attempt EXCEPT ![p] = 0]
    /\ call' = IF p \in Callers THEN [call EXCEPT ![p] = [answer |-> a]] ELSE call
    /\ page' = IF p \in Listers THEN [page EXCEPT ![p] = Ended] ELSE page
    /\ UNCHANGED <<objects, canceled>>

-----------------------------------------------------------------------------
(* The methods                                                             *)

\* Put, PutIfAbsent or Delete.
Begin(p, o, k, v) ==
    /\ p \in Callers /\ at[p] = "idle"
    /\ <<o, k>> \in Ops[p]
    /\ v = Absent <=> o = "delete"
    /\ call' = [call EXCEPT ![p] = [op |-> o, key |-> k, val |-> v, effect |-> "none"]]
    /\ Goto(p, "try")
    /\ UNCHANGED <<objects, page, attempt, canceled>>

\* List: held follows the keys that hold an object all the while.
BeginList(p) ==
    /\ p \in Listers /\ at[p] = "idle"
    /\ page' = [page EXCEPT ![p].held = {k \in Keys : objects[k] # Absent}]
    /\ Goto(p, "try")
    /\ UNCHANGED <<objects, call, attempt, canceled>>

\* The user interrupts the command, whose context all its calls share.
Cancel ==
    /\ "cancel" \in Faults
    /\ ~canceled /\ canceled' = TRUE
    /\ UNCHANGED <<objects, call, page, at, attempt>>

-----------------------------------------------------------------------------
(* The service                                                             *)

\* The response to an attempt that was acted on may be lost.
Respond(p) ==
    /\ \/ Goto(p, "answered")
       \/ "transient" \in Faults /\ Goto(p, "failed")
    /\ UNCHANGED <<attempt, canceled>>

\* The key now holds v, to effect e.
Write(p, v, e) ==
    LET k == call[p].key
    IN  /\ objects' = [objects EXCEPT ![k] = v]
        /\ page' = [l \in Listers |->
              IF v = Absent THEN [page[l] EXCEPT !.held = @ \ {k}] ELSE page[l]]
        /\ call' = [call EXCEPT ![p].effect = e]

\* The key is as the request would have it.
Found(p, e) ==
    /\ call' = [call EXCEPT ![p].effect = e]
    /\ UNCHANGED <<objects, page>>

Stored(p) == objects[call[p].key] # Absent

PutObject(p) ==
    /\ p \in Callers /\ at[p] = "sent"
    /\ \/ call[p].op = "put" /\ Write(p, call[p].val, "done")
       \/ call[p].op = "putIfAbsent" /\ ~Stored(p) /\ Write(p, call[p].val, "created")
       \/ call[p].op = "putIfAbsent" /\ Stored(p) /\ Found(p, "exists")
    /\ Respond(p)

\* To remove a key that is not there is a success.
DeleteObject(p) ==
    /\ p \in Callers /\ at[p] = "sent" /\ call[p].op = "delete"
    /\ IF Stored(p) THEN Write(p, Absent, "done") ELSE Found(p, "gone")
    /\ Respond(p)

\* 409: another write to the key is under way, and nothing was done.
UnderWay(p) ==
    /\ p \in Callers /\ at[p] = "sent" /\ call[p].op = "putIfAbsent"
    /\ \E q \in Callers \ {p} : at[q] = "sent" /\ call[q].key = call[p].key

\* Mutant: a 409 is taken for a 412.
ConflictIsExists(p) == UnderWay(p) /\ Return(p, "exists")

\* It is classified as retryable.
Conflict(p) ==
    /\ UnderWay(p)
    /\ Goto(p, "failed")
    /\ UNCHANGED <<objects, call, page, attempt, canceled>>

\* The service does nothing, also to slow the client down, or the request
\* never reached it.
Refuse(p) ==
    /\ at[p] = "sent" /\ "transient" \in Faults
    /\ Goto(p, "failed")
    /\ UNCHANGED <<objects, call, page, attempt, canceled>>

\* An error that no retry mends.
Deny(p) == at[p] = "sent" /\ "denied" \in Faults /\ Return(p, "error")

-----------------------------------------------------------------------------
(* retry.Do around each request                                            *)

\* The context is checked before every attempt.
Try(p) ==
    /\ at[p] = "try" /\ ~canceled
    /\ Goto(p, "sent")
    /\ UNCHANGED <<objects, call, page, attempt, canceled>>

\* It is done: before an attempt, in the wait for it, or in the request.
Stop(p) == at[p] \in {"try", "sent"} /\ canceled /\ Return(p, "error")

Settle(p) == p \in Callers /\ at[p] = "answered" /\ Return(p, call[p].effect)

LastAttempt(p) == attempt[p] = MaxAttempts - 1

Exhausted(p) == at[p] = "failed" /\ LastAttempt(p) /\ Return(p, "error")

\* Mutant: the attempt is not counted.
BackoffUncounted(p) ==
    /\ at[p] = "failed" /\ ~LastAttempt(p)
    /\ Goto(p, "try")
    /\ UNCHANGED <<objects, call, page, attempt, canceled>>

\* The wait before the next attempt begins.
Backoff(p) ==
    /\ at[p] = "failed" /\ ~LastAttempt(p)
    /\ attempt' = [attempt EXCEPT ![p] = @ + 1]
    /\ Goto(p, "try")
    /\ UNCHANGED <<objects, call, page, canceled>>

-----------------------------------------------------------------------------
(* List: one page after the other, until one has no continuation token     *)

\* A page holds the objects under the next keys, up to n; it may be empty.
Page(p, n) == {k \in (page[p].token + 1)..n : objects[k] # Absent}
IsLast(n) == \A k \in Keys : k > n => objects[k] = Absent

GetsPage(p, n) ==
    /\ p \in Listers /\ at[p] = "sent"
    /\ n \in page[p].token..NumKeys
    /\ n > page[p].token \/ n = NumKeys

NextPage(p, n) ==
    /\ GetsPage(p, n)
    /\ ~IsLast(n)
    /\ page' = [page EXCEPT ![p].token = n, ![p].seen = @ \cup Page(p, n)]
    /\ attempt' = [attempt EXCEPT ![p] = 0]
    /\ Goto(p, "try")
    /\ UNCHANGED <<objects, call, canceled>>

\* Mutant: an empty page is taken for the last one.
LastPageOrEmpty(p, n) ==
    /\ GetsPage(p, n)
    /\ IsLast(n) \/ Page(p, n) = {}
    /\ Return(p, "done")

LastPage(p, n) ==
    /\ GetsPage(p, n)
    /\ IsLast(n)
    /\ Return(p, "done")

-----------------------------------------------------------------------------
Call(p) ==
    \/ \E o \in {"put", "putIfAbsent", "delete"}, k \in Keys, v \in Values \cup {Absent} :
          Begin(p, o, k, v)
    \/ BeginList(p)

Client(p) == Try(p) \/ Stop(p) \/ Settle(p) \/ Exhausted(p) \/ Backoff(p)

Service(p) ==
    \/ PutObject(p) \/ DeleteObject(p) \/ Conflict(p) \/ Refuse(p) \/ Deny(p)
    \/ \E n \in 0..NumKeys : NextPage(p, n) \/ LastPage(p, n)

Next == Cancel \/ \E p \in Clients : Call(p) \/ Client(p) \/ Service(p)

\* Every request is answered or fails, every wait ends, and no goroutine is
\* kept from running.
Fairness == \A p \in Clients : WF_vars(Client(p)) /\ WF_vars(Service(p))

Spec == Init /\ [][Next]_vars /\ Fairness

-----------------------------------------------------------------------------
(* Properties                                                              *)

Contract == INSTANCE ObjectStore WITH durable <- Keys

\* Whatever is lost, refused and retried, a caller is told "created" or "it
\* exists" only as the bucket was when its call took effect; a 409 settles nothing.
ImplementsStore == Contract!Spec

\* Every call returns, with the attempts used up at the latest.
CallsEnd == \A p \in Clients : at[p] # "idle" ~> at[p] = "idle"

\* A listing that succeeds has every object that was there all the while: a
\* short or empty page does not end it.
ListComplete ==
    [][\A p \in Listers, n \in 0..NumKeys :
          LastPage(p, n) => page[p].held \subseteq page[p].seen \cup Page(p, n)]_vars
=============================================================================
