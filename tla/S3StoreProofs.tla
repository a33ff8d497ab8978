--------------------------- MODULE S3StoreProofs ---------------------------
(* Theorems about S3Store, for any callers, listers, keys and values.      *)
EXTENDS S3Store, TLAPS

-----------------------------------------------------------------------------
(* The calls of the callers                                                  *)

Answers == [answer : Effects \cup {"error"}]

\* A caller that is idle has its answer, the others have a call of the contract;
\* what was answered had an effect.
CallOK(p) ==
    /\ at[p] = "idle" => call[p] \in Answers
    /\ at[p] # "idle" => call[p] \in Contract!Calls
    /\ at[p] = "answered" => call[p].effect # "none"

\* A listing has seen what it must of the keys up to its token.
ListOK(p) ==
    /\ at[p] = "idle" => page[p] = Ended
    /\ \A k \in page[p].held : objects[k] # Absent
    /\ \A k \in page[p].held : k <= page[p].token => k \in page[p].seen

Inv == /\ TypeOK
       /\ \A p \in Callers : CallOK(p)
       /\ \A p \in Listers : ListOK(p)

LEMMA ContractCalls == Contract!Calls \subseteq Calls
BY DEF Contract!Calls, Contract!Effects, Calls, Effects

LEMMA AnswersAreNoCalls == \A a \in Answers : a \notin Calls
<1> SUFFICES ASSUME NEW a \in Answers, a \in Calls PROVE FALSE
  OBVIOUS
<1>1. DOMAIN a = {"answer"}
  BY DEF Answers
<1>2. DOMAIN a = {"op", "key", "val", "effect"}
  BY DEF Calls
<1> QED
  BY <1>1, <1>2

LEMMA IdleWaits ==
    ASSUME Inv, NEW p \in Callers
    PROVE  Contract!Waiting(p) <=> at[p] # "idle"
BY ContractCalls, AnswersAreNoCalls DEF Inv, CallOK, Contract!Waiting

\* The fields of a call under way.
LEMMA CallFields ==
    ASSUME Inv, NEW p \in Callers, at[p] # "idle"
    PROVE  /\ call[p] \in Contract!Calls
           /\ call[p].op \in {"put", "putIfAbsent", "delete"} /\ call[p].key \in Keys
           /\ call[p].val \in Values \cup {Absent} /\ call[p].effect \in Effects
           /\ call[p].op # "delete" => call[p].val \in Values
BY DEF Inv, CallOK, Contract!Calls, Contract!Effects, Effects

LEMMA EffectCall ==
    ASSUME NEW c \in Contract!Calls, NEW e \in Effects
    PROVE  /\ [c EXCEPT !.effect = e] \in Contract!Calls
           /\ [c EXCEPT !.effect = e].effect = e
BY DEF Contract!Calls, Contract!Effects, Effects

-----------------------------------------------------------------------------
(* Invariance                                                                *)

LEMMA InvInit ==
    ASSUME Init
    PROVE  Inv
<1>1. \A p \in Callers : call[p] = [answer |-> "none"] /\ at[p] = "idle"
  BY DEF Init, Clients
<1>2. \A p \in Callers : CallOK(p)
  <2>1. [answer |-> "none"] \in Answers
    BY DEF Answers, Effects
  <2> QED
    BY <1>1, <2>1 DEF CallOK
<1>3. \A p \in Listers : ListOK(p)
  BY DEF Init, Ended, ListOK
<1>4. TypeOK
  <2>1. /\ [answer |-> "none"] \in [answer : Effects \cup {"error"}]
        /\ Ended \in [token : 0..NumKeys, seen : SUBSET Keys, held : SUBSET Keys]
        /\ 0 \in 0..(MaxAttempts - 1)
    BY NumKeysAssumption, MaxAttemptsAssumption DEF Effects, Ended
  <2> QED
    BY <2>1 DEF Init, TypeOK
<1> QED
  BY <1>2, <1>3, <1>4 DEF Inv

LEMMA ReturnInv ==
    ASSUME Inv, NEW p \in Clients, NEW a \in Effects \cup {"error"}, Return(p, a)
    PROVE  Inv'
<1>1. TypeOK'
  <2>1. [answer |-> a] \in [answer : Effects \cup {"error"}] /\ 0 \in 0..(MaxAttempts - 1)
        /\ Ended \in [token : 0..NumKeys, seen : SUBSET Keys, held : SUBSET Keys]
    BY NumKeysAssumption, MaxAttemptsAssumption DEF Ended
  <2> QED
    BY <2>1 DEF Inv, TypeOK, Return, Goto
<1>2. ASSUME NEW q \in Callers PROVE CallOK(q)'
  BY <1>2 DEF Inv, TypeOK, CallOK, Return, Goto, Answers, Clients
<1>3. ASSUME NEW q \in Listers PROVE ListOK(q)'
  BY <1>3 DEF Inv, TypeOK, ListOK, Return, Goto, Ended, Clients
<1> QED
  BY <1>1, <1>2, <1>3 DEF Inv

LEMMA BeginInv ==
    ASSUME Inv, NEW p \in Clients, Call(p)
    PROVE  Inv'
<1>1. ASSUME NEW o \in {"put", "putIfAbsent", "delete"}, NEW k \in Keys,
             NEW v \in Values \cup {Absent}, Begin(p, o, k, v)
      PROVE  Inv'
  <2> DEFINE c == [op |-> o, key |-> k, val |-> v, effect |-> "none"]
  <2>1. c \in Contract!Calls
    BY <1>1 DEF Begin, Contract!Calls, Contract!Effects
  <2>2. c \in Calls
    BY <2>1, ContractCalls
  <2>3. call' = [call EXCEPT ![p] = c] /\ at' = [at EXCEPT ![p] = "try"]
        /\ UNCHANGED <<objects, page, attempt, canceled>>
    BY <1>1 DEF Begin, Goto
  <2> HIDE DEF c
  <2>4. TypeOK'
    BY <2>2, <2>3 DEF Inv, TypeOK
  <2>5. \A q \in Callers : CallOK(q)'
    BY <2>1, <2>3 DEF Inv, TypeOK, CallOK, Clients
  <2>6. \A q \in Listers : ListOK(q)'
    BY <1>1, <2>3, ClientsAssumption DEF Inv, TypeOK, ListOK, Begin
  <2> QED
    BY <2>4, <2>5, <2>6 DEF Inv
<1>2. CASE BeginList(p)
  <2> DEFINE held == {k \in Keys : objects[k] # Absent}
  <2>1. page' = [page EXCEPT ![p].held = held] /\ at' = [at EXCEPT ![p] = "try"]
        /\ p \in Listers /\ UNCHANGED <<objects, call, attempt, canceled>>
    BY <1>2 DEF BeginList, Goto
  <2>2. page[p] = Ended
    BY <1>2 DEF BeginList, Inv, ListOK
  <2>4. TypeOK'
    BY <2>1 DEF Inv, TypeOK
  <2>5. \A q \in Callers : CallOK(q)'
    BY <2>1, ClientsAssumption DEF Inv, TypeOK, CallOK, Clients
  <2>6. \A q \in Listers : ListOK(q)'
    BY <2>1, <2>2 DEF Inv, TypeOK, ListOK, Ended, Keys, Clients
  <2> QED
    BY <2>4, <2>5, <2>6 DEF Inv
<1> QED
  BY <1>1, <1>2 DEF Call

\* The steps that leave calls, listings and objects alone.
LEMMA WaitInv ==
    ASSUME Inv, NEW p \in Clients,
           \/ Try(p) \/ Conflict(p) \/ Refuse(p) \/ (Backoff(p) /\ attempt[p] # MaxAttempts - 1)
    PROVE  Inv'
<1>1. PICK l \in {"try", "sent", "failed"} : at' = [at EXCEPT ![p] = l] /\ at[p] # "idle"
  BY DEF Try, Conflict, UnderWay, Refuse, Backoff, Goto
<1>2. UNCHANGED <<objects, call, page, canceled>>
  BY DEF Try, Conflict, Refuse, Backoff
<1>3. attempt' \in [Clients -> 0..(MaxAttempts - 1)]
  BY MaxAttemptsAssumption DEF Try, Conflict, Refuse, Backoff, Inv, TypeOK
<1>4. TypeOK'
  BY <1>1, <1>2, <1>3 DEF Inv, TypeOK
<1>5. \A q \in Callers : CallOK(q)'
  BY <1>1, <1>2 DEF Inv, TypeOK, CallOK
<1>6. \A q \in Listers : ListOK(q)'
  BY <1>1, <1>2 DEF Inv, TypeOK, ListOK
<1> QED
  BY <1>4, <1>5, <1>6 DEF Inv

\* A caller's request is acted on: the key holds v, or stays as it is.
LEMMA ServedInv ==
    ASSUME Inv, NEW p \in Callers, at[p] = "sent", NEW e \in Effects \ {"none"},
           NEW v \in Values \cup {Absent},
           Write(p, v, e) \/ Found(p, e), Respond(p)
    PROVE  Inv'
<1>1. call[p] \in Contract!Calls /\ call[p].key \in Keys
  BY CallFields
<1> DEFINE c == [call[p] EXCEPT !.effect = e]
<1>2. c \in Contract!Calls /\ c \in Calls /\ c.effect # "none"
  BY <1>1, EffectCall, ContractCalls
<1>3. call' = [call EXCEPT ![p] = c]
  BY DEF Write, Found
<1>4. PICK l \in {"answered", "failed"} : at' = [at EXCEPT ![p] = l]
  BY DEF Respond, Goto
<1>5. UNCHANGED <<attempt, canceled>>
  BY DEF Respond
<1> HIDE DEF c
<1>6. objects' \in [Keys -> Values \cup {Absent}]
  BY <1>1 DEF Write, Found, Inv, TypeOK
<1>7. ASSUME NEW q \in Listers
      PROVE  /\ page'[q] \in [token : 0..NumKeys, seen : SUBSET Keys, held : SUBSET Keys]
             /\ ListOK(q)'
  <2>1. page[q] \in [token : 0..NumKeys, seen : SUBSET Keys, held : SUBSET Keys]
        /\ at'[q] = at[q]
    BY <1>4, ClientsAssumption DEF Inv, TypeOK
  <2>2. CASE Found(p, e)
    BY <2>1, <2>2 DEF Found, Inv, ListOK
  <2>3. CASE Write(p, v, e) /\ v = Absent
    <3>1. page'[q] = [page[q] EXCEPT !.held = @ \ {call[p].key}]
          /\ objects' = [objects EXCEPT ![call[p].key] = v]
      BY <2>3 DEF Write
    <3>2. page'[q].held = page[q].held \ {call[p].key} /\ page'[q].token = page[q].token
          /\ page'[q].seen = page[q].seen
      BY <2>1, <3>1
    <3>3. at[q] = "idle" => page'[q] = Ended
      <4>1. [Ended EXCEPT !.held = @ \ {call[p].key}] = Ended
        BY DEF Ended
      <4> QED
        BY <3>1, <4>1 DEF Inv, ListOK
    <3>4. page'[q] \in [token : 0..NumKeys, seen : SUBSET Keys, held : SUBSET Keys]
      BY <2>1, <3>1
    <3>5. \A k \in page'[q].held : objects'[k] # Absent
      BY <1>1, <3>1, <3>2 DEF Inv, TypeOK, ListOK
    <3>6. \A k \in page'[q].held : k <= page'[q].token => k \in page'[q].seen
      BY <3>2 DEF Inv, ListOK
    <3> QED
      BY <2>1, <3>3, <3>4, <3>5, <3>6 DEF ListOK
  <2>4. CASE Write(p, v, e) /\ v # Absent
    <3>1. page'[q] = page[q] /\ objects' = [objects EXCEPT ![call[p].key] = v]
      BY <2>4 DEF Write
    <3> QED
      BY <1>1, <2>1, <2>4, <3>1 DEF Inv, TypeOK, ListOK
  <2> QED
    BY <2>2, <2>3, <2>4
<1>8. page' \in [Listers -> [token : 0..NumKeys, seen : SUBSET Keys, held : SUBSET Keys]]
  <2>1. \E f : page' = [q \in Listers |-> f[q]]
    BY DEF Write, Found, Inv, TypeOK
  <2> QED
    BY <1>7, <2>1
<1>9. TypeOK'
  BY <1>2, <1>3, <1>4, <1>5, <1>6, <1>8 DEF Inv, TypeOK
<1>10. \A q \in Callers : CallOK(q)'
  BY <1>2, <1>3, <1>4 DEF Inv, TypeOK, CallOK, Clients
<1> QED
  BY <1>7, <1>9, <1>10 DEF Inv

LEMMA NextPageInv ==
    ASSUME Inv, NEW p \in Clients, NEW n \in 0..NumKeys, NextPage(p, n)
    PROVE  Inv'
<1>1. p \in Listers /\ n \in page[p].token..NumKeys
      /\ page[p] \in [token : 0..NumKeys, seen : SUBSET Keys, held : SUBSET Keys]
  BY DEF NextPage, GetsPage, Inv, TypeOK
<1> DEFINE r == [page[p] EXCEPT !.token = n, !.seen = @ \cup Page(p, n)]
<1>2. Page(p, n) \subseteq Keys
  BY <1>1, NumKeysAssumption DEF Page, Keys
<1>3. /\ r.token = n /\ r.seen = page[p].seen \cup Page(p, n) /\ r.held = page[p].held
      /\ r \in [token : 0..NumKeys, seen : SUBSET Keys, held : SUBSET Keys]
  BY <1>1, <1>2
<1>4. page' = [page EXCEPT ![p] = r] /\ at' = [at EXCEPT ![p] = "try"]
      /\ attempt' = [attempt EXCEPT ![p] = 0] /\ UNCHANGED <<objects, call, canceled>>
  BY <1>1 DEF NextPage, Goto, Inv, TypeOK
<1> HIDE DEF r
<1>5. TypeOK'
  <2>1. 0 \in 0..(MaxAttempts - 1)
    BY MaxAttemptsAssumption
  <2> QED
    BY <1>3, <1>4, <2>1 DEF Inv, TypeOK
<1>6. \A q \in Callers : CallOK(q)'
  BY <1>1, <1>4, ClientsAssumption DEF Inv, TypeOK, CallOK
<1>7. ASSUME NEW q \in Listers PROVE ListOK(q)'
  <2>1. CASE q # p
    BY <1>1, <1>4, <2>1 DEF Inv, TypeOK, ListOK
  <2>2. CASE q = p
    <3>1. page'[q] = r /\ at'[q] = "try"
      BY <1>1, <1>4, <2>2 DEF Inv, TypeOK
    <3>2. ASSUME NEW k \in r.held, k <= n PROVE k \in r.seen
      <4>1. k \in Keys /\ objects[k] # Absent /\ (k <= page[p].token => k \in page[p].seen)
        BY <1>1, <1>3, <3>2 DEF Inv, ListOK
      <4>2. CASE k <= page[p].token
        BY <1>3, <4>1, <4>2
      <4>3. CASE ~(k <= page[p].token)
        <5>1. k \in (page[p].token + 1)..n
          BY <1>1, <3>2, <4>1, <4>3, NumKeysAssumption DEF Keys
        <5> QED
          BY <1>3, <4>1, <5>1 DEF Page
      <4> QED
        BY <4>2, <4>3
    <3>3. \A k \in r.held : objects[k] # Absent
      BY <1>1, <1>3 DEF Inv, ListOK
    <3> QED
      BY <1>3, <1>4, <3>1, <3>2, <3>3 DEF ListOK
  <2> QED
    BY <2>1, <2>2
<1> QED
  BY <1>5, <1>6, <1>7 DEF Inv

LEMMA InvKept ==
    ASSUME Inv, [Next]_vars
    PROVE  Inv'
<1>1. CASE UNCHANGED <<objects, call, page, at, attempt>> /\ canceled' \in BOOLEAN
  BY <1>1 DEF Inv, TypeOK, CallOK, ListOK
<1>2. ASSUME NEW p \in Clients, Call(p) PROVE Inv'
  BY <1>2, BeginInv
<1>3. ASSUME NEW p \in Clients, Client(p) PROVE Inv'
  <2>1. CASE Settle(p)
    <3>1. p \in Callers /\ call[p].effect \in Effects /\ Return(p, call[p].effect)
      BY <2>1, CallFields DEF Settle
    <3> QED
      BY <3>1, ReturnInv
  <2>2. CASE Backoff(p)
    BY <2>2, WaitInv DEF Backoff, LastAttempt
  <2> QED
    BY <1>3, <2>1, <2>2, WaitInv, ReturnInv DEF Client, Stop, Exhausted
<1>4. ASSUME NEW p \in Clients, Service(p) PROVE Inv'
  <2>1. CASE PutObject(p)
    BY <2>1, CallFields, ServedInv DEF PutObject, Effects
  <2>2. CASE DeleteObject(p)
    BY <2>2, ServedInv DEF DeleteObject, Effects
  <2>3. ASSUME NEW n \in 0..NumKeys, NextPage(p, n) PROVE Inv'
    BY <2>3, NextPageInv
  <2>4. ASSUME NEW n \in 0..NumKeys, LastPage(p, n) PROVE Inv'
    BY <2>4, ReturnInv DEF LastPage, Effects
  <2> QED
    BY <1>4, <2>1, <2>2, <2>3, <2>4, WaitInv, ReturnInv DEF Service, Deny
<1>5. CASE UNCHANGED vars
  BY <1>1, <1>5 DEF vars, Inv, TypeOK
<1>6. CASE Cancel
  BY <1>1, <1>6 DEF Cancel
<1> QED
  BY <1>2, <1>3, <1>4, <1>5, <1>6 DEF Next

THEOREM InvAlways == Spec => []Inv
BY InvInit, InvKept, PTL DEF Spec

\* The types of all variables.
THEOREM TypeCorrect == Spec => []TypeOK
<1>1. Inv => TypeOK
  BY DEF Inv
<1> QED
  BY <1>1, InvAlways, PTL

\* What List (s3.go) has shown its caller when it returns nil is no less than
\* what was there from its first page to its last.
THEOREM ListingsComplete == Spec => ListComplete
<1>1. ASSUME Inv, NEW p \in Listers, NEW n \in 0..NumKeys, LastPage(p, n)
      PROVE  page[p].held \subseteq page[p].seen \cup Page(p, n)
  <2> SUFFICES ASSUME NEW k \in page[p].held, k \notin page[p].seen
               PROVE  k \in Page(p, n)
    OBVIOUS
  <2>1. page[p] \in [token : 0..NumKeys, seen : SUBSET Keys, held : SUBSET Keys]
    BY <1>1 DEF Inv, TypeOK
  <2>2. k \in Keys /\ objects[k] # Absent /\ ~(k <= page[p].token)
    BY <1>1, <2>1 DEF Inv, ListOK
  <2>3. ~(k > n)
    BY <1>1, <2>2 DEF LastPage, IsLast
  <2>4. k \in (page[p].token + 1)..n
    BY <2>1, <2>2, <2>3, NumKeysAssumption DEF Keys
  <2> QED
    BY <2>2, <2>4 DEF Page
<1>2. Inv /\ [Next]_vars =>
          [\A p \in Listers, n \in 0..NumKeys :
              LastPage(p, n) => page[p].held \subseteq page[p].seen \cup Page(p, n)]_vars
  BY <1>1
<1> QED
  BY <1>2, InvAlways, PTL DEF Spec, ListComplete

-----------------------------------------------------------------------------
(* Refinement                                                                *)

\* The call of one caller ends with an error, or goes on as it was.
LEMMA ReturnError ==
    ASSUME Inv, NEW p \in Clients, at[p] # "idle", Return(p, "error")
    PROVE  [Contract!Next]_(Contract!vars)
<1>1. CASE p \in Callers
  <2>1. Contract!GiveUp(p)
    BY <1>1, IdleWaits DEF Contract!GiveUp, Return
  <2> QED
    BY <1>1, <2>1 DEF Contract!Next
<1>2. CASE p \notin Callers
  BY <1>2 DEF Return, Contract!vars
<1> QED
  BY <1>1, <1>2

LEMMA ServedStep ==
    ASSUME Inv, NEW p \in Callers, PutObject(p) \/ DeleteObject(p)
    PROVE  Contract!Next
<1>1. Contract!Waiting(p) /\ call[p].key \in Keys
  BY IdleWaits, CallFields DEF PutObject, DeleteObject
<1>2. \A v, e : Write(p, v, e) => Contract!Become(p, v, e)
  BY DEF Write, Contract!Become
<1>3. \A e : Found(p, e) => Contract!Found(p, e)
  BY DEF Found, Contract!Found
<1>4. Contract!Apply(p)
  BY <1>1, <1>2, <1>3 DEF PutObject, DeleteObject, Stored, Contract!Apply, Contract!Put,
                          Contract!PutIfAbsent, Contract!Delete
<1> QED
  BY <1>4 DEF Contract!Next

LEMMA BeginStep ==
    ASSUME Inv, NEW p \in Clients, Call(p)
    PROVE  [Contract!Next]_(Contract!vars)
<1>1. ASSUME NEW o \in {"put", "putIfAbsent", "delete"}, NEW k \in Keys,
             NEW v \in Values \cup {Absent}, Begin(p, o, k, v)
      PROVE  Contract!Begin(p) /\ p \in Callers
  <2> DEFINE c == [op |-> o, key |-> k, val |-> v, effect |-> "none"]
  <2>1. c \in Contract!Calls /\ c.effect = "none"
    BY <1>1 DEF Begin, Contract!Calls, Contract!Effects
  <2>2. call' = [call EXCEPT ![p] = c] /\ UNCHANGED objects /\ p \in Callers /\ at[p] = "idle"
    BY <1>1 DEF Begin
  <2> HIDE DEF c
  <2> QED
    BY <2>1, <2>2, IdleWaits DEF Contract!Begin
<1>2. CASE BeginList(p)
  BY <1>2 DEF BeginList, Contract!vars
<1> QED
  BY <1>1, <1>2 DEF Call, Contract!Next

LEMMA SettleStep ==
    ASSUME Inv, NEW p \in Clients, Settle(p)
    PROVE  Contract!Next
<1>1. p \in Callers /\ at[p] = "answered" /\ Return(p, call[p].effect)
  BY DEF Settle
<1>2. Contract!Waiting(p) /\ call[p].effect # "none" /\ call[p].key \in Keys
  BY <1>1, IdleWaits, CallFields DEF Inv, CallOK
<1>3. call' = [call EXCEPT ![p] = [answer |-> @.effect]] /\ UNCHANGED objects
  BY <1>1 DEF Return
<1> QED
  BY <1>1, <1>2, <1>3 DEF Contract!Return, Contract!Next

LEMMA NextStep ==
    ASSUME Inv, [Next]_vars
    PROVE  [Contract!Next]_(Contract!vars)
<1>1. CASE UNCHANGED <<objects, call>>
  BY <1>1 DEF Contract!vars
<1>2. ASSUME NEW p \in Clients, NEW n \in 0..NumKeys, LastPage(p, n)
      PROVE  UNCHANGED <<objects, call>>
  BY <1>2, ClientsAssumption DEF LastPage, GetsPage, Return
<1>3. ASSUME NEW p \in Clients, Stop(p) \/ Exhausted(p) \/ Deny(p)
      PROVE  [Contract!Next]_(Contract!vars)
  BY <1>3, ReturnError DEF Stop, Exhausted, Deny
<1>4. ASSUME NEW p \in Clients, PutObject(p) \/ DeleteObject(p)
      PROVE  Contract!Next
  BY <1>4, ServedStep DEF PutObject, DeleteObject
<1> QED
  BY <1>1, <1>2, <1>3, <1>4, BeginStep, SettleStep
  DEF Next, vars, Cancel, Client, Try, Backoff, Service, Conflict, Refuse, NextPage

\* Put, PutIfAbsent and Delete of s3.go over retry.Do keep what store.ObjectStore
\* promises, whatever the service loses, refuses or repeats.
THEOREM RefinesObjectStore == Spec => ImplementsStore
<1>1. Init => Contract!Init
  BY DEF Init, Contract!Init
<1> QED
  BY <1>1, InvAlways, NextStep, PTL DEF Spec, ImplementsStore, Contract!Spec
=============================================================================
