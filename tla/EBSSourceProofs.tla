--------------------------- MODULE EBSSourceProofs ---------------------------
(* Theorems about EBSSource, for any snapshot, callers, page sizes and       *)
(* lifetimes.                                                                *)
EXTENDS EBSSource, FiniteSetTheorems, TLAPS

-----------------------------------------------------------------------------
(* The least and the greatest of a set of naturals                           *)

\* A family of finite sets has a member of which no other is a proper part.
FiniteFamily(S, T) == T # {} /\ \A X \in T : X \in FiniteSubsetsOf(S)
IsMinimal(X, T) == X \in T /\ \A Y \in T : Y \subseteq X => Y = X

LEMMA MinimalMember ==
    ASSUME NEW S, NEW T, FiniteFamily(S, T)
    PROVE  \E X : IsMinimal(X, T)
<1>1. T \subseteq FiniteSubsetsOf(S) /\ T # {}
  BY DEF FiniteFamily
<1>2. PICK X \in T : \A Y \in T : ~ (<<Y, X>> \in StrictSubsetOrdering(S))
  BY <1>1, FS_StrictSubsetOrderingWellFounded, WFMin
<1>3. ASSUME NEW Y \in T, Y \subseteq X, Y # X
      PROVE  FALSE
  <2>1. <<Y, X>> \in (SUBSET S) \X (SUBSET S)
    BY <1>1 DEF FiniteSubsetsOf
  <2>2. <<Y, X>> \in StrictSubsetOrdering(S)
    BY <2>1, <1>3 DEF StrictSubsetOrdering
  <2> QED
    BY <1>2, <2>2
<1>4. IsMinimal(X, T)
  BY <1>3 DEF IsMinimal
<1> QED
  BY <1>4

LEMMA Least ==
    ASSUME NEW S, S \subseteq Nat, S # {}
    PROVE  \E m \in S : \A x \in S : m <= x
<1> DEFINE T == {0..m : m \in S}
<1>1. \A m \in S : 0..m \in FiniteSubsetsOf(Nat)
  BY FS_Interval DEF FiniteSubsetsOf
<1>2. FiniteFamily(Nat, T)
  BY <1>1 DEF FiniteFamily
<1>3. PICK I : IsMinimal(I, T)
  BY <1>2, MinimalMember
<1>4. PICK m \in S : I = 0..m
  BY <1>3 DEF IsMinimal
<1>5. ASSUME NEW x \in S, x < m PROVE FALSE
  <2>1. 0..x \in T
    OBVIOUS
  <2>2. 0..x \subseteq 0..m /\ m \in 0..m /\ m \notin 0..x
    BY <1>5
  <2> QED
    BY <1>3, <1>4, <2>1, <2>2 DEF IsMinimal
<1> QED
  BY <1>5

Above(S, m) == {x \in S : m < x}

LEMMA Greatest ==
    ASSUME NEW S, S \subseteq Nat, IsFiniteSet(S), S # {}
    PROVE  \E m \in S : \A x \in S : x <= m
<1> DEFINE T == {Above(S, m) : m \in S}
<1>1. \A m \in S : Above(S, m) \in SUBSET S
  BY DEF Above
<1>2. \A m \in S : Above(S, m) \in FiniteSubsetsOf(S)
  BY <1>1, FS_FiniteSubsetsOfFinite
<1>3. FiniteFamily(S, T)
  BY <1>2 DEF FiniteFamily
<1>4. PICK I : IsMinimal(I, T)
  BY <1>3, MinimalMember
<1>5. PICK m \in S : I = Above(S, m)
  BY <1>4 DEF IsMinimal
<1>6. ASSUME NEW x \in S, m < x PROVE FALSE
  <2>1. Above(S, x) \in T
    OBVIOUS
  <2>2. m \in Nat /\ x \in Nat /\ \A y \in S : y \in Nat
    OBVIOUS
  <2>3. Above(S, x) \subseteq Above(S, m)
    <3> SUFFICES ASSUME NEW y \in S, x < y PROVE m < y
      BY DEF Above
    <3> QED
      BY <1>6, <2>2
  <2>4. x \in Above(S, m) /\ x \notin Above(S, x)
    BY <1>6, <2>2 DEF Above
  <2> QED
    BY <1>4, <1>5, <2>1, <2>3, <2>4 DEF IsMinimal
<1> QED
  BY <1>6
-----------------------------------------------------------------------------
(* Pages                                                                     *)

Tokens == [start : Nat, issued : 0..MaxTime] \cup {None}

\* The blocks before a continuation: all of them, if there is none to come.
Before(next, else) == IF next = None THEN else ELSE {b \in Written : b < next.start}

LEMMA NoneIsNoToken == None \notin [start : Nat, issued : 0..MaxTime]
BY NoneAssumption, LifetimesAssumption

LEMMA LimitIsPositive ==
    ASSUME NEW n \in Int
    PROVE  Limit(n) \in Nat \ {0}
BY ResultsAssumption DEF Limit, Clamp

\* A page has every block from its start to its last.
LEMMA PageHasNoGap ==
    ASSUME NEW n \in Int, NEW s \in Nat, NEW m \in PageOf(s, Limit(n)),
           NEW b \in Written, s <= b, b <= m
    PROVE  b \in PageOf(s, Limit(n))
<1>1. m \in Written /\ b \in Nat /\ m \in Nat /\ \A x \in Written : x \in Nat
  BY WrittenAssumption DEF PageOf
<1>2. Between(s, m) \subseteq Written /\ IsFiniteSet(Between(s, m))
  BY WrittenAssumption, FS_Subset DEF Between
<1>3. Between(s, b) \in SUBSET Between(s, m)
  <2>1. ASSUME NEW x \in Written, x < b PROVE x < m
    BY <1>1, <2>1
  <2> QED
    BY <2>1 DEF Between
<1>4. /\ Cardinality(Between(s, b)) \in Nat /\ Cardinality(Between(s, m)) \in Nat
      /\ Cardinality(Between(s, b)) <= Cardinality(Between(s, m))
  BY <1>2, <1>3, FS_Subset, FS_CardinalityType
<1>5. Cardinality(Between(s, m)) < Limit(n)
  BY DEF PageOf
<1> QED
  BY <1>4, <1>5, LimitIsPositive DEF PageOf

\* It is empty only if nothing is left.
LEMMA PageIsNotEmpty ==
    ASSUME NEW n \in Int, NEW s \in Nat, NEW b \in Written, s <= b
    PROVE  PageOf(s, Limit(n)) # {}
<1> DEFINE Left == {x \in Written : s <= x}
<1>1. Left \subseteq Nat /\ Left # {}
  BY WrittenAssumption
<1>2. PICK m \in Left : \A x \in Left : m <= x
  BY <1>1, Least
<1>3. Between(s, m) = {}
  BY <1>1, <1>2, WrittenAssumption DEF Between
<1>4. Cardinality(Between(s, m)) < Limit(n)
  BY <1>3, FS_EmptySet, LimitIsPositive
<1> QED
  BY <1>2, <1>4 DEF PageOf

\* A page and its token take the listing on by exactly the blocks of the page.
LEMMA PageContinues ==
    ASSUME NEW n \in Int, NEW token \in Tokens, now \in 0..MaxTime
    PROVE  /\ Blocks(n, token) \subseteq Written
           /\ NextToken(n, token) \in Tokens
           /\ Before(token, {}) \cap Blocks(n, token) = {}
           /\ Before(token, {}) \cup Blocks(n, token) = Before(NextToken(n, token), Written)
<1> DEFINE s == Start(token)
           P == Blocks(n, token)
<1>1. s \in Nat /\ Before(token, {}) = {b \in Written : b < s}
  <2>1. CASE token = None
    <3>1. s = 0 /\ \A b \in Written : ~ (b < 0)
      BY <2>1, WrittenAssumption DEF Start
    <3> QED
      BY <2>1, <3>1 DEF Before
  <2>2. CASE token # None
    BY <2>2 DEF Start, Before, Tokens
  <2> QED
    BY <2>1, <2>2
<1>2. CASE IsEmptyPage(token)
  <2>1. P = {} /\ NextToken(n, token) = [start |-> s, issued |-> now]
    BY <1>2 DEF Blocks, NextToken
  <2> QED
    BY <1>1, <2>1, NoneIsNoToken DEF Tokens, Before
<1>3. CASE ~IsEmptyPage(token)
  <2>1. P = PageOf(s, Limit(n))
    BY <1>3 DEF Blocks
  <2>2. P \subseteq Written /\ P \subseteq Nat /\ IsFiniteSet(P) /\ \A b \in P : s <= b
    BY <2>1, WrittenAssumption, FS_Subset DEF PageOf
  <2>3. Before(token, {}) \cap P = {}
    BY <1>1, <2>2
  <2>4. CASE P = {}
    <3>1. NextToken(n, token) = None
      BY <1>3, <2>4 DEF NextToken
    <3>2. ASSUME NEW b \in Written PROVE b < s
      <4>1. b \in Nat /\ ~ (s <= b)
        BY <1>1, <2>1, <2>4, PageIsNotEmpty, WrittenAssumption
      <4> QED
        BY <1>1, <4>1
    <3> QED
      BY <1>1, <2>2, <2>4, <3>1, <3>2 DEF Tokens, Before
  <2>5. CASE P # {}
    <3>1. PICK m \in P : \A x \in P : x <= m
      BY <2>2, <2>5, Greatest
    <3>2. \A b \in Written : b \in P <=> s <= b /\ b <= m
      BY <1>1, <2>1, <2>2, <3>1, PageHasNoGap
    <3>3. CASE \E b \in Written : b > m
      <4>1. NextToken(n, token) = [start |-> 1 + m, issued |-> now]
        <5>1. \E last \in P, b \in Written : b > last /\ \A x \in P : x <= last
          BY <3>1, <3>3
        <5>2. (CHOOSE last \in P : \A x \in P : x <= last) = m
          BY <2>2, <3>1
        <5> QED
          BY <1>3, <5>1, <5>2 DEF NextToken
      <4>2. 1 + m \in Nat /\ m \in Nat
        BY <2>2
      <4>3. NextToken(n, token) \in Tokens /\ NextToken(n, token) # None
        BY <4>1, <4>2, NoneIsNoToken DEF Tokens
      <4>4. Before(NextToken(n, token), Written) = {b \in Written : b < 1 + m}
        BY <4>1, <4>3 DEF Before
      <4>5. \A b \in Written : b < 1 + m <=> b < s \/ (s <= b /\ b <= m)
        BY <1>1, <2>2, <4>2, <3>1, WrittenAssumption
      <4> QED
        BY <1>1, <2>2, <2>3, <3>2, <4>3, <4>4, <4>5
    <3>4. CASE ~ \E b \in Written : b > m
      <4>1. NextToken(n, token) = None
        BY <1>3, <2>2, <3>1, <3>4 DEF NextToken
      <4>2. \A b \in Written : b < s \/ b \in P
        BY <1>1, <2>2, <3>2, <3>4, WrittenAssumption
      <4> QED
        BY <1>1, <2>2, <2>3, <4>1, <4>2 DEF Tokens, Before
    <3> QED
      BY <3>3, <3>4
  <2> QED
    BY <2>4, <2>5
<1> QED
  BY <1>2, <1>3

-----------------------------------------------------------------------------
(* What each call knows, and how it moves                                    *)

Lists(k) == k.op \in {"list", "changed"}

\* While a listing runs, its function has had the blocks up to the last; a page
\* completes those before the next token.
KnowsListing(k) ==
    /\ \A b \in Written : b \in k.handed <=> b <= k.last
    /\ k.at # "page" => k.page = {} /\ k.handed = Before(k.next, {})
    /\ k.at = "page" => k.handed \cap k.page = {} /\ k.handed \cup k.page = Before(k.next, Written)

\* Of a response that was read with success.
Exact(response) ==
    VerifyChecksums /\ response.checksum # "none" => Data(response) = "block"

Knows(k) ==
    /\ k.at = "idle" => k = NoCall
    /\ k.at # "idle" => k.op # "none"
    /\ ~Lists(k) => k.handed = {}
    /\ k.at \in {"loop", "page"} => Lists(k)
    /\ k.at = "body" => k.op = "read" /\ k.response \in Answer
    /\ k.op = "read" /\ k.at # "done" => k.ref # None
    /\ Lists(k) /\ k.at # "done" => KnowsListing(k)
    /\ Lists(k) /\ k.at = "done" =>
          (k.result = "corrupt" => Accused(k)) /\ (k.result = "ok" => k.handed = Written)
    /\ k.op = "read" /\ k.at = "done" /\ k.result = "ok" => Exact(k.response)

\* The steps of BlockListing, between two states of a call.
Hands(k, r) ==
    \E b \in Written \ k.handed :
        (\A x \in Written : x < b <=> x \in k.handed) /\ r.handed = k.handed \cup {b}

Progress(k, r) ==
    \/ Status(r) = Status(k) /\ r.handed = k.handed
    \/ Status(k) = "idle" /\ Status(r) \in {"running", "failed"} /\ r.handed = k.handed
    \/ Status(k) = "running" /\ Status(r) \in {"running", "failed"} /\ Hands(k, r)
    \/ Status(k) = "running" /\ Status(r) = "ok" /\ k.handed = Written /\ r.handed = k.handed
    \/ Status(k) = "running" /\ Status(r) = "failed" /\ r.handed = k.handed
    \/ Status(k) \in {"ok", "failed"} /\ Status(r) = "idle" /\ r.handed = {}

\* A goroutine's step takes its call from k to a state that knows as much.
Good(k, r) == r \in Call /\ Knows(r) /\ Progress(k, r)

Moves(c) == \E r : Set(c, r) /\ Good(call[c], r)

CallsKnow == call \in [Callers -> Call] /\ \A c \in Callers : Knows(call[c])

LEMMA NoCallType == NoCall \in Call
BY AttemptsAssumption, LifetimesAssumption DEF NoCall, Call, Op, Result

\* A call may end with any result that its kind of call can have.
LEMMA EndsWell ==
    ASSUME NEW k \in Call, Knows(k), k.at \notin {"idle", "done"}, NEW result \in Result,
           Lists(k) => (result = "corrupt" => Accused(k)) /\ (result = "ok" => k.handed = Written),
           k.op = "read" /\ result = "ok" => Exact(k.response)
    PROVE  Good(k, Ends(k, result))
<1> DEFINE r == Ends(k, result)
<1>1. /\ r.op = k.op /\ r.at = "done" /\ r.result = result /\ r.handed = k.handed
      /\ r.bare = k.bare /\ r.ref = k.ref /\ r.response = k.response
  BY DEF Ends, NoCall
<1>2. r \in Call
  <2>1. /\ k.op \in Op /\ k.handed \in SUBSET Written /\ k.bare \in SUBSET Written
        /\ k.ref \in Ref \cup {None} /\ k.response \in Answer \cup {None}
    BY DEF Call
  <2> QED
    BY <2>1, NoCallType DEF Ends, Call
<1>3. Knows(r)
  BY <1>1 DEF Knows, Lists, Accused
<1>4. Progress(k, r)
  BY <1>1 DEF Progress, Status, Lists, Knows
<1> QED
  BY <1>2, <1>3, <1>4 DEF Good

\* After an attempt that failed.
LEMMA FailsWell ==
    ASSUME NEW c \in Callers, CallsKnow, At(c, "request") \/ At(c, "body"),
           NEW kind \in Result \ {"ok"}, IsListing(c) => kind # "corrupt", Failed(c, kind)
    PROVE  Moves(c)
<1> DEFINE k == call[c]
<1>1. k \in Call /\ Knows(k) /\ k.at \in {"request", "body"}
  BY DEF CallsKnow, At
<1>2. CASE Retryable(kind) /\ k.attempt < MaxAttempts - 1
  <2> DEFINE r == [k EXCEPT !.at = "request", !.attempt = @ + 1, !.response = None]
  <2>1. Set(c, r)
    BY <1>2 DEF Failed
  <2>2. r \in Call
    <3>1. k.attempt + 1 \in 0..MaxAttempts - 1
      BY <1>1, <1>2, AttemptsAssumption DEF Call
    <3> QED
      BY <1>1, <3>1 DEF Call
  <2>3. /\ r.op = k.op /\ r.at = "request" /\ r.handed = k.handed /\ r.last = k.last
        /\ r.page = k.page /\ r.next = k.next /\ r.ref = k.ref
    BY <1>1 DEF Call
  <2>4. Knows(r)
    BY <1>1, <2>3 DEF Knows, Lists, KnowsListing
  <2>5. Progress(k, r)
    BY <1>1, <2>3 DEF Progress, Status
  <2> QED
    BY <2>1, <2>2, <2>4, <2>5 DEF Moves, Good
<1>3. CASE ~(Retryable(kind) /\ k.attempt < MaxAttempts - 1)
  <2>1. Set(c, Ends(k, kind))
    BY <1>3 DEF Failed, Done
  <2>2. Good(k, Ends(k, kind))
    BY <1>1, EndsWell DEF IsListing, Lists
  <2> QED
    BY <2>1, <2>2 DEF Moves
<1> QED
  BY <1>2, <1>3

LEMMA NoneIsNoRef == None \notin Ref
BY NoneAssumption, WrittenAssumption DEF Ref

-----------------------------------------------------------------------------
(* One lemma an action                                                       *)

\* What the actions rely on.
Known ==
    /\ now \in 0..MaxTime /\ generation \in Nat /\ emptyPages \in 0..EmptyPages
    /\ validTokens \subseteq [block : Written, gen : Nat, expiry : Nat]
    /\ refs \subseteq Ref
    /\ calls \in 0..MaxCalls
    /\ CallsKnow

\* The goroutine's call, in a state where it is there.
LEMMA CallAt ==
    ASSUME NEW c \in Callers, Known
    PROVE  call[c] \in Call /\ Knows(call[c])
BY DEF Known, CallsKnow

LEMMA BeginsWell ==
    ASSUME NEW c \in Callers, Known, NEW r \in Call, Begin(c, r),
           Knows(r), r.handed = {}, Status(r) # "ok"
    PROVE  Moves(c)
<1>1. call[c] = NoCall
  BY CallAt DEF Begin, At, Knows
<1>2. Progress(call[c], r)
  BY <1>1 DEF Progress, Status, NoCall
<1> QED
  BY <1>2 DEF Begin, Moves, Good

LEMMA BeginSizeMoves ==
    ASSUME NEW c \in Callers, Known, BeginSize(c)
    PROVE  Moves(c)
<1> DEFINE r == [NoCall EXCEPT !.op = "size", !.at = "request"]
<1>1. r \in Call
  BY NoCallType DEF Call, Op
<1>2. Knows(r) /\ r.handed = {} /\ Status(r) # "ok"
  BY DEF NoCall, Knows, Lists, Status
<1> QED
  BY <1>1, <1>2, BeginsWell DEF BeginSize

LEMMA BeginListingMoves ==
    ASSUME NEW c \in Callers, NEW op \in {"list", "changed"}, Known, BeginListing(c, op)
    PROVE  Moves(c)
<1> DEFINE r == [NoCall EXCEPT !.op = op, !.at = "loop", !.since = now]
<1>1. r \in Call
  <2>1. op \in Op /\ now \in 0..MaxTime
    BY DEF Op, Known
  <2> QED
    BY <2>1, NoCallType DEF Call
<1>2. /\ r.op = op /\ r.at = "loop" /\ r.handed = {} /\ r.last = -1
      /\ r.page = {} /\ r.next = None
  BY DEF NoCall
<1>3. KnowsListing(r)
  BY <1>2, WrittenAssumption DEF KnowsListing, Before
<1>4. Knows(r) /\ Status(r) # "ok"
  BY <1>2, <1>3 DEF Knows, Lists, Status
<1> QED
  BY <1>1, <1>2, <1>4, BeginsWell DEF BeginListing

LEMMA BeginReadMoves ==
    ASSUME NEW c \in Callers, NEW ref \in refs, Known, BeginRead(c, ref)
    PROVE  Moves(c)
<1> DEFINE r == [NoCall EXCEPT !.op = "read", !.ref = ref, !.at = "request"]
<1>1. ref \in Ref /\ ref # None
  <2>1. ref \in Ref
    BY DEF Known
  <2> QED
    BY <2>1, NoneIsNoRef
<1>2. r \in Call
  BY <1>1, NoCallType DEF Call, Op
<1>3. /\ r.op = "read" /\ r.at = "request" /\ r.handed = {} /\ r.ref = ref
  BY DEF NoCall
<1>4. Knows(r)
  BY <1>1, <1>3 DEF Knows, Lists
<1>5. CASE Expired(ref)
  <2> DEFINE e == Ends(r, "expired")
  <2>1. e \in Call /\ Knows(e)
    BY <1>2, <1>3, <1>4, EndsWell DEF Good, Lists, Result
  <2>2. e.handed = {} /\ e.op = "read"
    BY <1>3 DEF Ends, NoCall
  <2>3. Begin(c, e)
    BY <1>5 DEF BeginRead
  <2>4. Status(e) # "ok"
    BY <2>2 DEF Status
  <2> QED
    BY <2>1, <2>2, <2>3, <2>4, BeginsWell
<1>6. CASE ~Expired(ref)
  BY <1>2, <1>3, <1>4, <1>6, BeginsWell DEF BeginRead, Status
<1> QED
  BY <1>5, <1>6

LEMMA BeginInvalidMoves ==
    ASSUME NEW c \in Callers, Known, BeginInvalid(c)
    PROVE  Moves(c)
<1>1. PICK op \in {"changed", "read"} : Begin(c, Ends([NoCall EXCEPT !.op = op], "invalid"))
  BY DEF BeginInvalid
<1> DEFINE r == Ends([NoCall EXCEPT !.op = op], "invalid")
<1>2. r \in Call
  <2>1. op \in Op /\ "invalid" \in Result
    BY DEF Op, Result
  <2>2. [NoCall EXCEPT !.op = op] \in Call
    BY <2>1, NoCallType DEF Call
  <2>3. /\ [NoCall EXCEPT !.op = op].handed \in SUBSET Written
        /\ [NoCall EXCEPT !.op = op].bare \in SUBSET Written
        /\ [NoCall EXCEPT !.op = op].ref \in Ref \cup {None}
        /\ [NoCall EXCEPT !.op = op].response \in Answer \cup {None}
        /\ [NoCall EXCEPT !.op = op].op \in Op
    BY <2>2 DEF Call
  <2> QED
    BY <2>1, <2>3, NoCallType DEF Ends, Call
<1>3. /\ r.op = op /\ r.at = "done" /\ r.result = "invalid" /\ r.handed = {}
  BY DEF Ends, NoCall
<1>4. Knows(r) /\ Status(r) # "ok"
  BY <1>3 DEF Knows, Lists, Status
<1> QED
  BY <1>1, <1>2, <1>3, <1>4, BeginsWell

LEMMA ReturnMoves ==
    ASSUME NEW c \in Callers, Known, Return(c)
    PROVE  Moves(c)
<1>1. Knows(NoCall) /\ NoCall.handed = {} /\ Status(NoCall) = "idle"
  BY DEF Knows, Lists, Status, NoCall
<1>2. Status(call[c]) # "running" /\ (Status(call[c]) = "idle" => call[c].handed = {})
  BY CallAt DEF Return, At, Status, Knows, Lists
<1>3. Progress(call[c], NoCall)
  BY <1>1, <1>2 DEF Progress, Status
<1> QED
  BY <1>1, <1>3, NoCallType DEF Return, Moves, Good

LEMMA CancelMoves ==
    ASSUME NEW c \in Callers, Known, Cancel(c)
    PROVE  Moves(c)
<1> DEFINE k == call[c]
           r == [k EXCEPT !.canceled = TRUE]
<1>1. k \in Call /\ Knows(k) /\ k.at \notin {"idle", "done"}
  BY CallAt DEF Cancel, At
<1>2. r \in Call
  BY <1>1 DEF Call
<1>3. /\ r.op = k.op /\ r.at = k.at /\ r.handed = k.handed /\ r.last = k.last
      /\ r.page = k.page /\ r.next = k.next /\ r.ref = k.ref /\ r.result = k.result
      /\ r.response = k.response
  BY <1>1 DEF Call
<1>4. Knows(r) /\ Progress(k, r)
  BY <1>1, <1>3 DEF Knows, Lists, KnowsListing, Progress, Status
<1> QED
  BY <1>2, <1>4 DEF Cancel, Moves, Good

LEMMA RequestCanceledMoves ==
    ASSUME NEW c \in Callers, Known, RequestCanceled(c)
    PROVE  Moves(c)
<1>1. Good(call[c], Ends(call[c], "canceled"))
  BY CallAt, EndsWell DEF RequestCanceled, At, Result
<1> QED
  BY <1>1 DEF RequestCanceled, Done, Moves

LEMMA KindsOfFailure ==
    /\ \A e : Classify(e) \in Result \ {"ok", "corrupt"}
    /\ \A cause : RefusedAs(cause) \subseteq Result \ {"ok", "corrupt"}
    /\ \A r : Verdict(r) # "ok" => Verdict(r) \in Result \ {"ok"}
    /\ ExpiredKinds \subseteq Result \ {"ok", "corrupt"}
BY ExpiredKindsAssumption DEF Classify, RefusedAs, Verdict, Result

LEMMA RequestFailsMoves ==
    ASSUME NEW c \in Callers, Known, RequestFails(c)
    PROVE  Moves(c)
<1>1. PICK kind \in Result \ {"ok", "corrupt"} : Failed(c, kind)
  BY KindsOfFailure DEF RequestFails
<1> QED
  BY <1>1, FailsWell DEF Known, RequestFails

LEMMA SizeServedMoves ==
    ASSUME NEW c \in Callers, Known, SizeServed(c)
    PROVE  Moves(c)
<1>1. Good(call[c], Ends(call[c], "ok"))
  BY CallAt, EndsWell DEF SizeServed, At, Result, Lists
<1> QED
  BY <1>1 DEF SizeServed, Done, Moves

LEMMA NextPageMoves ==
    ASSUME NEW c \in Callers, Known, NextPage(c)
    PROVE  Moves(c)
<1> DEFINE k == call[c]
           r == [k EXCEPT !.at = "request", !.attempt = 0]
<1>1. k \in Call /\ Knows(k) /\ k.at = "loop" /\ Lists(k)
  BY CallAt DEF NextPage, At, Knows
<1>2. CASE \E result \in {"canceled", "expired"} : Done(c, result)
  <2>1. PICK result \in {"canceled", "expired"} : Set(c, Ends(k, result))
    BY <1>2 DEF Done
  <2>2. Good(k, Ends(k, result))
    BY <1>1, EndsWell DEF Result, Lists
  <2> QED
    BY <2>1, <2>2 DEF Moves
<1>3. CASE Set(c, r)
  <2>1. r \in Call
    <3>1. 0 \in 0..MaxAttempts - 1
      BY AttemptsAssumption
    <3> QED
      BY <1>1, <3>1 DEF Call
  <2>2. /\ r.op = k.op /\ r.at = "request" /\ r.handed = k.handed /\ r.last = k.last
        /\ r.page = k.page /\ r.next = k.next /\ r.ref = k.ref
    BY <1>1 DEF Call
  <2>3. Knows(r) /\ Progress(k, r)
    BY <1>1, <2>2 DEF Knows, Lists, KnowsListing, Progress, Status
  <2> QED
    BY <1>3, <2>1, <2>3 DEF Moves, Good
<1> QED
  BY <1>2, <1>3 DEF NextPage

\* What a page served leaves of the service's state.
LEMMA ServicePages ==
    ASSUME Known, NEW n, NEW token, NEW invalidates, ServePage(n, token, invalidates)
    PROVE  generation' \in Nat
BY DEF Known, ServePage

LEMMA TakePageMoves ==
    ASSUME NEW c \in Callers, Known, At(c, "request"), IsListing(c), generation' \in Nat,
           TakePage(c)
    PROVE  Moves(c)
<1> DEFINE k == call[c]
           page == Blocks(DefaultMaxResults, k.next)
           next == NextToken(DefaultMaxResults, k.next)
<1>1. k \in Call /\ Knows(k) /\ k.at = "request" /\ Lists(k) /\ KnowsListing(k)
  BY CallAt DEF At, IsListing, Knows, Lists
<1>2. PICK expiry \in ExpiryTimes, bare \in Bare(page) :
          Set(c, [k EXCEPT !.at = "page", !.expiry = expiry, !.gen = generation',
                           !.page = page, !.bare = bare, !.next = next])
  BY DEF TakePage
<1> DEFINE r == [k EXCEPT !.at = "page", !.expiry = expiry, !.gen = generation',
                          !.page = page, !.bare = bare, !.next = next]
<1>3. /\ page \subseteq Written /\ next \in Tokens
      /\ Before(k.next, {}) \cap page = {}
      /\ Before(k.next, {}) \cup page = Before(next, Written)
  <2>1. DefaultMaxResults \in Int /\ k.next \in Tokens /\ now \in 0..MaxTime
    BY <1>1, ResultsAssumption DEF Tokens, Call, Known
  <2> QED
    BY <2>1, PageContinues
<1>4. expiry \in Nat \cup {None} /\ bare \subseteq Written
  BY <1>3, LifetimesAssumption DEF ExpiryTimes, Bare, Known
<1>5. r \in Call
  <2> HIDE DEF page, next
  <2> QED
    BY <1>1, <1>3, <1>4 DEF Call, Tokens
<1>6. /\ r.op = k.op /\ r.at = "page" /\ r.handed = k.handed /\ r.last = k.last
      /\ r.page = page /\ r.next = next
  BY <1>1 DEF Call
<1>7. KnowsListing(r)
  <2> HIDE DEF page, next, r
  <2> QED
    BY <1>1, <1>3, <1>6 DEF KnowsListing
<1>8. Knows(r) /\ Progress(k, r)
  <2> HIDE DEF page, next, r
  <2> QED
    BY <1>1, <1>6, <1>7 DEF Knows, Lists, Progress, Status
<1> QED
  BY <1>2, <1>5, <1>8 DEF Moves, Good

LEMMA PagesMove ==
    ASSUME NEW c \in Callers, Known, PageServed(c) \/ ChangedPageServed(c)
    PROVE  Moves(c)
<1>1. generation' \in Nat
  BY ServicePages DEF PageServed, ChangedPageServed, ListSnapshotBlocks, ListChangedBlocks
<1> QED
  BY <1>1, TakePageMoves DEF PageServed, ChangedPageServed, IsListing

LEMMA PageDoneMoves ==
    ASSUME NEW c \in Callers, Known, PageDone(c)
    PROVE  Moves(c)
<1> DEFINE k == call[c]
           r == [k EXCEPT !.at = "loop"]
<1>1. k \in Call /\ Knows(k) /\ k.at = "page" /\ k.page = {} /\ Lists(k) /\ KnowsListing(k)
  BY CallAt DEF PageDone, At, Knows, Lists
<1>2. CASE k.next = None
  <2>1. k.handed = Written
    BY <1>1, <1>2 DEF KnowsListing, Before
  <2>2. Good(k, Ends(k, "ok"))
    BY <1>1, <2>1, EndsWell DEF Result, Lists
  <2> QED
    BY <1>2, <2>2 DEF PageDone, Done, Moves
<1>3. CASE k.next # None
  <2>1. r \in Call
    BY <1>1 DEF Call
  <2>2. /\ r.op = k.op /\ r.at = "loop" /\ r.handed = k.handed /\ r.last = k.last
        /\ r.page = k.page /\ r.next = k.next
    BY <1>1 DEF Call
  <2>3. KnowsListing(r)
    BY <1>1, <1>3, <2>2 DEF KnowsListing, Before
  <2>4. Knows(r) /\ Progress(k, r)
    BY <1>1, <2>2, <2>3 DEF Knows, Lists, Progress, Status
  <2> QED
    BY <1>3, <2>1, <2>4 DEF PageDone, Moves, Good
<1> QED
  BY <1>2, <1>3

LEMMA HandBlockMoves ==
    ASSUME NEW c \in Callers, Known, HandBlock(c)
    PROVE  Moves(c)
<1> DEFINE k == call[c]
           b == CHOOSE b \in k.page : \A x \in k.page : b <= x
           r == [k EXCEPT !.last = b, !.page = @ \ {b}, !.bare = @ \ {b},
                          !.handed = @ \cup {b}]
<1>1. k \in Call /\ Knows(k) /\ k.at = "page" /\ k.page # {} /\ Lists(k) /\ KnowsListing(k)
  BY CallAt DEF HandBlock, At, Knows, Lists
<1>2. k.page \subseteq Written /\ k.handed \subseteq Written /\ k.last \in Written \cup {-1}
      /\ k.next \in Tokens
  BY <1>1 DEF Call, Tokens
<1>ints. Written \subseteq Int /\ k.last \in Int
  <2>1. Written \subseteq Int /\ -1 \in Int
    BY WrittenAssumption
  <2>2. k.last \in Written \/ k.last = -1
    BY <1>2
  <2> QED
    BY <2>1, <2>2
<1>3. b \in k.page /\ \A x \in k.page : b <= x
  <2>1. \E m \in k.page : \A x \in k.page : m <= x
    BY <1>1, <1>2, Least, WrittenAssumption
  <2> QED
    BY <2>1
<1> HIDE DEF b
<1>4. /\ b \in Written \ k.handed /\ k.last < b
      /\ \A x \in Written : x < b <=> x \in k.handed
  <2>1. b \in Written \ k.handed
    BY <1>1, <1>2, <1>3 DEF KnowsListing
  <2>2. k.last < b
    BY <1>1, <1>2, <2>1, WrittenAssumption DEF KnowsListing
  <2>3. ASSUME NEW x \in Written, x \in k.handed PROVE x < b
    <3>1. x <= k.last
      BY <1>1, <2>3 DEF KnowsListing
    <3>2. x \in Int /\ b \in Int /\ k.last \in Int
      BY <1>ints, <2>1
    <3> QED
      BY <2>2, <3>1, <3>2
  <2>4. ASSUME NEW x \in Written, x < b PROVE x \in k.handed
    <3>1. b \in Before(k.next, Written)
      BY <1>1, <1>3 DEF KnowsListing
    <3>2. x \in Before(k.next, Written)
      BY <1>2, <2>1, <2>4, <3>1, WrittenAssumption DEF Before, Tokens
    <3>3. x \notin k.page
      BY <1>3, <2>1, <2>4, WrittenAssumption
    <3> QED
      BY <1>1, <3>2, <3>3 DEF KnowsListing
  <2> QED
    BY <2>1, <2>2, <2>3, <2>4
<1>5. r \in Call
  BY <1>1, <1>2, <1>4 DEF Call
<1>6. /\ r.op = k.op /\ r.at = "page" /\ r.last = b /\ r.next = k.next
      /\ r.page = k.page \ {b} /\ r.handed = k.handed \cup {b}
  BY <1>1 DEF Call
<1> HIDE DEF r
<1>7. KnowsListing(r)
  <2>1. ASSUME NEW x \in Written PROVE x \in r.handed <=> x <= b
    <3>1. x \in Nat /\ b \in Nat
      BY <1>4, WrittenAssumption
    <3>2. x <= b <=> x < b \/ x = b
      BY <3>1
    <3> QED
      BY <1>4, <1>6, <3>2
  <2>2. r.handed \cap r.page = {} /\ r.handed \cup r.page = Before(r.next, Written)
    BY <1>1, <1>3, <1>6 DEF KnowsListing
  <2> QED
    BY <1>6, <2>1, <2>2 DEF KnowsListing
<1>8. Knows(r)
  BY <1>1, <1>6, <1>7 DEF Knows, Lists
<1>9. Hands(k, r)
  BY <1>4, <1>6 DEF Hands
<1>10. Good(k, r)
  BY <1>1, <1>5, <1>6, <1>8, <1>9 DEF Good, Progress, Status, Lists
<1>11. Good(k, Ends(r, "fn"))
  <2>1. Good(r, Ends(r, "fn"))
    BY <1>5, <1>6, <1>8, <1>1, EndsWell DEF Result, Lists
  <2>2. Ends(r, "fn").handed = r.handed /\ Status(Ends(r, "fn")) = "failed"
    BY <1>1, <1>6 DEF Ends, NoCall, Status, Lists
  <2>3. Hands(k, Ends(r, "fn"))
    BY <1>9, <2>2 DEF Hands
  <2> QED
    BY <1>1, <2>1, <2>2, <2>3 DEF Good, Progress, Status, Lists
<1>12. Good(k, Ends(k, "canceled"))
  BY <1>1, EndsWell DEF Result, Lists
<1>13. ~ (b <= k.last)
  <2>1. b \in Int /\ k.last \in Int
    BY <1>ints, <1>4
  <2> QED
    BY <1>4, <2>1
<1>14. ASSUME k.op = "changed", b \in k.bare
       PROVE  Good(k, Ends(k, "corrupt"))
  <2>1. Accused(k)
    BY <1>4, <1>14 DEF Accused
  <2> QED
    BY <1>1, <2>1, EndsWell DEF Result, Lists
<1>15. \/ Done(c, "canceled") \/ Set(c, r) \/ Set(c, Ends(r, "fn"))
       \/ Done(c, "corrupt") /\ k.op = "changed" /\ b \in k.bare
  BY <1>13 DEF HandBlock, Hand, Done, b, r
<1> QED
  BY <1>10, <1>11, <1>12, <1>14, <1>15 DEF Moves, Done

LEMMA BlockServedMoves ==
    ASSUME NEW c \in Callers, Known, BlockServed(c)
    PROVE  Moves(c)
<1> DEFINE k == call[c]
<1>1. k \in Call /\ Knows(k) /\ k.at = "request" /\ k.op = "read"
  BY CallAt DEF BlockServed, At
<1>2. PICK response \in Responses :
          Set(c, [k EXCEPT !.at = "body", !.response = Adapted(response)])
  BY DEF BlockServed
<1> DEFINE r == [k EXCEPT !.at = "body", !.response = Adapted(response)]
<1>3. Adapted(response) \in Answer
  BY DEF Answer
<1>4. r \in Call
  BY <1>1, <1>3 DEF Call
<1>5. /\ r.op = k.op /\ r.at = "body" /\ r.handed = k.handed /\ r.ref = k.ref
      /\ r.response \in Answer
  BY <1>1, <1>3 DEF Call
<1>6. Knows(r) /\ Progress(k, r)
  BY <1>1, <1>5 DEF Knows, Lists, Progress, Status
<1> QED
  BY <1>2, <1>4, <1>6 DEF Moves, Good

\* What is accepted as a success is exact.
LEMMA AcceptedIsExact ==
    ASSUME NEW r \in Answer, Verdict(r) = "ok"
    PROVE  Exact(r)
<1>1. r.checksum \in {"SHA256", "unknown", "none"}
  BY ResponsesAssumption DEF Answer, Adapted
<1> QED
  BY <1>1 DEF Verdict, ChecksumFails, Exact

LEMMA ReadBodyMoves ==
    ASSUME NEW c \in Callers, Known, ReadBody(c)
    PROVE  Moves(c)
<1> DEFINE k == call[c]
<1>1. k \in Call /\ Knows(k) /\ k.at = "body" /\ k.op = "read" /\ k.response \in Answer
  BY CallAt DEF ReadBody, At, Knows
<1>2. CASE Verdict(k.response) = "ok"
  <2>1. Good(k, Ends(k, "ok"))
    BY <1>1, <1>2, AcceptedIsExact, EndsWell DEF Result, Lists
  <2> QED
    BY <1>2, <2>1 DEF ReadBody, Done, Moves
<1>3. CASE Verdict(k.response) # "ok"
  <2>1. Failed(c, Verdict(k.response)) /\ Verdict(k.response) \in Result \ {"ok"}
    BY <1>3, KindsOfFailure DEF ReadBody
  <2>2. At(c, "body") /\ ~IsListing(c)
    BY <1>1 DEF At, IsListing
  <2> QED
    BY <2>1, <2>2, FailsWell DEF Known
<1> QED
  BY <1>2, <1>3

-----------------------------------------------------------------------------
(* Every step                                                                *)

LEMMA StepMoves ==
    ASSUME NEW c \in Callers, Known, Invoke(c) \/ Step(c) \/ Return(c) \/ Cancel(c)
    PROVE  Moves(c)
<1>1. CASE Invoke(c)
  BY <1>1, BeginSizeMoves, BeginInvalidMoves, BeginListingMoves, BeginReadMoves DEF Invoke
<1>2. CASE Attempt(c)
  BY <1>2, RequestCanceledMoves, RequestFailsMoves DEF Attempt
<1>3. CASE SizeServed(c)
  BY <1>3, SizeServedMoves
<1>4. CASE Listing(c)
  BY <1>4, NextPageMoves, HandBlockMoves, PageDoneMoves DEF Listing
<1>5. CASE PageServed(c) \/ ChangedPageServed(c)
  BY <1>5, PagesMove
<1>6. CASE ReadBlock(c)
  BY <1>6, BlockServedMoves, ReadBodyMoves DEF ReadBlock
<1>7. CASE Return(c) \/ Cancel(c)
  BY <1>7, ReturnMoves, CancelMoves
<1> QED
  BY <1>1, <1>2, <1>3, <1>4, <1>5, <1>6, <1>7 DEF Step, ListBlocks, ChangedBlocks

\* A step is a goroutine's, or leaves the calls alone.
LEMMA NextMoves ==
    ASSUME Known, [Next]_vars
    PROVE  (\E c \in Callers : Moves(c)) \/ UNCHANGED call
BY StepMoves DEF Next, vars

LEMMA CallsKnowKept ==
    ASSUME Known, [Next]_vars
    PROVE  CallsKnow'
<1>1. CASE UNCHANGED call
  BY <1>1 DEF Known, CallsKnow
<1>2. ASSUME NEW c \in Callers, Moves(c) PROVE CallsKnow'
  <2>1. PICK r : call' = [call EXCEPT ![c] = r] /\ r \in Call /\ Knows(r)
    BY <1>2 DEF Moves, Good, Set
  <2>2. call \in [Callers -> Call] /\ \A d \in Callers : Knows(call[d])
    BY DEF Known, CallsKnow
  <2>3. call' \in [Callers -> Call] /\ \A d \in Callers : Knows(call'[d])
    BY <2>1, <2>2
  <2> QED
    BY <2>3 DEF CallsKnow
<1> QED
  BY <1>1, <1>2, NextMoves

\* The page of a listing: what the service issues is a block token.
LEMMA ServePageKeeps ==
    ASSUME Known, NEW n \in Int, NEW token \in Tokens, NEW invalidates,
           ServePage(n, token, invalidates)
    PROVE  /\ now' \in 0..MaxTime /\ generation' \in Nat /\ emptyPages' \in 0..EmptyPages
           /\ validTokens' \subseteq [block : Written, gen : Nat, expiry : Nat]
<1>1. /\ now' = now /\ generation' \in Nat /\ emptyPages' \in 0..EmptyPages
  BY LifetimesAssumption DEF ServePage, Known, IsEmptyPage
<1>2. Blocks(n, token) \subseteq Written
  BY PageContinues DEF Known
<1>3. now + BlockTokenLifetime \in Nat
  BY LifetimesAssumption DEF Known
<1>4. ASSUME NEW tokens, tokens \subseteq [block : Written, gen : Nat, expiry : Nat]
      PROVE  Issue(tokens, Blocks(n, token)) \subseteq [block : Written, gen : Nat, expiry : Nat]
  BY <1>1, <1>2, <1>3, <1>4 DEF Issue
<1>5. validTokens' \subseteq [block : Written, gen : Nat, expiry : Nat]
  BY <1>4 DEF ServePage, Known
<1> QED
  BY <1>1, <1>5 DEF Known

LEMMA ServiceKept ==
    ASSUME Known, [Next]_vars
    PROVE  /\ now' \in 0..MaxTime /\ generation' \in Nat /\ emptyPages' \in 0..EmptyPages
           /\ validTokens' \subseteq [block : Written, gen : Nat, expiry : Nat]
<1>1. CASE UNCHANGED <<now, generation, validTokens, emptyPages>>
  BY <1>1 DEF Known
<1>2. CASE Tick
  BY <1>2, LifetimesAssumption DEF Tick, Known
<1>3. ASSUME NEW c \in Callers,
             SizeServed(c) \/ PageServed(c) \/ ChangedPageServed(c)
      PROVE  /\ now' \in 0..MaxTime /\ generation' \in Nat /\ emptyPages' \in 0..EmptyPages
             /\ validTokens' \subseteq [block : Written, gen : Nat, expiry : Nat]
  <2>1. MinMaxResults \in Int /\ DefaultMaxResults \in Int /\ None \in Tokens
        /\ call[c].next \in Tokens
    BY CallAt, ResultsAssumption DEF Call, Tokens
  <2> QED
    BY <1>3, <2>1, ServePageKeeps
    DEF SizeServed, PageServed, ChangedPageServed, ListSnapshotBlocks, ListChangedBlocks
<1> QED
  BY <1>1, <1>2, <1>3
  DEF Next, vars, service, Invoke, BeginSize, BeginInvalid, BeginListing, BeginRead, Begin,
      Step, Attempt, RequestCanceled, RequestFails, ListBlocks, ChangedBlocks, Listing,
      NextPage, HandBlock, PageDone, ReadBlock, BlockServed, ReadBody, GetSnapshotBlock,
      Close, Return, Cancel

LEMMA RefsKept ==
    ASSUME Known, [Next]_vars
    PROVE  refs' \subseteq Ref
<1>1. CASE UNCHANGED refs
  BY <1>1 DEF Known
<1>2. ASSUME NEW c \in Callers, HandBlock(c) PROVE refs' \subseteq Ref
  <2> DEFINE b == CHOOSE b \in call[c].page : \A x \in call[c].page : b <= x
  <2>1. /\ call[c].page # {} /\ call[c].page \subseteq Written
        /\ call[c].gen \in Nat /\ call[c].expiry \in Nat \cup {None}
    BY <1>2, CallAt DEF HandBlock, Call
  <2>2. b \in call[c].page
    BY <2>1, Least, WrittenAssumption
  <2>3. refs' \subseteq refs \cup {[block |-> b, gen |-> call[c].gen, expiry |-> call[c].expiry]}
    BY <1>2 DEF HandBlock, Hand
  <2> HIDE DEF b
  <2>4. [block |-> b, gen |-> call[c].gen, expiry |-> call[c].expiry] \in Ref
    BY <2>1, <2>2 DEF Ref
  <2> QED
    BY <2>3, <2>4 DEF Known
<1> QED
  BY <1>1, <1>2
  DEF Next, vars, service, Invoke, BeginSize, BeginInvalid, BeginListing, BeginRead, Begin,
      Step, Attempt, RequestCanceled, RequestFails, SizeServed, ListBlocks, ChangedBlocks,
      PageServed, ChangedPageServed, Listing, NextPage, PageDone, ReadBlock, BlockServed,
      ReadBody, Return, Cancel

LEMMA CallsCounted ==
    ASSUME Known, [Next]_vars
    PROVE  calls' \in 0..MaxCalls
<1>1. CASE UNCHANGED calls
  BY <1>1 DEF Known
<1>2. CASE calls < MaxCalls /\ calls' = calls + 1
  BY <1>2, AttemptsAssumption DEF Known
<1> QED
  BY <1>1, <1>2
  DEF Next, vars, service, Invoke, BeginSize, BeginInvalid, BeginListing, BeginRead, Begin,
      Step, Attempt, RequestCanceled, RequestFails, SizeServed, ListBlocks, ChangedBlocks,
      PageServed, ChangedPageServed, Listing, NextPage, HandBlock, PageDone, ReadBlock,
      BlockServed, ReadBody, Return, Cancel

LEMMA KnownInit ==
    ASSUME Init
    PROVE  Known
<1>1. Knows(NoCall)
  BY DEF NoCall, Knows, Lists
<1> QED
  BY <1>1, NoCallType, LifetimesAssumption, AttemptsAssumption
  DEF Init, ServiceInit, Known, CallsKnow

LEMMA KnownKept ==
    ASSUME Known, [Next]_vars
    PROVE  Known'
BY CallsKnowKept, ServiceKept, RefsKept, CallsCounted DEF Known

THEOREM KnownAlways == Spec => []Known
BY KnownInit, KnownKept, PTL DEF Spec

\* Only a block without its token ends a listing of this service as corrupt: the
\* order checks of ListBlocks and ListChangedBlocks never do.
THEOREM NeverAccused == Spec => []NoFalseAlarm
<1>1. Known => NoFalseAlarm
  BY CallAt DEF NoFalseAlarm, Ended, At, IsListing, Knows, Lists
<1> QED
  BY <1>1, KnownAlways, PTL

\* With verification on, what a successful read returns is the block.
THEOREM ReadsVerified ==
    ASSUME VerifyChecksums
    PROVE  Spec => []ReadsExact
<1>1. Known => ReadsExact
  BY CallAt DEF ReadsExact, Ended, At, Knows, Exact
<1> QED
  BY <1>1, KnownAlways, PTL

LEMMA ProgressIsContract ==
    ASSUME NEW c \in Callers, Progress(call[c], call'[c])
    PROVE  [Contract(c)!Next]_(Contract(c)!vars)
BY DEF Progress, Hands, Contract!Next, Contract!vars, Contract!Begin, Contract!Hand,
       Contract!Succeed, Contract!Fail, Contract!Forget

LEMMA ContractStep ==
    ASSUME Known, [Next]_vars, NEW c \in Callers
    PROVE  [Contract(c)!Next]_(Contract(c)!vars)
<1>1. CASE call'[c] = call[c]
  BY <1>1, ProgressIsContract DEF Progress
<1>2. ASSUME NEW d \in Callers, Moves(d)
      PROVE  [Contract(c)!Next]_(Contract(c)!vars)
  <2>1. PICK r : call' = [call EXCEPT ![d] = r] /\ Progress(call[d], r)
    BY <1>2 DEF Moves, Good, Set
  <2>2. CASE c = d
    BY <2>1, <2>2, ProgressIsContract DEF Known, CallsKnow
  <2>3. CASE c # d
    BY <1>1, <2>1, <2>3 DEF Known, CallsKnow
  <2> QED
    BY <2>2, <2>3
<1> QED
  BY <1>1, <1>2, NextMoves

\* Each goroutine's calls are calls of BlockListing: every written block once,
\* in order, whatever the pages and the retries.
THEOREM ListingsImplementContract == Spec => ListingsComplete
<1>1. Init => \A c \in Callers : Contract(c)!Init
  BY DEF Init, NoCall, Contract!Init, Status
<1>2. Known /\ [Next]_vars =>
          [\A c \in Callers : [Contract(c)!Next]_(Contract(c)!vars)]_vars
  BY ContractStep
<1> QED
  BY <1>1, <1>2, KnownAlways, PTL DEF Spec, ListingsComplete

-----------------------------------------------------------------------------
(* Response bodies                                                           *)

HasBody(k) == k.at = "body" /\ k.response.body # "absent"
Open == {c \in Callers : HasBody(call[c])}

\* The goroutines with an open body, after one of them moves from k to r.
LEMMA OpenBodies ==
    ASSUME Known, BodiesClosed, NEW c \in Callers, NEW r, Set(c, r)
    PROVE  /\ (HasBody(r) <=> HasBody(call[c])) /\ openBodies' = openBodies => BodiesClosed'
           /\ HasBody(r) /\ ~HasBody(call[c]) /\ openBodies' = openBodies + 1 => BodiesClosed'
           /\ ~HasBody(r) /\ HasBody(call[c]) /\ openBodies' = openBodies - 1 => BodiesClosed'
<1>1. call' = [call EXCEPT ![c] = r] /\ DOMAIN call = Callers
  BY DEF Set, Known, CallsKnow
<1>2. IsFiniteSet(Open) /\ openBodies = Cardinality(Open) /\ Cardinality(Open) \in Nat
  BY CallersAssumption, FS_Subset, FS_CardinalityType DEF Open, BodiesClosed, At, HasBody
<1>3. Open' = {d \in Callers : HasBody(call'[d])}
  BY DEF Open, HasBody
<1>4. Open' = IF HasBody(r) THEN Open \cup {c} ELSE Open \ {c}
  BY <1>1, <1>3 DEF Open
<1>5. openBodies' = Cardinality(Open') => BodiesClosed'
  BY DEF BodiesClosed, Open, At, HasBody
<1>6. c \in Open <=> HasBody(call[c])
  BY DEF Open
<1>7. Cardinality(Open \cup {c}) = IF c \in Open THEN Cardinality(Open) ELSE Cardinality(Open) + 1
  BY <1>2, FS_AddElement
<1>8. Cardinality(Open \ {c}) = IF c \in Open THEN Cardinality(Open) - 1 ELSE Cardinality(Open)
  BY <1>2, FS_RemoveElement
<1> QED
  BY <1>2, <1>4, <1>5, <1>6, <1>7, <1>8

\* Neither before nor after the step has the goroutine a response.
Elsewhere(c) ==
    openBodies' = openBodies /\ call[c].at # "body" /\ \E r : Set(c, r) /\ r.at # "body"

LEMMA ElsewhereKeeps ==
    ASSUME Known, BodiesClosed, NEW c \in Callers, Elsewhere(c)
    PROVE  BodiesClosed'
BY OpenBodies DEF Elsewhere, HasBody

LEMMA EndsAtDone == \A k, result : Ends(k, result).at = "done"
BY DEF Ends, NoCall

LEMMA FailedElsewhere ==
    ASSUME Known, NEW c \in Callers, NEW kind, Failed(c, kind)
    PROVE  \E r : Set(c, r) /\ r.at # "body"
<1>1. [call[c] EXCEPT !.at = "request", !.attempt = @ + 1, !.response = None].at = "request"
  BY CallAt DEF Call
<1> QED
  BY <1>1, EndsAtDone DEF Failed, Done

LEMMA BodiesKept ==
    ASSUME Known, BodiesClosed, [Next]_vars
    PROVE  BodiesClosed'
<1>1. CASE UNCHANGED <<call, openBodies>>
  BY <1>1 DEF BodiesClosed, At
<1>2. ASSUME NEW c \in Callers, Invoke(c) PROVE BodiesClosed'
  <2>1. PICK r : Begin(c, r) /\ r.at # "body"
    <3>1. CASE BeginSize(c) \/ \E op \in {"list", "changed"} : BeginListing(c, op)
      <4>1. [NoCall EXCEPT !.op = "size", !.at = "request"].at = "request"
        BY DEF NoCall
      <4>2. \A op : [NoCall EXCEPT !.op = op, !.at = "loop", !.since = now].at = "loop"
        BY DEF NoCall
      <4> QED
        BY <3>1, <4>1, <4>2 DEF BeginSize, BeginListing
    <3>2. CASE BeginInvalid(c)
      BY <3>2, EndsAtDone DEF BeginInvalid
    <3>3. ASSUME NEW ref, BeginRead(c, ref) PROVE \E r : Begin(c, r) /\ r.at # "body"
      <4>1. [NoCall EXCEPT !.op = "read", !.ref = ref, !.at = "request"].at = "request"
        BY DEF NoCall
      <4> QED
        BY <3>3, <4>1, EndsAtDone DEF BeginRead
    <3> QED
      BY <1>2, <3>1, <3>2, <3>3 DEF Invoke
  <2>2. Elsewhere(c)
    BY <2>1 DEF Begin, At, Elsewhere, service
  <2> QED
    BY <2>2, ElsewhereKeeps
<1>3. ASSUME NEW c \in Callers, Return(c) PROVE BodiesClosed'
  BY <1>3, ElsewhereKeeps DEF Return, At, Elsewhere, NoCall, service
<1>4. ASSUME NEW c \in Callers, Cancel(c) PROVE BodiesClosed'
  <2> DEFINE r == [call[c] EXCEPT !.canceled = TRUE]
  <2>1. r.at = call[c].at /\ r.response = call[c].response
    BY CallAt DEF Call
  <2>2. HasBody(r) <=> HasBody(call[c])
    BY <2>1 DEF HasBody
  <2>3. Set(c, r) /\ openBodies' = openBodies
    BY <1>4 DEF Cancel, service
  <2> HIDE DEF r
  <2> QED
    BY <2>2, <2>3, OpenBodies
<1>5. ASSUME NEW c \in Callers, Attempt(c) PROVE BodiesClosed'
  <2>1. Elsewhere(c)
    BY <1>5, EndsAtDone, FailedElsewhere
    DEF Attempt, RequestCanceled, RequestFails, Done, At, Elsewhere, service
  <2> QED
    BY <2>1, ElsewhereKeeps
<1>6. ASSUME NEW c \in Callers, SizeServed(c) PROVE BodiesClosed'
  <2>1. Elsewhere(c)
    BY <1>6, EndsAtDone
    DEF SizeServed, ListSnapshotBlocks, ServePage, Done, At, Elsewhere
  <2> QED
    BY <2>1, ElsewhereKeeps
<1>7. ASSUME NEW c \in Callers, PageServed(c) \/ ChangedPageServed(c) PROVE BodiesClosed'
  <2>1. PICK expiry, gen, page, bare, next :
            Set(c, [call[c] EXCEPT !.at = "page", !.expiry = expiry, !.gen = gen,
                                   !.page = page, !.bare = bare, !.next = next])
    BY <1>7 DEF PageServed, ChangedPageServed, TakePage
  <2>2. [call[c] EXCEPT !.at = "page", !.expiry = expiry, !.gen = gen,
                        !.page = page, !.bare = bare, !.next = next].at = "page"
    BY CallAt DEF Call
  <2>3. openBodies' = openBodies /\ call[c].at = "request"
    BY <1>7 DEF PageServed, ChangedPageServed, ListSnapshotBlocks, ListChangedBlocks,
                ServePage, At
  <2>4. Elsewhere(c)
    BY <2>1, <2>2, <2>3 DEF Elsewhere
  <2> QED
    BY <2>4, ElsewhereKeeps
<1>8. ASSUME NEW c \in Callers, NextPage(c) PROVE BodiesClosed'
  <2>1. [call[c] EXCEPT !.at = "request", !.attempt = 0].at = "request"
    BY CallAt DEF Call
  <2>2. Elsewhere(c)
    BY <1>8, <2>1, EndsAtDone DEF NextPage, Done, At, Elsewhere, service
  <2> QED
    BY <2>2, ElsewhereKeeps
<1>9. ASSUME NEW c \in Callers, PageDone(c) PROVE BodiesClosed'
  <2>1. [call[c] EXCEPT !.at = "loop"].at = "loop"
    BY CallAt DEF Call
  <2>2. Elsewhere(c)
    BY <1>9, <2>1, EndsAtDone DEF PageDone, Done, At, Elsewhere, service
  <2> QED
    BY <2>2, ElsewhereKeeps
<1>10. ASSUME NEW c \in Callers, HandBlock(c) PROVE BodiesClosed'
  <2>1. \A b : [call[c] EXCEPT !.last = b, !.page = @ \ {b}, !.bare = @ \ {b},
                               !.handed = @ \cup {b}].at = call[c].at
    BY CallAt DEF Call
  <2>2. Elsewhere(c)
    BY <1>10, <2>1, EndsAtDone DEF HandBlock, Hand, Done, At, Elsewhere, service
  <2> QED
    BY <2>2, ElsewhereKeeps
<1>11. ASSUME NEW c \in Callers, BlockServed(c) PROVE BodiesClosed'
  <2>1. PICK response \in Responses :
            /\ GetSnapshotBlock(call[c].ref, response)
            /\ Set(c, [call[c] EXCEPT !.at = "body", !.response = Adapted(response)])
    BY <1>11 DEF BlockServed
  <2> DEFINE r == [call[c] EXCEPT !.at = "body", !.response = Adapted(response)]
  <2>2. r.at = "body" /\ r.response.body = response.body
    BY CallAt, ResponsesAssumption DEF Call, Adapted
  <2>3. HasBody(r) <=> response.body # "absent"
    BY <2>2 DEF HasBody
  <2>4. ~HasBody(call[c])
    BY <1>11 DEF BlockServed, At, HasBody
  <2> QED
    BY <2>1, <2>3, <2>4, OpenBodies DEF GetSnapshotBlock
<1>12. ASSUME NEW c \in Callers, ReadBody(c) PROVE BodiesClosed'
  <2>1. PICK r : Set(c, r) /\ r.at # "body"
    BY <1>12, EndsAtDone, FailedElsewhere DEF ReadBody, Done
  <2>2. ~HasBody(r) /\ (HasBody(call[c]) <=> call[c].response.body # "absent")
    BY <1>12, <2>1 DEF ReadBody, At, HasBody
  <2> QED
    BY <1>12, <2>1, <2>2, OpenBodies DEF ReadBody, Close, service
<1>13. CASE UNCHANGED vars \/ (Tick /\ UNCHANGED <<call, refs, calls>>)
  BY <1>1, <1>13 DEF vars, service, Tick
<1> QED
  BY <1>2, <1>3, <1>4, <1>5, <1>6, <1>7, <1>8, <1>9, <1>10, <1>11, <1>12, <1>13
  DEF Next, Step, ListBlocks, ChangedBlocks, Listing, ReadBlock

LEMMA BodiesInit ==
    ASSUME Init
    PROVE  BodiesClosed
<1>1. {c \in Callers : At(c, "body") /\ call[c].response.body # "absent"} = {}
  BY DEF Init, At, NoCall
<1> QED
  BY <1>1, FS_EmptySet DEF Init, ServiceInit, BodiesClosed

\* readOnce of ebs.go closes the body it was given on every path.
THEOREM EveryBodyClosed == Spec => []BodiesClosed
BY BodiesInit, BodiesKept, KnownAlways, PTL DEF Spec

\* The types of all variables.
THEOREM TypeCorrect == Spec => []TypeOK
<1>1. BodiesClosed => openBodies \in Nat
  <2>1. IsFiniteSet({c \in Callers : At(c, "body") /\ call[c].response.body # "absent"})
    BY CallersAssumption, FS_Subset
  <2> QED
    BY <2>1, FS_CardinalityType DEF BodiesClosed
<1>2. Known /\ BodiesClosed => TypeOK
  BY <1>1 DEF Known, CallsKnow, TypeOK
<1> QED
  BY <1>2, KnownAlways, EveryBodyClosed, PTL

-----------------------------------------------------------------------------
(* Block tokens                                                              *)

Matches(t, ref) == t.block = ref.block /\ t.gen = ref.gen

\* While no listing has begun since, the reference has a live token, and a live
\* token of its block and generation expires no earlier than it says.
Sound(ref) ==
    /\ ref.gen <= generation
    /\ ref.gen = generation => \E t \in validTokens : Matches(t, ref)
    /\ ref.expiry # None =>
          /\ ref.expiry <= now + BlockTokenLifetime
          /\ \A t \in validTokens : Matches(t, ref) => ref.expiry <= t.expiry

PageRefs(k) == {[block |-> b, gen |-> k.gen, expiry |-> k.expiry] : b \in k.page}

\* The references a call works with.
Holds(k) ==
    (IF k.at = "page" THEN PageRefs(k) ELSE {})
        \cup (IF k.op = "read" THEN {k.ref} \ {None} ELSE {})

Caused(k) ==
    k.op = "read" /\ k.at = "done" /\ k.ref # None =>
        /\ k.result = "expired" => PastItsTime(k.ref)
        /\ k.result = "invalid" => \/ k.ref.gen < generation \/ PastItsTime(k.ref)
                                  \/ MayFailInvalid

TokensWork ==
    /\ \A ref \in refs : Sound(ref)
    /\ \A c \in Callers : \A ref \in Holds(call[c]) : Sound(ref)
    /\ \A c \in Callers : Caused(call[c])

LEMMA HeldAreRefs ==
    ASSUME NEW k \in Call
    PROVE  Holds(k) \subseteq Ref
<1>1. /\ k.page \subseteq Written /\ k.gen \in Nat /\ k.expiry \in Nat \cup {None}
      /\ k.ref \in Ref \cup {None}
  BY DEF Call
<1>2. PageRefs(k) \subseteq Ref
  BY <1>1 DEF PageRefs, Ref
<1> QED
  BY <1>1, <1>2 DEF Holds

LEMMA RefType ==
    ASSUME NEW ref \in Ref
    PROVE  ref.block \in Written /\ ref.gen \in Nat /\ ref.expiry \in Nat \cup {None}
BY DEF Ref

\* A page served leaves the sound references sound.
LEMMA ServePageSound ==
    ASSUME Known, NEW n \in Int, NEW token \in Tokens, NEW invalidates,
           ServePage(n, token, invalidates), NEW ref \in Ref, Sound(ref)
    PROVE  Sound(ref)'
<1> DEFINE page == Blocks(n, token)
<1>1. ref.gen \in Nat /\ ref.expiry \in Nat \cup {None} /\ generation \in Nat /\ now \in Nat
      /\ now' = now /\ now + BlockTokenLifetime \in Nat
  BY RefType, LifetimesAssumption DEF Known, ServePage
<1>2. CASE token = None
  <2>1. generation' = generation + 1
    BY <1>2 DEF ServePage
  <2>2. \A t \in validTokens' : Matches(t, ref) => t \in validTokens
    BY <1>1, <2>1 DEF ServePage, Issue, Matches, Sound
  <2> QED
    BY <1>1, <2>1, <2>2 DEF Sound
<1>3. CASE token # None
  <2>1. generation' = generation /\ validTokens' = Issue(validTokens, page)
    BY <1>3 DEF ServePage
  <2> HIDE DEF page
  <2>2. ASSUME ref.gen = generation' PROVE \E t \in validTokens' : Matches(t, ref)
    <3>1. PICK t \in validTokens : Matches(t, ref)
      BY <2>1, <2>2 DEF Sound
    <3>2. CASE t.block \in page
      <4> DEFINE issued == [block |-> t.block, gen |-> generation',
                            expiry |-> now + BlockTokenLifetime]
      <4>1. issued \in validTokens'
        BY <2>1, <3>2 DEF Issue
      <4>2. Matches(issued, ref)
        BY <2>2, <3>1 DEF Matches
      <4> QED
        BY <4>1, <4>2
    <3>3. CASE t.block \notin page
      BY <2>1, <3>1, <3>3 DEF Issue
    <3> QED
      BY <3>2, <3>3
  <2>3. ASSUME ref.expiry # None, NEW t \in validTokens', Matches(t, ref)
        PROVE  ref.expiry <= t.expiry
    <3>1. t \in validTokens \/ t.expiry = now + BlockTokenLifetime
      BY <2>1 DEF Issue
    <3> QED
      BY <2>3, <3>1 DEF Sound
  <2> QED
    BY <1>1, <2>1, <2>2, <2>3 DEF Sound
<1> QED
  BY <1>2, <1>3

\* Those of the page itself are sound.
LEMMA ServedPageSound ==
    ASSUME Known, NEW n \in Int, NEW token \in Tokens, NEW invalidates,
           ServePage(n, token, invalidates), NEW expiry \in ExpiryTimes,
           NEW b \in Blocks(n, token), NEW gen, gen = generation'
    PROVE  Sound([block |-> b, gen |-> gen, expiry |-> expiry])'
<1> DEFINE issued == [block |-> b, gen |-> gen, expiry |-> now + BlockTokenLifetime]
           ref == [block |-> b, gen |-> gen, expiry |-> expiry]
<1>1. now' = now /\ now \in Nat /\ now + BlockTokenLifetime \in Nat /\ generation' \in Nat
  BY ServePageKeeps, LifetimesAssumption DEF ServePage, Known
<1>2. issued \in validTokens' /\ Matches(issued, ref)
  BY DEF ServePage, Issue, Matches
<1>3. \A t \in validTokens' : Matches(t, ref) => t.expiry = now + BlockTokenLifetime
  BY DEF ServePage, Issue, Matches
<1>4. expiry = now + BlockTokenLifetime \/ expiry = None
  BY DEF ExpiryTimes
<1>5. ref.gen = gen /\ ref.expiry = expiry
  OBVIOUS
<1>6. gen <= generation'
  BY <1>1
<1>7. expiry # None =>
          /\ expiry <= now' + BlockTokenLifetime
          /\ \A t \in validTokens' : Matches(t, ref) => expiry <= t.expiry
  BY <1>1, <1>3, <1>4
<1> HIDE DEF ref, issued
<1>8. Sound(ref)'
  BY <1>2, <1>5, <1>6, <1>7 DEF Sound
<1> QED
  BY <1>8 DEF ref

LEMMA SoundKept ==
    ASSUME Known, [Next]_vars, NEW ref \in Ref, Sound(ref)
    PROVE  Sound(ref)'
<1>1. CASE UNCHANGED <<now, generation, validTokens>>
  BY <1>1 DEF Sound
<1>2. CASE Tick
  <2>1. /\ ref.expiry \in Nat \cup {None} /\ now \in Nat /\ BlockTokenLifetime \in Nat
    BY RefType, LifetimesAssumption DEF Known
  <2> QED
    BY <1>2, <2>1 DEF Tick, Sound
<1>3. ASSUME NEW c \in Callers,
             SizeServed(c) \/ PageServed(c) \/ ChangedPageServed(c)
      PROVE  Sound(ref)'
  <2>1. MinMaxResults \in Int /\ DefaultMaxResults \in Int /\ None \in Tokens
        /\ call[c].next \in Tokens
    BY CallAt, ResultsAssumption DEF Call, Tokens
  <2> QED
    BY <1>3, <2>1, ServePageSound
    DEF SizeServed, PageServed, ChangedPageServed, ListSnapshotBlocks, ListChangedBlocks
<1> QED
  BY <1>1, <1>2, <1>3
  DEF Next, vars, service, Invoke, BeginSize, BeginInvalid, BeginListing, BeginRead, Begin,
      Step, Attempt, RequestCanceled, RequestFails, ListBlocks, ChangedBlocks, Listing,
      NextPage, HandBlock, PageDone, ReadBlock, BlockServed, ReadBody, GetSnapshotBlock,
      Close, Return, Cancel

\* Time and listings only go on, so a refusal keeps its cause.
LEMMA CausedKept ==
    ASSUME Known, [Next]_vars, NEW k \in Call, Caused(k)
    PROVE  Caused(k)'
<1>1. now' \in Int /\ generation' \in Int /\ now \in Int /\ generation \in Int
  BY ServiceKept DEF Known
<1>2. now <= now' /\ generation <= generation'
  <2>1. CASE UNCHANGED <<now, generation>>
    BY <1>1, <2>1
  <2>2. CASE Tick
    BY <1>1, <2>2 DEF Tick
  <2>3. CASE now' = now /\ generation' = generation + 1
    BY <1>1, <2>3
  <2> QED
    BY <2>1, <2>2, <2>3
    DEF Next, vars, service, Invoke, BeginSize, BeginInvalid, BeginListing, BeginRead,
        Begin, Step, Attempt, RequestCanceled, RequestFails, SizeServed, ListBlocks,
        ChangedBlocks, PageServed, ChangedPageServed, ListSnapshotBlocks,
        ListChangedBlocks, ServePage, Listing, NextPage, HandBlock, PageDone, ReadBlock,
        BlockServed, ReadBody, GetSnapshotBlock, Close, Return, Cancel
<1>3. k.op = "read" /\ k.ref # None => k.ref.gen \in Int /\ k.ref.expiry \in Int \cup {None}
  BY RefType DEF Call
<1>4. ASSUME k.op = "read", k.ref # None, k.ref.gen < generation
      PROVE  k.ref.gen < generation'
  BY <1>1, <1>2, <1>3, <1>4
<1>5. ASSUME k.op = "read", k.ref # None, PastItsTime(k.ref)
      PROVE  PastItsTime(k.ref)'
  BY <1>1, <1>2, <1>3, <1>5 DEF PastItsTime
<1> QED
  BY <1>4, <1>5 DEF Caused, PastItsTime, MayFailInvalid

\* A call goes on with references it has or that were handed out.
Inherits(k, r) == Holds(r) \subseteq Holds(k) \cup refs
Settles(c) == \E r \in Call : Set(c, r) /\ Inherits(call[c], r) /\ Caused(r)'

LEMMA KnownMoved ==
    ASSUME Known, NEW c \in Callers, Moves(c), NEW r, Set(c, r)
    PROVE  r \in Call
<1>1. PICK q \in Call : Set(c, q)
  BY DEF Moves, Good
<1>2. q = r
  BY <1>1 DEF Set, Known, CallsKnow
<1> QED
  BY <1>1, <1>2

\* A goroutine's call may be left as it is, but for its place and its answer.
LEMMA SettlesByPlace ==
    ASSUME Known, NEW c \in Callers, NEW r \in Call, Set(c, r), r.op = call[c].op,
           r.ref = call[c].ref, r.at # "page", Caused(r)'
    PROVE  Settles(c)
BY DEF Settles, Inherits, Holds

LEMMA SettlesByEnd ==
    ASSUME Known, NEW c \in Callers, NEW k, k = call[c], NEW result,
           Moves(c), Set(c, Ends(k, result)), Caused(Ends(k, result))'
    PROVE  Settles(c)
<1> DEFINE r == Ends(k, result)
<1>1. r.op = k.op /\ r.ref = k.ref /\ r.at = "done"
  BY DEF Ends, NoCall
<1>2. r \in Call
  BY KnownMoved
<1>3. Set(c, r) /\ Caused(r)'
  OBVIOUS
<1> HIDE DEF r
<1> QED
  BY <1>1, <1>2, <1>3, SettlesByPlace

LEMMA SettlesByFailure ==
    ASSUME Known, NEW c \in Callers, NEW k, k = call[c], Moves(c), NEW kind,
           Failed(c, kind), Caused(Ends(k, kind))'
    PROVE  Settles(c)
<1> DEFINE r == [k EXCEPT !.at = "request", !.attempt = @ + 1, !.response = None]
<1>1. CASE Set(c, r)
  <2>1. r.op = k.op /\ r.ref = k.ref /\ r.at = "request"
    BY CallAt DEF Call
  <2>2. r \in Call
    BY <1>1, KnownMoved
  <2> HIDE DEF r
  <2>3. Caused(r)'
    BY <2>1 DEF Caused
  <2> QED
    BY <1>1, <2>1, <2>2, <2>3, SettlesByPlace
<1>2. CASE Set(c, Ends(k, kind))
  BY <1>2, SettlesByEnd
<1> QED
  BY <1>1, <1>2 DEF Failed, Done

\* Only a refused token ends a read as expired, or as invalid if no fault does.
LEMMA EndsWithCause ==
    ASSUME NEW k, NEW result,
           \/ k.op # "read" \/ result \notin {"invalid", "expired"}
           \/ result = "invalid" /\ MayFailInvalid
    PROVE  Caused(Ends(k, result))'
<1>1. /\ Ends(k, result).op = k.op /\ Ends(k, result).result = result
  BY DEF Ends, NoCall
<1> QED
  BY <1>1 DEF Caused, MayFailInvalid

LEMMA RefusedWithCause ==
    ASSUME Known, NEW k \in Call, k.ref # None, Sound(k.ref),
           NEW kind \in RefusedAs(Refusal(k.ref)), UNCHANGED service
    PROVE  Caused(Ends(k, kind))'
<1> DEFINE ref == k.ref
           r == Ends(k, kind)
<1>1. /\ r.ref = ref /\ r.result = kind
  BY DEF Ends, NoCall
<1>2. ref.gen \in Int /\ generation \in Int /\ now \in Int /\ ref.expiry \in Int \cup {None}
      /\ \A t \in validTokens : t.expiry \in Int
  <2>1. ref \in Ref
    BY DEF Call
  <2> QED
    BY <2>1, RefType DEF Known
<1>3. Refusal(ref) = "superseded" => ref.gen < generation'
  <2>1. ASSUME Refusal(ref) = "superseded" PROVE \A t \in validTokens : ~Matches(t, ref)
    BY <2>1 DEF Refusal, Matches
  <2> QED
    BY <1>2, <2>1 DEF Sound, service
<1>4. Refusal(ref) = "expired" => PastItsTime(ref)'
  <2>1. ASSUME Refusal(ref) = "expired"
        PROVE  \E t \in validTokens : Matches(t, ref) /\ now > t.expiry
    BY <2>1 DEF Refusal, Matches
  <2> QED
    BY <1>2, <2>1 DEF Sound, PastItsTime, service
<1>5. \/ kind = "invalid" /\ Refusal(ref) = "superseded"
      \/ kind \in {"invalid", "expired"} /\ Refusal(ref) = "expired"
  BY ExpiredKindsAssumption DEF RefusedAs
<1> HIDE DEF r, ref
<1>6. Caused(r)'
  BY <1>1, <1>3, <1>4, <1>5 DEF Caused, PastItsTime
<1> QED
  BY <1>6 DEF r

LEMMA InvokeSettles ==
    ASSUME Known, NEW c \in Callers, Invoke(c)
    PROVE  Settles(c)
<1>1. ASSUME NEW r, Begin(c, r), r.op # "read" \/ r.ref = None, r.at # "page"
      PROVE  Settles(c)
  <2>1. r \in Call
    BY <1>1, StepMoves, KnownMoved DEF Begin
  <2>2. Inherits(call[c], r) /\ Caused(r)'
    BY <1>1 DEF Inherits, Holds, Caused
  <2> QED
    BY <1>1, <2>1, <2>2 DEF Settles, Begin
<1>2. CASE BeginSize(c)
  <2>1. [NoCall EXCEPT !.op = "size", !.at = "request"].op # "read"
        /\ [NoCall EXCEPT !.op = "size", !.at = "request"].at # "page"
    BY DEF NoCall
  <2> QED
    BY <1>1, <1>2, <2>1 DEF BeginSize
<1>3. ASSUME NEW op \in {"list", "changed"}, BeginListing(c, op)
      PROVE  Settles(c)
  <2> DEFINE r == [NoCall EXCEPT !.op = op, !.at = "loop", !.since = now]
  <2>1. r.op # "read" /\ r.at # "page"
    BY DEF NoCall
  <2> QED
    BY <1>1, <1>3, <2>1 DEF BeginListing
<1>4. ASSUME NEW op \in {"changed", "read"}, Begin(c, Ends([NoCall EXCEPT !.op = op], "invalid"))
      PROVE  Settles(c)
  <2>1. /\ Ends([NoCall EXCEPT !.op = op], "invalid").ref = None
        /\ Ends([NoCall EXCEPT !.op = op], "invalid").at = "done"
    BY DEF Ends, NoCall
  <2> QED
    BY <1>1, <1>4, <2>1
<1>5. ASSUME NEW ref \in refs, BeginRead(c, ref)
      PROVE  Settles(c)
  <2> DEFINE r == [NoCall EXCEPT !.op = "read", !.ref = ref, !.at = "request"]
             e == Ends(r, "expired")
  <2>1. r.op = "read" /\ r.ref = ref /\ r.at = "request"
    BY DEF NoCall
  <2>2. e.op = "read" /\ e.ref = ref /\ e.at = "done" /\ e.result = "expired"
    BY <2>1 DEF Ends, NoCall
  <2>3. Begin(c, IF Expired(ref) THEN e ELSE r)
    BY <1>5 DEF BeginRead
  <2> HIDE DEF r, e
  <2>4. PICK q : q \in Call /\ Set(c, q) /\ q = IF Expired(ref) THEN e ELSE r
    BY <1>5, <2>3, StepMoves, KnownMoved DEF Begin, Invoke
  <2>5. Inherits(call[c], q)
    BY <2>1, <2>2, <2>4 DEF Inherits, Holds
  <2>6. now' = now
    BY <2>3 DEF Begin, service
  <2>7. Caused(q)'
    BY <2>1, <2>2, <2>4, <2>6 DEF Caused, Expired, PastItsTime
  <2> QED
    BY <2>4, <2>5, <2>7 DEF Settles
<1> QED
  BY <1>2, <1>3, <1>4, <1>5 DEF Invoke, BeginInvalid

LEMMA RequestFailsSettles ==
    ASSUME Known, TokensWork, NEW c \in Callers, RequestFails(c)
    PROVE  Settles(c)
<1>1. PICK k : k = call[c]
  OBVIOUS
<1>2. k \in Call /\ Moves(c)
  BY <1>1, CallAt, RequestFailsMoves
<1>3. ASSUME NEW e \in Faults, Failed(c, Classify(e)) PROVE Settles(c)
  <2>1. PICK kind : kind = Classify(e)
    OBVIOUS
  <2>2. kind # "expired" /\ (kind = "invalid" => MayFailInvalid)
    BY <2>1 DEF Classify, MayFailInvalid
  <2> QED
    BY <1>1, <1>2, <1>3, <2>1, <2>2, EndsWithCause, SettlesByFailure
<1>4. CASE IsListing(c) /\ \E kind \in ExpiredKinds : Failed(c, kind)
  BY <1>1, <1>2, <1>4, EndsWithCause, SettlesByFailure DEF IsListing
<1>5. CASE k.op = "read" /\ \E kind \in RefusedAs(Refusal(k.ref)) : Failed(c, kind)
  <2>1. PICK kind \in RefusedAs(Refusal(k.ref)) : Failed(c, kind)
    BY <1>5
  <2>2. k.ref # None
    BY <1>1, <1>5, CallAt DEF RequestFails, At, Knows
  <2>3. Sound(k.ref)
    BY <1>1, <1>5, <2>2 DEF TokensWork, Holds
  <2>4. UNCHANGED service
    BY DEF RequestFails
  <2>5. Caused(Ends(k, kind))'
    BY <1>2, <1>5, <2>1, <2>2, <2>3, <2>4, RefusedWithCause
  <2> QED
    BY <1>1, <1>2, <1>5, <2>1, <2>5, SettlesByFailure
<1> QED
  BY <1>1, <1>3, <1>4, <1>5 DEF RequestFails

LEMMA OthersSettle ==
    ASSUME Known, NEW c \in Callers,
           \/ Return(c) \/ Cancel(c) \/ RequestCanceled(c) \/ SizeServed(c) \/ NextPage(c)
           \/ PageDone(c) \/ HandBlock(c) \/ ReadBlock(c)
    PROVE  Settles(c)
<1>1. PICK k : k = call[c] /\ k \in Call /\ Knows(k)
  BY CallAt
<1>2. Moves(c)
  BY ReturnMoves, CancelMoves, RequestCanceledMoves, SizeServedMoves, NextPageMoves,
     PageDoneMoves, HandBlockMoves, BlockServedMoves, ReadBodyMoves DEF ReadBlock
<1>3. ASSUME NEW result, k.op # "read" \/ result \notin {"invalid", "expired"},
             Set(c, Ends(k, result))
      PROVE  Settles(c)
  BY <1>1, <1>2, <1>3, EndsWithCause, SettlesByEnd DEF Done
<1>4. CASE Return(c)
  <2>1. Caused(NoCall)' /\ Inherits(call[c], NoCall)
    BY DEF Caused, Inherits, Holds, NoCall
  <2> QED
    BY <1>4, <2>1, NoCallType DEF Return, Settles
<1>5. ASSUME NEW r, Set(c, r), r.op = k.op, r.ref = k.ref, r.at \notin {"page", "done"}
      PROVE  Settles(c)
  <2>1. r \in Call /\ Caused(r)'
    BY <1>2, <1>5, KnownMoved DEF Caused
  <2> QED
    BY <1>1, <1>5, <2>1, SettlesByPlace
<1>6. CASE Cancel(c)
  <2> DEFINE r == [k EXCEPT !.canceled = TRUE]
  <2>1. /\ r.op = k.op /\ r.ref = k.ref /\ r.at = k.at /\ r.at # "done"
        /\ r.page = k.page /\ r.gen = k.gen /\ r.expiry = k.expiry
    BY <1>1, <1>6 DEF Call, Cancel, At
  <2>2. Set(c, r) /\ r \in Call
    BY <1>1, <1>2, <1>6, KnownMoved DEF Cancel
  <2> HIDE DEF r
  <2>3. Inherits(k, r) /\ Caused(r)'
    BY <2>1 DEF Inherits, Holds, PageRefs, Caused
  <2> QED
    BY <1>1, <2>2, <2>3 DEF Settles
<1>7. CASE RequestCanceled(c) \/ SizeServed(c)
  BY <1>1, <1>3, <1>7 DEF RequestCanceled, SizeServed, Done
<1>8. CASE NextPage(c)
  <2>1. k.op # "read"
    BY <1>1, <1>8 DEF NextPage, At, Knows, Lists
  <2>2. /\ [k EXCEPT !.at = "request", !.attempt = 0].at = "request"
        /\ [k EXCEPT !.at = "request", !.attempt = 0].op = k.op
        /\ [k EXCEPT !.at = "request", !.attempt = 0].ref = k.ref
    BY <1>1 DEF Call
  <2> QED
    BY <1>1, <1>3, <1>5, <1>8, <2>1, <2>2 DEF NextPage, Done
<1>9. CASE PageDone(c)
  <2>1. /\ [k EXCEPT !.at = "loop"].at = "loop" /\ [k EXCEPT !.at = "loop"].op = k.op
        /\ [k EXCEPT !.at = "loop"].ref = k.ref
    BY <1>1 DEF Call
  <2> QED
    BY <1>1, <1>3, <1>5, <1>9, <2>1 DEF PageDone, Done
<1>10. CASE HandBlock(c)
  <2>1. PICK b : Hand(c) /\ b = CHOOSE y \in k.page : \A x \in k.page : y <= x
    BY <1>10 DEF HandBlock
  <2> DEFINE r == [k EXCEPT !.last = b, !.page = @ \ {b}, !.bare = @ \ {b},
                            !.handed = @ \cup {b}]
  <2>2. /\ r.op = k.op /\ r.ref = k.ref /\ r.at = k.at /\ k.at = "page" /\ k.op # "read"
        /\ r.page = k.page \ {b} /\ r.gen = k.gen /\ r.expiry = k.expiry
    BY <1>1, <1>10 DEF Call, HandBlock, At, Knows, Lists
  <2>3. (\E result : Set(c, Ends(k, result))) \/ Set(c, r) \/ Set(c, Ends(r, "fn"))
    BY <1>1, <2>1 DEF Hand, Done
  <2> HIDE DEF r
  <2>4. CASE Set(c, r)
    <3>1. r \in Call /\ Inherits(k, r) /\ Caused(r)'
      BY <1>2, <2>2, <2>4, KnownMoved DEF Inherits, Holds, PageRefs, Caused
    <3> QED
      BY <1>1, <2>4, <3>1 DEF Settles
  <2>5. CASE Set(c, Ends(r, "fn"))
    <3>1. Ends(r, "fn").op # "read" /\ Ends(r, "fn").at = "done"
      BY <2>2 DEF Ends, NoCall
    <3>2. Ends(r, "fn") \in Call
      BY <1>2, <2>5, KnownMoved
    <3>3. Inherits(k, Ends(r, "fn")) /\ Caused(Ends(r, "fn"))'
      BY <3>1 DEF Inherits, Holds, Caused
    <3> QED
      BY <1>1, <2>5, <3>2, <3>3 DEF Settles
  <2> QED
    BY <1>3, <2>2, <2>3, <2>4, <2>5
<1>11. CASE BlockServed(c)
  <2>1. PICK response :
            Set(c, [k EXCEPT !.at = "body", !.response = Adapted(response)])
    BY <1>1, <1>11 DEF BlockServed
  <2>2. /\ [k EXCEPT !.at = "body", !.response = Adapted(response)].at = "body"
        /\ [k EXCEPT !.at = "body", !.response = Adapted(response)].op = k.op
        /\ [k EXCEPT !.at = "body", !.response = Adapted(response)].ref = k.ref
    BY <1>1 DEF Call
  <2> QED
    BY <1>5, <2>1, <2>2
<1>12. CASE ReadBody(c)
  <2>1. PICK result : result = Verdict(k.response) /\ result \notin {"invalid", "expired"}
    BY DEF Verdict
  <2>2. Set(c, Ends(k, "ok")) \/ Failed(c, result)
    BY <1>1, <1>12, <2>1 DEF ReadBody, Done
  <2>3. CASE Failed(c, result)
    BY <1>1, <1>2, <2>1, <2>3, EndsWithCause, SettlesByFailure
  <2> QED
    BY <1>3, <2>2, <2>3
<1> QED
  BY <1>4, <1>6, <1>7, <1>8, <1>9, <1>10, <1>11, <1>12 DEF ReadBlock

\* A step of one call, after which its references are sound, leaves all of them so.
LEMMA TokensWorkOn ==
    ASSUME Known, TokensWork, [Next]_vars, NEW c \in Callers, NEW r, Set(c, r),
           \A ref \in Holds(r) : Sound(ref)', Caused(r)',
           \A ref \in refs' : ref \in refs \/ ref \in Holds(call[c])
    PROVE  TokensWork'
<1>1. \A ref \in refs \cup Holds(call[c]) : Sound(ref)'
  BY CallAt, HeldAreRefs, SoundKept DEF TokensWork, Known
<1>2. \A ref \in refs' : Sound(ref)'
  BY <1>1
<1>3. ASSUME NEW d \in Callers
      PROVE  (\A ref \in Holds(call'[d]) : Sound(ref)') /\ Caused(call[d])'
  <2>1. CASE d = c
    <3>1. call'[d] = r
      BY <2>1 DEF Set, Known, CallsKnow
    <3> QED
      BY <3>1 DEF Caused
  <2>2. CASE d # c
    <3>1. PICK k \in Call : k = call[d] /\ k = call'[d]
      BY <2>2, CallAt DEF Set, Known, CallsKnow
    <3>2. Caused(k)'
      BY <3>1, CausedKept DEF TokensWork
    <3>3. \A ref \in Holds(k) : Sound(ref)'
      BY <3>1, HeldAreRefs, SoundKept DEF TokensWork
    <3> QED
      BY <3>1, <3>2, <3>3 DEF Caused
  <2> QED
    BY <2>1, <2>2
<1>4. \A d \in Callers : \A ref \in Holds(call[d])' : Sound(ref)'
  BY <1>3 DEF Holds, PageRefs
<1> QED
  BY <1>2, <1>3, <1>4 DEF TokensWork

LEMMA SettledWork ==
    ASSUME Known, TokensWork, [Next]_vars, NEW c \in Callers, Settles(c),
           \A ref \in refs' : ref \in refs \/ ref \in Holds(call[c])
    PROVE  TokensWork'
<1>1. PICK r \in Call : Set(c, r) /\ Inherits(call[c], r) /\ Caused(r)'
  BY DEF Settles
<1>2. \A ref \in Holds(r) : Sound(ref)'
  BY <1>1, CallAt, HeldAreRefs, SoundKept DEF TokensWork, Known, Inherits
<1> QED
  BY <1>1, <1>2, TokensWorkOn

\* A page's references are those the service has just issued.
LEMMA PageWorks ==
    ASSUME Known, TokensWork, [Next]_vars, NEW c \in Callers,
           PageServed(c) \/ ChangedPageServed(c)
    PROVE  TokensWork'
<1>1. PICK k \in Call : k = call[c] /\ k.op # "read"
  BY CallAt DEF PageServed, ChangedPageServed
<1>2. PICK gen, page, next : /\ gen = generation' /\ page = Blocks(DefaultMaxResults, k.next)
                            /\ next = NextToken(DefaultMaxResults, k.next)
  OBVIOUS
<1>3. PICK expiry \in ExpiryTimes, bare \in Bare(page) :
          Set(c, [k EXCEPT !.at = "page", !.expiry = expiry, !.gen = gen,
                           !.page = page, !.bare = bare, !.next = next])
  BY <1>1, <1>2 DEF PageServed, ChangedPageServed, TakePage
<1> DEFINE r == [k EXCEPT !.at = "page", !.expiry = expiry, !.gen = gen,
                          !.page = page, !.bare = bare, !.next = next]
<1>4. /\ r.op = k.op /\ r.at = "page" /\ r.page = page /\ r.gen = gen /\ r.expiry = expiry
  BY <1>1 DEF Call
<1>5. Set(c, r)
  BY <1>3
<1> HIDE DEF r
<1>6. ASSUME NEW b \in page
      PROVE  Sound([block |-> b, gen |-> gen, expiry |-> expiry])'
  <2>1. DefaultMaxResults \in Int /\ k.next \in Tokens
    BY <1>1, ResultsAssumption DEF Call, Tokens
  <2>2. \E invalidates : ServePage(DefaultMaxResults, k.next, invalidates)
    BY <1>1 DEF PageServed, ChangedPageServed, ListSnapshotBlocks, ListChangedBlocks
  <2> QED
    BY <1>2, <1>3, <1>6, <2>1, <2>2, ServedPageSound
<1>7. \A ref \in Holds(r) : Sound(ref)'
  BY <1>1, <1>4, <1>6 DEF Holds, PageRefs
<1>8. Caused(r)'
  BY <1>1, <1>4 DEF Caused
<1>9. refs' = refs
  BY DEF PageServed, ChangedPageServed
<1> QED
  BY <1>5, <1>7, <1>8, <1>9, TokensWorkOn

LEMMA TokensWorkKept ==
    ASSUME Known, TokensWork, [Next]_vars
    PROVE  TokensWork'
<1>1. CASE UNCHANGED <<call, refs>>
  <2>1. \A c \in Callers : Holds(call[c]) \subseteq Ref
    BY CallAt, HeldAreRefs
  <2>2. \A c \in Callers : Caused(call[c])'
    <3> SUFFICES ASSUME NEW c \in Callers PROVE Caused(call[c])'
      OBVIOUS
    <3>1. PICK k \in Call : k = call[c] /\ k = call'[c]
      BY <1>1, CallAt
    <3>2. Caused(k)'
      BY <3>1, CausedKept DEF TokensWork
    <3> QED
      BY <3>1, <3>2 DEF Caused
  <2>3. \A ref \in refs' : Sound(ref)'
    BY <1>1, SoundKept DEF TokensWork, Known
  <2>4. \A c \in Callers : \A ref \in Holds(call[c])' : Sound(ref)'
    BY <1>1, <2>1, SoundKept DEF TokensWork, Holds, PageRefs
  <2> QED
    BY <2>2, <2>3, <2>4 DEF TokensWork
<1>2. ASSUME NEW c \in Callers,
             \/ Invoke(c) \/ Return(c) \/ Cancel(c) \/ Attempt(c) \/ SizeServed(c)
             \/ NextPage(c) \/ PageDone(c) \/ ReadBlock(c)
      PROVE  TokensWork'
  <2>1. refs' = refs
    BY <1>2
    DEF Invoke, BeginSize, BeginInvalid, BeginListing, BeginRead, Begin, Return, Cancel,
        Attempt, RequestCanceled, RequestFails, SizeServed, NextPage, PageDone, ReadBlock,
        BlockServed, ReadBody
  <2>2. Settles(c)
    BY <1>2, InvokeSettles, RequestFailsSettles, OthersSettle DEF Attempt
  <2> QED
    BY <2>1, <2>2, SettledWork
<1>3. ASSUME NEW c \in Callers, PageServed(c) \/ ChangedPageServed(c)
      PROVE  TokensWork'
  BY <1>3, PageWorks
<1>4. ASSUME NEW c \in Callers, HandBlock(c)
      PROVE  TokensWork'
  <2> DEFINE k == call[c]
             b == CHOOSE b \in k.page : \A x \in k.page : b <= x
  <2>1. k.at = "page" /\ k.page # {} /\ k.page \subseteq Written
    BY <1>4, CallAt DEF HandBlock, At, Call
  <2>2. b \in k.page
    BY <2>1, Least, WrittenAssumption
  <2>3. refs' \subseteq refs \cup {[block |-> b, gen |-> k.gen, expiry |-> k.expiry]}
    BY <1>4 DEF HandBlock, Hand
  <2> HIDE DEF b
  <2>4. \A ref \in refs' : ref \in refs \/ ref \in Holds(k)
    BY <2>1, <2>2, <2>3 DEF Holds, PageRefs
  <2> QED
    BY <1>4, <2>4, OthersSettle, SettledWork
<1> QED
  BY <1>1, <1>2, <1>3, <1>4 DEF Next, vars, Step, ListBlocks, ChangedBlocks, Listing

\* A block token works until it expires, unless a listing began since
\* (docs/OPEN_QUESTIONS.md Q-001): otherwise no read ends as expired, nor as
\* invalid unless the service has another fault that does.
THEOREM TokensRefusedForCause == Spec => []RefusedForCause
<1>1. Init => TokensWork
  <2>1. Caused(NoCall) /\ Holds(NoCall) = {}
    BY DEF Caused, Holds, NoCall
  <2> QED
    BY <2>1 DEF Init, TokensWork
<1>2. Known /\ TokensWork /\ [Next]_vars => TokensWork'
  BY TokensWorkKept
<1>3. TokensWork => RefusedForCause
  BY DEF TokensWork, RefusedForCause, Caused, Ended, At
<1> QED
  BY <1>1, <1>2, <1>3, KnownAlways, PTL DEF Spec
=============================================================================
