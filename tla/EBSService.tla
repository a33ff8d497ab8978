----------------------------- MODULE EBSService -----------------------------
(***************************************************************************)
(* The EBS direct APIs, as the client of internal/source/ebs meets them:   *)
(* the service of fake.go, which implements the documented one, and what   *)
(* awsclient.go makes of its answers.  Each call is one step (the fake     *)
(* holds its lock; a remote service answers from one state).               *)
(*                                                                         *)
(* A pagination token is its resume position and issue time; a block token *)
(* is its block and the generation of listings that issued it.  A block's  *)
(* contents are "block"; anything else a response may carry is not.        *)
(***************************************************************************)
EXTENDS Integers, FiniteSets

CONSTANTS
    Written,            \* the indexes of the blocks that have data
    PageSize,           \* the fake's cap on the blocks of a page, 0 for none
    MinMaxResults, DefaultMaxResults, MaxMaxResults,
    NextTokenLifetime, BlockTokenLifetime,
    EmptyPages,         \* listings whose first page is empty
    InvalidateOnRelist, \* the strict reading of Q-001 (docs/OPEN_QUESTIONS.md)
    Faults,             \* the exceptions a call may end in
    ExpiredKinds,       \* how an expired token is reported: "expired" by the
                        \* fake, "invalid" behind AWSClient (a Validation)
    MayOmitExpiry,      \* may a listing's response lack its ExpiryTime?
    MayOmitTokens,      \* the blocks whose tokens it may lack
    Responses,          \* what a response to GetSnapshotBlock may be
    MaxTime,            \* bound on the clock
    None                \* no token, no time

ASSUME WrittenAssumption == Written \subseteq Nat /\ IsFiniteSet(Written)
ASSUME ResultsAssumption ==
    /\ PageSize \in Nat
    /\ MinMaxResults \in Nat \ {0} /\ MaxMaxResults \in Nat /\ DefaultMaxResults \in Nat
    /\ MinMaxResults <= DefaultMaxResults /\ DefaultMaxResults <= MaxMaxResults
ASSUME LifetimesAssumption ==
    /\ NextTokenLifetime \in Nat /\ BlockTokenLifetime \in Nat
    /\ MaxTime \in Nat /\ EmptyPages \in Nat
ASSUME OptionsAssumption ==
    /\ InvalidateOnRelist \in BOOLEAN
    /\ MayOmitExpiry \in BOOLEAN /\ MayOmitTokens \subseteq Written
ASSUME ExpiredKindsAssumption ==
    ExpiredKinds # {} /\ ExpiredKinds \subseteq {"expired", "invalid"}
\* The checksum the service sends is that of the true block.
ASSUME ResponsesAssumption ==
    Responses \subseteq [ body : {"intact", "altered", "cut", "absent"},
                          length : {"whole", "outside", "absent"},
                          checksum : {"SHA256", "unknown", "absent"} ]
ASSUME NoneAssumption ==
    None \notin [start : Nat, issued : Nat] \cup Nat
                    \cup [block : Nat, gen : Nat, expiry : Nat \cup {None}]

VARIABLES
    now,            \* the clock
    generation,     \* listings begun
    validTokens,    \* live block tokens, each with the time it expires
    emptyPages,     \* empty first pages still to come
    openBodies      \* response bodies not yet closed

service == <<now, generation, validTokens, emptyPages, openBodies>>

ServiceInit ==
    /\ now = 0
    /\ generation = 0
    /\ validTokens = {}
    /\ emptyPages = EmptyPages
    /\ openBodies = 0

-----------------------------------------------------------------------------
(* Errors                                                                  *)

\* The kind of error the engine sees, by exception.
Classify(e) ==
    CASE e \in {"RequestThrottled", "ConcurrentLimitExceeded"} -> "throttled"
      [] e \in {"InternalServer", "Conflict"} -> "transient"
      [] e = "ResourceNotFound" -> "notFound"
      [] e = "AccessDenied" -> "permission"
      [] e \in {"ServiceQuotaExceeded", "Validation"} -> "invalid"
      [] OTHER -> "unknown"

Retryable(kind) == kind \in {"throttled", "transient"}

-----------------------------------------------------------------------------
(* Listings                                                                *)

Clamp(n) ==
    CASE n <= 0 -> DefaultMaxResults
      [] n > 0 /\ n < MinMaxResults -> MinMaxResults
      [] n > MaxMaxResults -> MaxMaxResults
      [] OTHER -> n

Limit(n) == IF PageSize > 0 /\ PageSize < Clamp(n) THEN PageSize ELSE Clamp(n)

\* A continuation is checked before anything is served.
PageExpired(token) == token # None /\ now - token.issued > NextTokenLifetime

\* A fresh listing starts at block 0, and its first page may be empty.
Start(token) == IF token = None THEN 0 ELSE token.start
IsEmptyPage(token) == token = None /\ emptyPages > 0

\* The first limit blocks from start on, in sortedIndexes.
Between(i, j) == {b \in Written : i <= b /\ b < j}
PageOf(start, limit) ==
    {b \in Written : start <= b /\ Cardinality(Between(start, b)) < limit}

Blocks(n, token) ==
    IF IsEmptyPage(token) THEN {} ELSE PageOf(Start(token), Limit(n))

\* Mutant: the next page starts with the last block of this one.
TokenAtLastBlock(n, token) ==
    IF IsEmptyPage(token) THEN [start |-> Start(token), issued |-> now]
    ELSE LET page == Blocks(n, token) IN
         IF \E last \in page, b \in Written : b > last /\ \A x \in page : x <= last
         THEN [start |-> CHOOSE last \in page : \A x \in page : x <= last,
               issued |-> now]
         ELSE None

\* The page has a token iff a block is left after its last one, or it is empty
\* by the service's choice.
NextToken(n, token) ==
    IF IsEmptyPage(token) THEN [start |-> Start(token), issued |-> now]
    ELSE LET page == Blocks(n, token) IN
         IF \E last \in page, b \in Written : b > last /\ \A x \in page : x <= last
         THEN [start |-> 1 + CHOOSE last \in page : \A x \in page : x <= last,
               issued |-> now]
         ELSE None

\* The ExpiryTime of a page: without one, the zero time, its tokens never expire.
ExpiryTimes == {now + BlockTokenLifetime} \cup (IF MayOmitExpiry THEN {None} ELSE {})

\* The blocks of a page that lack their tokens.
Bare(page) == SUBSET (page \cap MayOmitTokens)

\* The tokens of a page: of the current generation, each replacing its equal.
Issue(tokens, page) ==
    {t \in tokens : ~(t.gen = generation' /\ t.block \in page)}
        \cup {[block |-> b, gen |-> generation', expiry |-> now + BlockTokenLifetime] :
                 b \in page}

\* Mutant: every page invalidates the tokens before it.
ServePageInvalidating(n, token, invalidates) ==
    /\ generation' = IF token = None THEN generation + 1 ELSE generation
    /\ validTokens' = Issue(IF invalidates THEN {} ELSE validTokens, Blocks(n, token))
    /\ emptyPages' = IF IsEmptyPage(token) THEN emptyPages - 1 ELSE emptyPages
    /\ UNCHANGED <<now, openBodies>>

ServePage(n, token, invalidates) ==
    /\ generation' = IF token = None THEN generation + 1 ELSE generation
    /\ validTokens' = Issue(IF token = None /\ invalidates THEN {} ELSE validTokens,
                            Blocks(n, token))
    /\ emptyPages' = IF IsEmptyPage(token) THEN emptyPages - 1 ELSE emptyPages
    /\ UNCHANGED <<now, openBodies>>

\* A fresh ListSnapshotBlocks kills the tokens of the listings before it.
ListSnapshotBlocks(n, token) ==
    /\ ~PageExpired(token)
    /\ ServePage(n, token, InvalidateOnRelist)

\* Every block is reported as changed.
ListChangedBlocks(n, token) ==
    /\ ~PageExpired(token)
    /\ ServePage(n, token, FALSE)

-----------------------------------------------------------------------------
(* Blocks                                                                  *)

\* Why a request for a block is refused, if it is.
Refusal(ref) ==
    LET live == {t \in validTokens : t.block = ref.block /\ t.gen = ref.gen} IN
    IF live = {} THEN "superseded"
    ELSE IF \E t \in live : now > t.expiry THEN "expired"
    ELSE "none"

\* And as what: a superseded token is invalid to the fake and to AWSClient.
RefusedAs(cause) ==
    CASE cause = "superseded" -> {"invalid"}
      [] cause = "expired" -> ExpiredKinds
      [] OTHER -> {}

\* A length or a checksum the service leaves out becomes its type's zero value.
Adapted(response) ==
    [response EXCEPT !.length = IF @ = "absent" THEN "zero" ELSE @,
                     !.checksum = IF @ = "absent" THEN "none" ELSE @]

\* A body is handed out, which the client has to close.
GetSnapshotBlock(ref, response) ==
    /\ Refusal(ref) = "none"
    /\ response \in Responses
    /\ openBodies' = IF response.body = "absent" THEN openBodies ELSE openBodies + 1
    /\ UNCHANGED <<now, generation, validTokens, emptyPages>>

Close ==
    /\ openBodies' = openBodies - 1
    /\ UNCHANGED <<now, generation, validTokens, emptyPages>>

Tick ==
    /\ now < MaxTime
    /\ now' = now + 1
    /\ UNCHANGED <<generation, validTokens, emptyPages, openBodies>>
=============================================================================
