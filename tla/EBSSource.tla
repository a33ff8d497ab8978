------------------------------ MODULE EBSSource ------------------------------
(***************************************************************************)
(* The EBS block source (internal/source/ebs/ebs.go) against the service:  *)
(* goroutines that call Size, ListBlocks, ListChangedBlocks and ReadBlock  *)
(* on one snapshot, each request under the retry policy.  The references   *)
(* of a listing are used by later and by concurrent calls.                 *)
(***************************************************************************)
EXTENDS EBSService

CONSTANTS
    Callers,            \* goroutines using the source
    Operations,         \* what each of them may call
    MaxAttempts,        \* retry.Policy.MaxAttempts
    VerifyChecksums,    \* Source.verifyChecksums
    MaxCalls            \* bound on the calls made

ASSUME CallersAssumption == IsFiniteSet(Callers)
ASSUME AttemptsAssumption == MaxAttempts \in Nat \ {0} /\ MaxCalls \in Nat
ASSUME OperationsAssumption ==
    Operations \in [Callers -> SUBSET {"size", "list", "changed", "read"}]
ASSUME VerifyAssumption == VerifyChecksums \in BOOLEAN

VARIABLES
    call,       \* each goroutine's call, see NoCall
    refs,       \* the block references listings have handed out
    calls       \* calls begun

vars == <<service, call, refs, calls>>

\* A listing has the token of its next page, the time it began, the last index
\* it saw, what is left of the page, the blocks of that which came without their
\* tokens, the others' generation and expiry, and the blocks its function was
\* given; a read has its reference and response.
NoCall ==
    [ op |-> "none", at |-> "idle", canceled |-> FALSE, result |-> "none", attempt |-> 0,
      next |-> None, since |-> 0, last |-> -1,
      page |-> {}, bare |-> {}, gen |-> 0, expiry |-> None, handed |-> {},
      ref |-> None, response |-> None ]

Init ==
    /\ ServiceInit
    /\ call = [c \in Callers |-> NoCall]
    /\ refs = {}
    /\ calls = 0

At(c, l) == call[c].at = l
IsListing(c) == call[c].op \in {"list", "changed"}
Set(c, r) == call' = [call EXCEPT ![c] = r]
Canceled(c) == call[c].canceled

\* The call returns; what a reader of the result may look at is kept.
Ends(r, result) ==
    [NoCall EXCEPT !.op = r.op, !.at = "done", !.result = result, !.handed = r.handed,
                   !.bare = r.bare, !.ref = r.ref, !.response = r.response]
Done(c, result) == Set(c, Ends(call[c], result))

-----------------------------------------------------------------------------
(* Beginning and ending a call                                             *)

Begin(c, r) ==
    /\ At(c, "idle") /\ r.op \in Operations[c] /\ calls < MaxCalls
    /\ calls' = calls + 1
    /\ Set(c, r)
    /\ UNCHANGED <<service, refs>>

BeginSize(c) == Begin(c, [NoCall EXCEPT !.op = "size", !.at = "request"])

BeginListing(c, op) ==
    Begin(c, [NoCall EXCEPT !.op = op, !.at = "loop", !.since = now])

Expired(ref) == ref.expiry # None /\ now > ref.expiry

\* ReadBlock looks at the reference before it asks the service.
BeginRead(c, ref) ==
    LET read == [NoCall EXCEPT !.op = "read", !.ref = ref, !.at = "request"] IN
    Begin(c, IF Expired(ref) THEN Ends(read, "expired") ELSE read)

\* A listing without a baseline, a small buffer or a reference without a token.
BeginInvalid(c) ==
    \E op \in {"changed", "read"} :
        Begin(c, Ends([NoCall EXCEPT !.op = op], "invalid"))

Return(c) ==
    /\ At(c, "done")
    /\ Set(c, NoCall)
    /\ UNCHANGED <<service, refs, calls>>

Cancel(c) ==
    /\ ~At(c, "idle") /\ ~At(c, "done") /\ ~Canceled(c)
    /\ Set(c, [call[c] EXCEPT !.canceled = TRUE])
    /\ UNCHANGED <<service, refs, calls>>

-----------------------------------------------------------------------------
(* Requests: retry.Do around one call of the API                           *)

\* Mutant: one attempt too many.
FailedOnceMore(c, kind) ==
    IF Retryable(kind) /\ call[c].attempt < MaxAttempts
    THEN Set(c, [call[c] EXCEPT !.at = "request", !.attempt = @ + 1,
                                !.response = None])
    ELSE Done(c, kind)

\* Mutant: attempts are not counted.
FailedUncounted(c, kind) ==
    IF Retryable(kind)
    THEN Set(c, [call[c] EXCEPT !.at = "request", !.response = None])
    ELSE Done(c, kind)

\* An attempt failed with an error of this kind: the next one, or the end.
Failed(c, kind) ==
    IF Retryable(kind) /\ call[c].attempt < MaxAttempts - 1
    THEN Set(c, [call[c] EXCEPT !.at = "request", !.attempt = @ + 1,
                                !.response = None])
    ELSE Done(c, kind)

RequestCanceled(c) ==
    /\ At(c, "request") /\ Canceled(c)
    /\ Done(c, "canceled")
    /\ UNCHANGED <<service, refs, calls>>

\* The service refuses, by an exception or because of a token.
RequestFails(c) ==
    /\ At(c, "request") /\ ~Canceled(c)
    /\ \/ \E e \in Faults : Failed(c, Classify(e))
       \/ IsListing(c) /\ PageExpired(call[c].next)
             /\ \E kind \in ExpiredKinds : Failed(c, kind)
       \/ call[c].op = "read"
             /\ \E kind \in RefusedAs(Refusal(call[c].ref)) : Failed(c, kind)
    /\ UNCHANGED <<service, refs, calls>>

\* Size asks for a listing of its own, and takes the volume size from it.
SizeServed(c) ==
    /\ At(c, "request") /\ ~Canceled(c) /\ call[c].op = "size"
    /\ ListSnapshotBlocks(MinMaxResults, None)
    /\ Done(c, "ok")
    /\ UNCHANGED <<refs, calls>>

-----------------------------------------------------------------------------
(* Listings                                                                *)

\* The head of the loop: the context, and the age of the listing.
NextPage(c) ==
    /\ At(c, "loop")
    /\ CASE Canceled(c) -> Done(c, "canceled")
         [] ~Canceled(c) /\ call[c].next # None
               /\ now - call[c].since > NextTokenLifetime -> Done(c, "expired")
         [] OTHER -> Set(c, [call[c] EXCEPT !.at = "request", !.attempt = 0])
    /\ UNCHANGED <<service, refs, calls>>

\* What is kept of the page that answers a request.
TakePage(c) ==
    \E expiry \in ExpiryTimes, bare \in Bare(Blocks(DefaultMaxResults, call[c].next)) :
        Set(c, [call[c] EXCEPT !.at = "page", !.expiry = expiry, !.gen = generation',
                               !.page = Blocks(DefaultMaxResults, call[c].next),
                               !.bare = bare,
                               !.next = NextToken(DefaultMaxResults, call[c].next)])

\* A page is received, by the first or a later attempt.
PageServed(c) ==
    /\ At(c, "request") /\ ~Canceled(c) /\ call[c].op = "list"
    /\ ListSnapshotBlocks(DefaultMaxResults, call[c].next)
    /\ TakePage(c)
    /\ UNCHANGED <<refs, calls>>

ChangedPageServed(c) ==
    /\ At(c, "request") /\ ~Canceled(c) /\ call[c].op = "changed"
    /\ ListChangedBlocks(DefaultMaxResults, call[c].next)
    /\ TakePage(c)
    /\ UNCHANGED <<refs, calls>>

\* The caller's function is given the page's next block, and may return an error.
\* Only ListChangedBlocks refuses a block without its token; a reference without
\* one is refused when it is read (BeginInvalid).
Hand(c) ==
    LET b == CHOOSE b \in call[c].page : \A x \in call[c].page : b <= x
        handed == [call[c] EXCEPT !.last = b, !.page = @ \ {b}, !.bare = @ \ {b},
                                  !.handed = @ \cup {b}]
    IN  IF \/ Canceled(c) \/ b <= call[c].last
           \/ call[c].op = "changed" /\ b \in call[c].bare
        THEN /\ Done(c, IF Canceled(c) THEN "canceled" ELSE "corrupt")
             /\ UNCHANGED refs
        ELSE /\ \/ Set(c, handed)
                \/ Set(c, Ends(handed, "fn"))
             /\ refs' = refs \cup
                   {[block |-> x, gen |-> call[c].gen, expiry |-> call[c].expiry] :
                        x \in {b} \ call[c].bare}

HandBlock(c) ==
    /\ At(c, "page") /\ call[c].page # {}
    /\ Hand(c)
    /\ UNCHANGED <<service, calls>>

\* Mutant: a page without blocks ends the listing.
PageDoneWhenEmpty(c) ==
    /\ At(c, "page") /\ call[c].page = {}
    /\ IF call[c].next = None \/ call[c].handed = {}
       THEN Done(c, "ok") ELSE Set(c, [call[c] EXCEPT !.at = "loop"])
    /\ UNCHANGED <<service, refs, calls>>

\* Only a page without a continuation token ends the listing.
PageDone(c) ==
    /\ At(c, "page") /\ call[c].page = {}
    /\ IF call[c].next = None
       THEN Done(c, "ok") ELSE Set(c, [call[c] EXCEPT !.at = "loop"])
    /\ UNCHANGED <<service, refs, calls>>

-----------------------------------------------------------------------------
(* ReadBlock                                                               *)

\* A response, whose body is open from here on.
BlockServed(c) ==
    /\ At(c, "request") /\ ~Canceled(c) /\ call[c].op = "read"
    /\ \E response \in Responses :
          /\ GetSnapshotBlock(call[c].ref, response)
          /\ Set(c, [call[c] EXCEPT !.at = "body", !.response = Adapted(response)])
    /\ UNCHANGED <<refs, calls>>

\* What readOnce makes of a response.
Data(r) ==
    CASE r.length = "zero" -> "nothing"
      [] r.length = "whole" /\ r.body = "altered" -> "altered"
      [] OTHER -> "block"

\* Mutant: no bytes, nothing to verify.
ChecksumFailsOnData(r) ==
    \/ r.checksum = "unknown"
    \/ r.checksum = "SHA256" /\ Data(r) = "altered"

\* An algorithm the client does not know is a failure too.
ChecksumFails(r) ==
    \/ r.checksum = "unknown"
    \/ r.checksum = "SHA256" /\ Data(r) # "block"

Verdict(r) ==
    IF r.body = "absent" \/ r.length = "outside" THEN "corrupt"
    ELSE IF r.body = "cut" /\ r.length = "whole" THEN "transient"
    ELSE IF VerifyChecksums /\ ChecksumFails(r) THEN "corrupt"
    ELSE "ok"

\* Mutant: the length is checked before the close is deferred.
ReadBodyLeaking(c) ==
    /\ At(c, "body")
    /\ LET r == call[c].response IN
       /\ IF Verdict(r) = "ok" THEN Done(c, "ok") ELSE Failed(c, Verdict(r))
       /\ IF r.body = "absent" \/ r.length = "outside" THEN UNCHANGED service ELSE Close
    /\ UNCHANGED <<refs, calls>>

\* The body is read, drained and closed on every path.
ReadBody(c) ==
    /\ At(c, "body")
    /\ LET r == call[c].response IN
       /\ IF Verdict(r) = "ok" THEN Done(c, "ok") ELSE Failed(c, Verdict(r))
       /\ IF r.body = "absent" THEN UNCHANGED service ELSE Close
    /\ UNCHANGED <<refs, calls>>

-----------------------------------------------------------------------------
Attempt(c) == RequestCanceled(c) \/ RequestFails(c)

\* Both listings have the same loop.
Listing(c) == NextPage(c) \/ HandBlock(c) \/ PageDone(c)
ListBlocks(c) == PageServed(c) \/ (call[c].op = "list" /\ Listing(c))
ChangedBlocks(c) == ChangedPageServed(c) \/ (call[c].op = "changed" /\ Listing(c))

ReadBlock(c) == BlockServed(c) \/ ReadBody(c)

\* A step of the goroutine itself, once it is in a call.
Step(c) == Attempt(c) \/ SizeServed(c) \/ ListBlocks(c) \/ ChangedBlocks(c) \/ ReadBlock(c)

Invoke(c) ==
    \/ BeginSize(c) \/ BeginInvalid(c)
    \/ \E op \in {"list", "changed"} : BeginListing(c, op)
    \/ \E ref \in refs : BeginRead(c, ref)

AllCallsMade == calls = MaxCalls /\ \A c \in Callers : At(c, "idle")

Next ==
    \/ \E c \in Callers : Invoke(c) \/ Step(c) \/ Return(c) \/ Cancel(c)
    \/ Tick /\ UNCHANGED <<call, refs, calls>>
    \/ AllCallsMade /\ UNCHANGED vars

\* Every call of the API returns, and a goroutine that can run does so.
Spec == Init /\ [][Next]_vars /\ \A c \in Callers : WF_vars(Step(c))

-----------------------------------------------------------------------------
(* Properties                                                              *)

Ref == [block : Written, gen : Nat, expiry : Nat \cup {None}]

Op == {"none", "size", "list", "changed", "read"}
Result == {"none", "ok", "fn", "canceled", "corrupt", "expired", "throttled",
           "transient", "notFound", "permission", "invalid", "unknown"}
Answer == {Adapted(r) : r \in Responses}

Call ==
    [ op : Op, at : {"idle", "loop", "request", "page", "body", "done"},
      canceled : BOOLEAN, result : Result,
      attempt : 0..MaxAttempts - 1,
      next : [start : Nat, issued : 0..MaxTime] \cup {None},
      since : 0..MaxTime, last : Written \cup {-1},
      page : SUBSET Written, bare : SUBSET Written, gen : Nat, expiry : Nat \cup {None}, handed : SUBSET Written,
      ref : Ref \cup {None}, response : Answer \cup {None} ]

TypeOK ==
    /\ now \in 0..MaxTime /\ generation \in Nat /\ emptyPages \in 0..EmptyPages
    /\ validTokens \subseteq [block : Written, gen : Nat, expiry : Nat]
    /\ openBodies \in Nat
    /\ call \in [Callers -> Call]
    /\ refs \subseteq Ref
    /\ calls \in 0..MaxCalls

Ended(c, result) == At(c, "done") /\ call[c].result = result

\* A listing gives its caller every written block once, in order and without a
\* gap, and is a success only when it has: whatever pages are short or empty,
\* whichever requests are repeated, and although other listings begin.
Status(k) ==
    IF k.op \notin {"list", "changed"} THEN "idle"
    ELSE IF k.at # "done" THEN "running"
    ELSE IF k.result = "ok" THEN "ok" ELSE "failed"

Contract(c) ==
    INSTANCE BlockListing WITH status <- Status(call[c]), handed <- call[c].handed

ListingsComplete ==
    /\ \A c \in Callers : Contract(c)!Init
    /\ [][\A c \in Callers : [Contract(c)!Next]_(Contract(c)!vars)]_vars

\* The service is never accused of what it did not do: a listing ends as corrupt
\* only on the first block it had still to give that came without its token,
\* though listings are interleaved and pages fetched again.
Accused(k) ==
    /\ k.op = "changed"
    /\ \E b \in k.bare : \A x \in Written : x < b <=> x \in k.handed

NoFalseAlarm ==
    \A c \in Callers : IsListing(c) /\ Ended(c, "corrupt") => Accused(call[c])

\* A block token that a listing handed out works until it expires, unless
\* another listing has begun since its page was served: a read that ends as
\* invalid or expired has a token superseded or past its time, or the service
\* has other faults that end so.
PastItsTime(ref) == ref.expiry # None => now > ref.expiry
MayFailInvalid == \E e \in Faults : Classify(e) = "invalid"

RefusedForCause ==
    \A c \in Callers : call[c].op = "read" /\ call[c].ref # None =>
        /\ Ended(c, "expired") => PastItsTime(call[c].ref)
        /\ Ended(c, "invalid") => \/ call[c].ref.gen < generation
                                 \/ PastItsTime(call[c].ref)
                                 \/ MayFailInvalid

\* Size takes no token away from a read that is on its way, though it costs a
\* listing of its own: the client "never re-lists a snapshot while tokens from a
\* prior listing are in flight" (docs/OPEN_QUESTIONS.md, Q-001).
Reading(k) == k.op = "read" /\ k.at = "request" /\ Refusal(k.ref) = "none"

NeverRelists ==
    [][\A c, d \in Callers :
          SizeServed(c) /\ Reading(call[d]) => Reading(call[d])']_vars

\* A read that succeeds on a response with a checksum has the block's bytes,
\* also when the response lacks its length or the body was altered.
ReadsExact ==
    \A c \in Callers :
        call[c].op = "read" /\ Ended(c, "ok") /\ call[c].response.checksum # "none" =>
            Data(call[c].response) = "block"

\* No response body is left open: the open ones are those being read, one a
\* goroutine at most, on the error paths and before each retry too.
BodiesClosed ==
    openBodies = Cardinality({c \in Callers :
                     At(c, "body") /\ call[c].response.body # "absent"})

\* Every call ends: pages make progress, and attempts run out.
CallsEnd == \A c \in Callers : ~At(c, "idle") ~> At(c, "done")
=============================================================================
