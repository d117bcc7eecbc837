------------------------------ MODULE HttpCall ------------------------------
(***************************************************************************)
(* The HTTP calls that the service control filter makes to the service     *)
(* control server: class HttpCallImpl, and the HttpCallFactory that owns   *)
(* the calls of one kind (check, quota or report) on one worker thread.    *)
(*                                                                         *)
(* All of this code runs on one thread, so every handler is one action,    *)
(* including the handlers it runs inside itself: a retry is made inside    *)
(* the callback that reports the failure, and Envoy's AsyncClient may call *)
(* back before send() has returned (no healthy host, circuit breaker open) *)
(* in which case send() returns a null request.                            *)
(***************************************************************************)
EXTENDS Naturals, Sequences, FiniteSets

CONSTANTS
  Calls,       \* identities of the HttpCallImpl objects of one factory
  Retries,     \* HttpCallFactory::retries_
  MixedInline  \* TRUE: after an attempt that failed inside send(), the retry
               \* made inside the same handler may still go in flight.
               \* FALSE: then every remaining attempt fails inside send() too

ASSUME RetriesAssumption == Retries \in Nat
ASSUME MixedInlineAssumption == MixedInline \in BOOLEAN

VARIABLES
  object,        \* the HttpCallImpl: "absent", "live", "deleted" (deferredDelete)
  requestCount,  \* request_count_
  retries,       \* retries_, the remaining retry times
  cancelled,     \* cancelled
  request,       \* request_: the number of the attempt it points to, or NULL
  answers,       \* the statuses on_done_ was called with
  inflight,      \* attempts the AsyncClient has in flight (external)
  activeCalls,   \* HttpCallFactory::active_calls_
  destructMode,  \* HttpCallFactory::destruct_mode_
  hasToken       \* token_fn_() returns a non-empty token on this thread

callVars == <<object, requestCount, retries, cancelled, request, answers, inflight>>
vars == <<callVars, activeCalls, destructMode, hasToken>>

NULL == 0
MaxAttempts == Retries + 1
Statuses == {"OK", "INTERNAL", "CANCELLED"}

\* What the AsyncClient can answer: onSuccess with status 200, with a 4xx,
\* with any other status (its own timeout is a 504) or without a status, which
\* makes getResponseStatus throw; or onFailure, a reset stream.
AnswerKinds == {"200", "4xx", "other", "noStatus", "reset"}
Retriable == {"other", "reset"}

TypeOK ==
  /\ object \in [Calls -> {"absent", "live", "deleted"}]
  /\ requestCount \in [Calls -> 0..MaxAttempts]
  /\ retries \in [Calls -> 0..Retries]
  /\ cancelled \in [Calls -> BOOLEAN]
  /\ request \in [Calls -> 0..MaxAttempts]
  /\ answers \in [Calls -> Seq(Statuses)]
  /\ inflight \in [Calls -> SUBSET (1..MaxAttempts)]
  /\ activeCalls \in SUBSET Calls
  /\ destructMode \in BOOLEAN
  /\ hasToken \in BOOLEAN

Init ==
  /\ object = [c \in Calls |-> "absent"]
  /\ requestCount = [c \in Calls |-> 0]
  /\ retries = [c \in Calls |-> Retries]
  /\ cancelled = [c \in Calls |-> FALSE]
  /\ request = [c \in Calls |-> NULL]
  /\ answers = [c \in Calls |-> <<>>]
  /\ inflight = [c \in Calls |-> {}]
  /\ activeCalls = {}
  /\ destructMode = FALSE
  /\ hasToken = FALSE

\* Mutants of Finish: deferredDelete() is forgotten; the call stays in
\* active_calls_.
FinishKeepsObject(c, status) ==
  /\ answers' = [answers EXCEPT ![c] = Append(@, status)]
  /\ request' = [request EXCEPT ![c] = NULL]
  /\ activeCalls' = activeCalls \ {c}
  /\ UNCHANGED object
FinishKeepsActive(c, status) ==
  /\ answers' = [answers EXCEPT ![c] = Append(@, status)]
  /\ object' = [object EXCEPT ![c] = "deleted"]
  /\ request' = [request EXCEPT ![c] = NULL]
  /\ UNCHANGED activeCalls

\* on_done_ wrapped by createHttpCall, then reset() and deferredDelete(): the
\* call leaves active_calls_, its owner gets the status, the object goes.
Finish(c, status) ==
  /\ answers' = [answers EXCEPT ![c] = Append(@, status)]
  /\ object' = [object EXCEPT ![c] = "deleted"]
  /\ request' = [request EXCEPT ![c] = NULL]
  /\ activeCalls' = IF destructMode THEN activeCalls ELSE activeCalls \ {c}

\* Mutant of MissingToken: returns without on_done_ and deferredDelete().
MissingTokenSilent(c, r) ==
  /\ ~hasToken
  /\ requestCount' = [requestCount EXCEPT ![c] = @ + 1]
  /\ retries' = [retries EXCEPT ![c] = r]
  /\ object' = [object EXCEPT ![c] = "live"]
  /\ request' = [request EXCEPT ![c] = NULL]
  /\ activeCalls' = activeCalls \cup {c}
  /\ UNCHANGED answers

\* makeOneCall without a token: no request is sent, the call fails.
MissingToken(c, r) ==
  /\ ~hasToken
  /\ requestCount' = [requestCount EXCEPT ![c] = @ + 1]
  /\ retries' = [retries EXCEPT ![c] = r]
  /\ Finish(c, "INTERNAL")

\* Mutant of StoredRequest: the result of send() is dropped.
StoredRequestDropped(k, n) == NULL

\* What request_ holds once attempt n is in flight and the k attempts before it
\* have failed inside send(): unwinding a failed attempt assigns the null that
\* its own send() returned, over the pointer the retry inside it had stored.
StoredRequest(k, n) == IF k = 0 THEN n ELSE NULL

\* makeOneCall and the retries made inside it, entered with `left` attempts of
\* the call in flight and r retries remaining.
MakeOneCall(c, left, r) ==
  \/ /\ MissingToken(c, r)
     /\ inflight' = [inflight EXCEPT ![c] = left]
  \* k attempts fail inside send(), then one goes in flight.
  \/ \E k \in 0..r :
       /\ hasToken
       /\ k = 0 \/ MixedInline
       /\ LET n == requestCount[c] + k + 1 IN
            /\ requestCount' = [requestCount EXCEPT ![c] = n]
            /\ inflight' = [inflight EXCEPT ![c] = left \cup {n}]
            /\ request' = [request EXCEPT ![c] = StoredRequest(k, n)]
       /\ retries' = [retries EXCEPT ![c] = r - k]
       /\ object' = [object EXCEPT ![c] = "live"]
       /\ activeCalls' = activeCalls \cup {c}
       /\ UNCHANGED answers
  \* Every attempt that is left fails inside send().
  \/ /\ hasToken
     /\ requestCount' = [requestCount EXCEPT ![c] = @ + r + 1]
     /\ retries' = [retries EXCEPT ![c] = 0]
     /\ inflight' = [inflight EXCEPT ![c] = left]
     /\ Finish(c, "INTERNAL")

\* HttpCallFactory::createHttpCall followed by HttpCall::call, which every
\* transport function of ClientCache runs back to back.
Call(c) ==
  /\ object[c] = "absent"
  /\ ~destructMode
  /\ MakeOneCall(c, {}, retries[c])
  /\ UNCHANGED <<cancelled, destructMode, hasToken>>

\* attemptRetry: neither after a 4xx nor when no retry remains. (An answer
\* without a status does not come here: the exception skips it.)
MayRetry(c, kind) == kind \in Retriable /\ retries[c] > 0

\* Mutant of RetriesAfter: retries_ is not decremented.
RetriesAfterKept(c) == retries[c]

RetriesAfter(c) == retries[c] - 1

\* onSuccess and onFailure for attempt n of call c, attemptRetry included.
OnAnswer(c, n, kind) ==
  /\ object[c] = "live"
  /\ n \in inflight[c]
  /\ LET left == inflight[c] \ {n} IN
       \/ /\ MayRetry(c, kind)
          /\ MakeOneCall(c, left, RetriesAfter(c))
       \/ /\ ~MayRetry(c, kind)
          /\ inflight' = [inflight EXCEPT ![c] = left]
          /\ Finish(c, IF kind = "200" THEN "OK" ELSE "INTERNAL")
          /\ UNCHANGED <<requestCount, retries>>
  /\ UNCHANGED <<cancelled, destructMode, hasToken>>

\* HttpCall::cancel, called by the owner of the call through its CancelFunc.
\* Only the attempt request_ points to is cancelled at the AsyncClient.
Cancel(c) ==
  /\ object[c] = "live"
  /\ ~cancelled[c]
  /\ cancelled' = [cancelled EXCEPT ![c] = TRUE]
  /\ inflight' = [inflight EXCEPT ![c] = @ \ {request[c]}]
  /\ Finish(c, "CANCELLED")
  /\ UNCHANGED <<requestCount, retries, destructMode, hasToken>>

\* The loop of the destructor over the calls in `hit`: cancel() of each.
CancelAll(hit) ==
  /\ cancelled' = [c \in Calls |-> cancelled[c] \/ c \in hit]
  /\ inflight' = [c \in Calls |->
       IF c \in hit THEN inflight[c] \ {request[c]} ELSE inflight[c]]
  /\ request' = [c \in Calls |-> IF c \in hit THEN NULL ELSE request[c]]
  /\ answers' = [c \in Calls |->
       IF c \in hit THEN Append(answers[c], "CANCELLED") ELSE answers[c]]
  /\ object' = [c \in Calls |-> IF c \in hit THEN "deleted" ELSE object[c]]

\* Mutants of DestroyFactory: the loop misses a call; there is no loop, the
\* calls go with the factory without an answer.
DestroyFactoryMissesOne ==
  /\ ~destructMode
  /\ destructMode' = TRUE
  /\ \E c \in Calls : CancelAll(activeCalls \ {c})
  /\ UNCHANGED <<requestCount, retries, activeCalls, hasToken>>
DestroyFactorySilent ==
  /\ ~destructMode
  /\ destructMode' = TRUE
  /\ object' = [c \in Calls |-> IF c \in activeCalls THEN "deleted" ELSE object[c]]
  /\ inflight' = [c \in Calls |-> {}]
  /\ UNCHANGED <<cancelled, request, answers, requestCount, retries, activeCalls, hasToken>>

\* ~HttpCallFactory: cancels every call still in active_calls_. The callbacks
\* leave active_calls_ alone, the loop is iterating over it.
DestroyFactory ==
  /\ ~destructMode
  /\ destructMode' = TRUE
  /\ CancelAll({c \in activeCalls : ~cancelled[c]})
  /\ UNCHANGED <<requestCount, retries, activeCalls, hasToken>>

\* A token subscriber publishes a token on this thread. The parser of the
\* token response accepts an empty string.
SetToken(b) ==
  /\ hasToken' = b
  /\ UNCHANGED <<callVars, activeCalls, destructMode>>

Next ==
  \/ \E c \in Calls :
       \/ Call(c)
       \/ \E n \in inflight[c], kind \in AnswerKinds : OnAnswer(c, n, kind)
       \/ Cancel(c)
  \/ DestroyFactory
  \/ \E b \in BOOLEAN : SetToken(b)

\* makeOneCall sets a timeout on every request, so the AsyncClient answers
\* each one in the end. Nothing makes owners cancel or tokens change.
Fairness ==
  \A c \in Calls :
    WF_vars(\E n \in inflight[c], kind \in AnswerKinds : OnAnswer(c, n, kind))

Spec == Init /\ [][Next]_vars /\ Fairness

-----------------------------------------------------------------------------
(* Properties *)

\* The owner of a call is answered exactly once: on_done_ has run once when the
\* object is given to deferredDelete, never before, and never again, whichever
\* of an answer, a failed retry, a missing token, cancel() or the destructor of
\* the factory finishes the call.
AnsweredOnce ==
  \A c \in Calls : Len(answers[c]) = IF object[c] = "deleted" THEN 1 ELSE 0

\* A finished call has nothing in flight: no callback of the AsyncClient can
\* reach the deleted object ("Cancel any in-flight request.").
NothingInFlightAfterDone ==
  \A c \in Calls : object[c] = "deleted" => inflight[c] = {}

\* While a call is live exactly one attempt is in flight and request_ points to
\* it, so that cancel() always reaches the attempt that is in flight.
RequestTracksAttempt ==
  \A c \in Calls : object[c] = "live" => inflight[c] = {request[c]}

\* The attempts made and the retries still allowed always add up to the
\* configured retries + 1: a call sends at most that many requests, and gives
\* none of them away, however its attempts fail.
AttemptsConserved ==
  \A c \in Calls :
    object[c] # "absent" => requestCount[c] + retries[c] = MaxAttempts

\* active_calls_ holds exactly the calls that are not finished, so that the
\* destructor of the factory neither misses a call nor cancels a deleted one.
ActiveCallsExact ==
  ~destructMode => activeCalls = {c \in Calls : object[c] = "live"}

\* After the destructor of the factory no call is left waiting.
DestructorFinishesAll ==
  destructMode => \A c \in Calls : object[c] # "live"

\* Every call is answered in the end: neither the retries nor the ways a retry
\* can fail leave a call without an answer.
EveryCallAnswered ==
  \A c \in Calls : object[c] = "live" ~> answers[c] # <<>>

-----------------------------------------------------------------------------
(* What the owner of a call sees. *)

Last(s) == s[Len(s)]

Contract == INSTANCE CallContract WITH
  result <- [c \in Calls |->
               IF answers[c] # <<>> THEN Last(answers[c])
               ELSE IF object[c] = "absent" THEN "unasked" ELSE "waiting"],
  closed <- destructMode

\* HttpCallImpl and its factory keep the contract of http_call.h: whatever the
\* attempts, retries and tokens do, a call is answered once and for all, cancel
\* and the destructor of the factory answer what still waits.
ImplementsContract == Contract!Spec

=============================================================================
