--------------------------- MODULE HttpCallProofs ---------------------------
(***************************************************************************)
(* Proofs about HttpCall, for every set of calls and every number of       *)
(* retries.                                                                *)
(***************************************************************************)
EXTENDS HttpCall, TLAPS

\* A call that was not made is as the constructor leaves it.
AbsentIsFresh ==
  \A c \in Calls : object[c] = "absent" =>
    /\ requestCount[c] = 0
    /\ retries[c] = Retries
    /\ inflight[c] = {}
    /\ ~cancelled[c]

\* A live call was not cancelled: cancel() would have deleted it.
LiveNotCancelled ==
  \A c \in Calls : object[c] = "live" => ~cancelled[c]

\* The inductive invariant: what holds whatever fails inside send().
IInv ==
  /\ TypeOK
  /\ AbsentIsFresh
  /\ LiveNotCancelled
  /\ AnsweredOnce
  /\ AttemptsConserved
  /\ ActiveCallsExact
  /\ DestructorFinishesAll

USE RetriesAssumption, MixedInlineAssumption

\* on_done_ adds one answer to the call it finishes, and to no other.
LEMMA FinishAnswersOnce ==
  ASSUME TypeOK, AnsweredOnce,
         NEW c \in Calls, NEW status \in Statuses, object[c] # "deleted",
         Finish(c, status)
  PROVE  AnsweredOnce'
<1>1. answers[c] \in Seq(Statuses) /\ Len(answers[c]) = 0
  BY DEF TypeOK, AnsweredOnce
<1>2. Len(Append(answers[c], status)) = 1
  BY <1>1
<1>3. ASSUME NEW d \in Calls
      PROVE  Len(answers'[d]) = IF object'[d] = "deleted" THEN 1 ELSE 0
  <2>1. CASE d = c
    BY <2>1, <1>2 DEF Finish, TypeOK
  <2>2. CASE d # c
    BY <2>2 DEF Finish, TypeOK, AnsweredOnce
  <2> QED BY <2>1, <2>2
<1> QED BY <1>3 DEF AnsweredOnce

\* A step of a retry or of a first attempt keeps the invariant.
LEMMA MakeOneCallKeepsIInv ==
  ASSUME IInv, ~destructMode,
         NEW c \in Calls, NEW left \in SUBSET (1..MaxAttempts), NEW r \in 0..Retries,
         requestCount[c] + r + 1 = MaxAttempts,
         ~cancelled[c], object[c] # "deleted",
         MakeOneCall(c, left, r),
         UNCHANGED <<cancelled, destructMode, hasToken>>
  PROVE  IInv'
<1>0. TypeOK /\ AbsentIsFresh /\ LiveNotCancelled /\ AnsweredOnce /\ AttemptsConserved
      /\ ActiveCallsExact /\ DestructorFinishesAll
  BY DEF IInv
<1>t. /\ requestCount[c] \in 0..MaxAttempts /\ MaxAttempts = Retries + 1 /\ MaxAttempts \in Nat
      /\ requestCount \in [Calls -> 0..MaxAttempts] /\ retries \in [Calls -> 0..Retries]
      /\ inflight \in [Calls -> SUBSET (1..MaxAttempts)]
  BY <1>0 DEF TypeOK, MaxAttempts
<1>1. CASE /\ MissingToken(c, r)
           /\ inflight' = [inflight EXCEPT ![c] = left]
  <2>1. TypeOK'
    <3>1. requestCount' \in [Calls -> 0..MaxAttempts] /\ retries' \in [Calls -> 0..Retries]
      BY <1>t, <1>1 DEF MissingToken
    <3>2. inflight' \in [Calls -> SUBSET (1..MaxAttempts)]
      BY <1>t, <1>1
    <3>3. /\ answers' \in [Calls -> Seq(Statuses)]
          /\ object' \in [Calls -> {"absent", "live", "deleted"}]
      BY <1>0, <1>1 DEF MissingToken, Finish, TypeOK, Statuses
    <3>4. request' \in [Calls -> 0..MaxAttempts] /\ activeCalls' \in SUBSET Calls
      BY <1>0, <1>1 DEF MissingToken, Finish, TypeOK, NULL, MaxAttempts
    <3> QED BY <1>0, <3>1, <3>2, <3>3, <3>4 DEF TypeOK
  <2>2. AbsentIsFresh' /\ LiveNotCancelled'
    BY <1>0, <1>1 DEF MissingToken, TypeOK, Finish, AbsentIsFresh, LiveNotCancelled
  <2>3. AnsweredOnce'
    BY <1>0, <1>1, FinishAnswersOnce DEF MissingToken, Statuses
  <2>4. AttemptsConserved'
    <3>0. requestCount'[c] + retries'[c] = MaxAttempts
      BY <1>t, <1>1 DEF MissingToken
    <3>1. \A d \in Calls \ {c} : object'[d] = object[d]
      BY <1>0, <1>1 DEF MissingToken, Finish, TypeOK
    <3>2. \A d \in Calls \ {c} : requestCount'[d] = requestCount[d] /\ retries'[d] = retries[d]
      BY <1>t, <1>1 DEF MissingToken
    <3> QED BY <1>0, <3>0, <3>1, <3>2 DEF AttemptsConserved
  <2>5. ActiveCallsExact' /\ DestructorFinishesAll'
    BY <1>0, <1>1 DEF MissingToken, TypeOK, Finish, ActiveCallsExact, DestructorFinishesAll
  <2> QED BY <2>1, <2>2, <2>3, <2>4, <2>5 DEF IInv
<1>2. ASSUME NEW k \in 0..r,
             /\ hasToken
             /\ k = 0 \/ MixedInline
             /\ LET n == requestCount[c] + k + 1 IN
                  /\ requestCount' = [requestCount EXCEPT ![c] = n]
                  /\ inflight' = [inflight EXCEPT ![c] = left \cup {n}]
                  /\ request' = [request EXCEPT ![c] = StoredRequest(k, n)]
             /\ retries' = [retries EXCEPT ![c] = r - k]
             /\ object' = [object EXCEPT ![c] = "live"]
             /\ activeCalls' = activeCalls \cup {c}
             /\ UNCHANGED answers
      PROVE  IInv'
  <2> DEFINE n == requestCount[c] + k + 1
  <2>0. n \in 1..MaxAttempts /\ n \in 0..MaxAttempts /\ r - k \in 0..Retries
    BY <1>t
  <2>a. n + (r - k) = MaxAttempts
    BY <1>t
  <2>b. /\ requestCount' = [requestCount EXCEPT ![c] = n]
        /\ inflight' = [inflight EXCEPT ![c] = left \cup {n}]
        /\ request' = [request EXCEPT ![c] = StoredRequest(k, n)]
    BY <1>2
  <2> HIDE DEF n
  <2>1. TypeOK'
    <3>1. requestCount' \in [Calls -> 0..MaxAttempts] /\ retries' \in [Calls -> 0..Retries]
      BY <1>2, <1>t, <2>0, <2>b
    <3>2. inflight' \in [Calls -> SUBSET (1..MaxAttempts)]
      BY <1>t, <2>0, <2>b
    <3>3. StoredRequest(k, n) \in 0..MaxAttempts
      BY <1>t, <2>0 DEF StoredRequest, NULL
    <3>4. request' \in [Calls -> 0..MaxAttempts]
      BY <1>0, <2>b, <3>3 DEF TypeOK
    <3> QED BY <1>0, <1>2, <3>1, <3>2, <3>4 DEF TypeOK
  <2>2. AbsentIsFresh' /\ LiveNotCancelled'
    <3>1. object'[c] = "live" /\ \A d \in Calls \ {c} : object'[d] = object[d]
      BY <1>0, <1>2 DEF TypeOK
    <3>2. \A d \in Calls \ {c} :
            /\ requestCount'[d] = requestCount[d] /\ retries'[d] = retries[d]
            /\ inflight'[d] = inflight[d]
      BY <1>2, <1>t, <2>b
    <3>3. AbsentIsFresh'
      BY <1>0, <3>1, <3>2 DEF AbsentIsFresh
    <3> QED BY <1>0, <3>1, <3>3 DEF LiveNotCancelled
  <2>3. AnsweredOnce'
    BY <1>0, <1>2 DEF TypeOK, AnsweredOnce
  <2>4. AttemptsConserved'
    <3>1. requestCount'[c] = n /\ retries'[c] = r - k
      BY <1>2, <1>t, <2>b
    <3>0. requestCount'[c] + retries'[c] = MaxAttempts
      BY <2>a, <3>1
    <3>2. \A d \in Calls \ {c} : requestCount'[d] = requestCount[d] /\ retries'[d] = retries[d]
      BY <1>2, <1>t, <2>b
    <3>3. \A d \in Calls \ {c} : object'[d] = object[d]
      BY <1>0, <1>2 DEF TypeOK
    <3>4. ASSUME NEW d \in Calls, object'[d] # "absent"
          PROVE  requestCount'[d] + retries'[d] = MaxAttempts
      BY <1>0, <3>0, <3>2, <3>3, <3>4 DEF AttemptsConserved
    <3> QED BY <3>4 DEF AttemptsConserved, MaxAttempts
  <2>5. ActiveCallsExact' /\ DestructorFinishesAll'
    BY <1>0, <1>2 DEF TypeOK, ActiveCallsExact, DestructorFinishesAll
  <2> QED BY <2>1, <2>2, <2>3, <2>4, <2>5 DEF IInv
<1>3. CASE /\ hasToken
           /\ requestCount' = [requestCount EXCEPT ![c] = @ + r + 1]
           /\ retries' = [retries EXCEPT ![c] = 0]
           /\ inflight' = [inflight EXCEPT ![c] = left]
           /\ Finish(c, "INTERNAL")
  <2>1. TypeOK'
    <3>1. requestCount' \in [Calls -> 0..MaxAttempts] /\ retries' \in [Calls -> 0..Retries]
      BY <1>t, <1>3
    <3>2. inflight' \in [Calls -> SUBSET (1..MaxAttempts)]
      BY <1>t, <1>3
    <3>3. /\ answers' \in [Calls -> Seq(Statuses)]
          /\ object' \in [Calls -> {"absent", "live", "deleted"}]
      BY <1>0, <1>3 DEF Finish, TypeOK, Statuses
    <3>4. request' \in [Calls -> 0..MaxAttempts] /\ activeCalls' \in SUBSET Calls
      BY <1>0, <1>3 DEF Finish, TypeOK, NULL, MaxAttempts
    <3> QED BY <1>0, <3>1, <3>2, <3>3, <3>4 DEF TypeOK
  <2>2. AbsentIsFresh' /\ LiveNotCancelled'
    BY <1>0, <1>3 DEF TypeOK, Finish, AbsentIsFresh, LiveNotCancelled
  <2>3. AnsweredOnce'
    BY <1>0, <1>3, FinishAnswersOnce DEF Statuses
  <2>4. AttemptsConserved'
    <3>0. requestCount'[c] + retries'[c] = MaxAttempts
      BY <1>t, <1>3
    <3>1. \A d \in Calls \ {c} : object'[d] = object[d]
      BY <1>0, <1>3 DEF Finish, TypeOK
    <3>2. \A d \in Calls \ {c} : requestCount'[d] = requestCount[d] /\ retries'[d] = retries[d]
      BY <1>t, <1>3
    <3> QED BY <1>0, <3>0, <3>1, <3>2 DEF AttemptsConserved
  <2>5. ActiveCallsExact' /\ DestructorFinishesAll'
    BY <1>0, <1>3 DEF TypeOK, Finish, ActiveCallsExact, DestructorFinishesAll
  <2> QED BY <2>1, <2>2, <2>3, <2>4, <2>5 DEF IInv
<1> QED BY <1>1, <1>2, <1>3 DEF MakeOneCall

\* Every step of the calls and of their factory keeps the invariant.
LEMMA NextKeepsIInv == IInv /\ [Next]_vars => IInv'
<1> SUFFICES ASSUME IInv, [Next]_vars PROVE IInv'
  OBVIOUS
<1> USE DEF IInv
<1>1. ASSUME NEW c \in Calls, Call(c) PROVE IInv'
  <2>1. requestCount[c] + retries[c] + 1 = MaxAttempts /\ ~destructMode
    BY <1>1 DEF Call, AbsentIsFresh, TypeOK, MaxAttempts
  <2>2. retries[c] \in 0..Retries /\ {} \in SUBSET (1..MaxAttempts)
    BY DEF TypeOK
  <2>3. ~cancelled[c] /\ object[c] # "deleted"
    BY <1>1 DEF Call, AbsentIsFresh
  <2> QED BY <1>1, <2>1, <2>2, <2>3, MakeOneCallKeepsIInv DEF Call
<1>2. ASSUME NEW c \in Calls, NEW n \in inflight[c], NEW kind \in AnswerKinds,
             OnAnswer(c, n, kind)
      PROVE  IInv'
  <2> DEFINE left == inflight[c] \ {n}
  <2>1. /\ left \in SUBSET (1..MaxAttempts)
        /\ object[c] = "live" /\ ~cancelled[c] /\ ~destructMode
    BY <1>2 DEF OnAnswer, TypeOK, LiveNotCancelled, DestructorFinishesAll
  <2>2. CASE MayRetry(c, kind) /\ MakeOneCall(c, left, RetriesAfter(c))
    <3>0. retries[c] \in 0..Retries /\ requestCount[c] \in 0..MaxAttempts
      BY DEF TypeOK
    <3>1. requestCount[c] + retries[c] = MaxAttempts
      BY <2>1 DEF AttemptsConserved
    <3>2. RetriesAfter(c) \in 0..Retries /\ requestCount[c] + RetriesAfter(c) + 1 = MaxAttempts
      BY <2>2, <3>0, <3>1 DEF MayRetry, RetriesAfter, MaxAttempts
    <3> HIDE DEF left
    <3> QED BY <1>2, <2>1, <2>2, <3>2, MakeOneCallKeepsIInv DEF OnAnswer
  <2>3. CASE /\ inflight' = [inflight EXCEPT ![c] = left]
             /\ Finish(c, IF kind = "200" THEN "OK" ELSE "INTERNAL")
             /\ UNCHANGED <<requestCount, retries>>
    <3>0. UNCHANGED <<cancelled, destructMode, hasToken>>
      BY <1>2 DEF OnAnswer
    <3>1. TypeOK'
      BY <2>1, <2>3, <3>0 DEF TypeOK, Finish, Statuses, NULL, MaxAttempts
    <3>2. AbsentIsFresh' /\ LiveNotCancelled'
      BY <2>1, <2>3, <3>0 DEF TypeOK, Finish, AbsentIsFresh, LiveNotCancelled
    <3>3. AnsweredOnce'
      BY <2>1, <2>3, FinishAnswersOnce DEF Statuses
    <3>4. AttemptsConserved'
      BY <2>1, <2>3 DEF TypeOK, Finish, AttemptsConserved
    <3>5. ActiveCallsExact' /\ DestructorFinishesAll'
      BY <2>1, <2>3, <3>0 DEF TypeOK, Finish, ActiveCallsExact, DestructorFinishesAll
    <3> QED BY <3>1, <3>2, <3>3, <3>4, <3>5
  <2> QED BY <1>2, <2>2, <2>3 DEF OnAnswer
<1>3. ASSUME NEW c \in Calls, Cancel(c) PROVE IInv'
  <2>1. TypeOK'
    BY <1>3 DEF Cancel, TypeOK, Finish, Statuses, NULL, MaxAttempts
  <2>2. AbsentIsFresh' /\ LiveNotCancelled'
    BY <1>3 DEF Cancel, TypeOK, Finish, AbsentIsFresh, LiveNotCancelled
  <2>3. AnsweredOnce'
    BY <1>3, FinishAnswersOnce DEF Cancel, Statuses
  <2>4. AttemptsConserved'
    BY <1>3 DEF Cancel, TypeOK, Finish, AttemptsConserved
  <2>5. ActiveCallsExact' /\ DestructorFinishesAll'
    BY <1>3 DEF Cancel, TypeOK, Finish, ActiveCallsExact, DestructorFinishesAll
  <2> QED BY <2>1, <2>2, <2>3, <2>4, <2>5
<1>4. CASE DestroyFactory
  <2> DEFINE hit == {c \in activeCalls : ~cancelled[c]}
  <2>0. hit = {c \in Calls : object[c] = "live"}
    BY <1>4 DEF DestroyFactory, ActiveCallsExact, LiveNotCancelled
  <2>1. TypeOK'
    BY <1>4 DEF DestroyFactory, CancelAll, TypeOK, Statuses, NULL, MaxAttempts
  <2>2. AbsentIsFresh' /\ LiveNotCancelled'
    BY <1>4, <2>0 DEF DestroyFactory, CancelAll, TypeOK, AbsentIsFresh, LiveNotCancelled
  <2>3. AnsweredOnce'
    <3>1. ASSUME NEW c \in Calls
          PROVE  Len(answers'[c]) = IF object'[c] = "deleted" THEN 1 ELSE 0
      <4>1. answers[c] \in Seq(Statuses) /\ Len(Append(answers[c], "CANCELLED")) = Len(answers[c]) + 1
        BY DEF TypeOK
      <4>2. Len(answers[c]) = IF object[c] = "deleted" THEN 1 ELSE 0
        BY DEF AnsweredOnce
      <4>3. /\ answers'[c] = IF c \in hit THEN Append(answers[c], "CANCELLED") ELSE answers[c]
            /\ object'[c] = IF c \in hit THEN "deleted" ELSE object[c]
        BY <1>4 DEF DestroyFactory, CancelAll
      <4> HIDE DEF hit
      <4> QED BY <2>0, <4>1, <4>2, <4>3
    <3> QED BY <3>1 DEF AnsweredOnce
  <2>4. AttemptsConserved'
    BY <1>4, <2>0 DEF DestroyFactory, CancelAll, TypeOK, AttemptsConserved
  <2>5. ActiveCallsExact' /\ DestructorFinishesAll'
    BY <1>4, <2>0 DEF DestroyFactory, CancelAll, TypeOK, ActiveCallsExact, DestructorFinishesAll
  <2> QED BY <2>1, <2>2, <2>3, <2>4, <2>5
<1>5. ASSUME NEW b \in BOOLEAN, SetToken(b) PROVE IInv'
  BY <1>5 DEF SetToken, callVars, TypeOK, AbsentIsFresh, LiveNotCancelled, AnsweredOnce,
     AttemptsConserved, ActiveCallsExact, DestructorFinishesAll
<1>6. CASE UNCHANGED vars
  BY <1>6 DEF vars, callVars, TypeOK, AbsentIsFresh, LiveNotCancelled, AnsweredOnce,
     AttemptsConserved, ActiveCallsExact, DestructorFinishesAll
<1> QED BY <1>1, <1>2, <1>3, <1>4, <1>5, <1>6 DEF Next

\* The initial state of a factory satisfies the invariant.
LEMMA InitIInv == Init => IInv
<1> SUFFICES ASSUME Init PROVE IInv
  OBVIOUS
<1>1. TypeOK
  <2>1. 0 \in 0..MaxAttempts /\ Retries \in 0..Retries /\ NULL = 0
    BY DEF MaxAttempts, NULL
  <2>2. <<>> \in Seq(Statuses)
    OBVIOUS
  <2> QED BY <2>1, <2>2 DEF Init, TypeOK
<1>2. AbsentIsFresh /\ LiveNotCancelled /\ AttemptsConserved
  BY DEF Init, AbsentIsFresh, LiveNotCancelled, AttemptsConserved
<1>3. AnsweredOnce
  BY DEF Init, AnsweredOnce
<1>4. ActiveCallsExact /\ DestructorFinishesAll
  BY DEF Init, ActiveCallsExact, DestructorFinishesAll
<1> QED BY <1>1, <1>2, <1>3, <1>4 DEF IInv

\* The invariant holds in every reachable state.
LEMMA SpecIInv == Spec => []IInv
BY InitIInv, NextKeepsIInv, PTL DEF Spec

\* The variables keep their types: in particular request_count_ never passes
\* retries + 1 and retries_, which is unsigned, is never decremented below 0.
THEOREM TypeCorrect == Spec => []TypeOK
<1>1. IInv => TypeOK
  BY DEF IInv
<1> QED BY <1>1, SpecIInv, PTL

\* on_done_ runs exactly once for every call, for any number of calls and retries
\* and whatever fails in send().
THEOREM CallsAnsweredOnce == Spec => []AnsweredOnce
<1>1. IInv => AnsweredOnce
  BY DEF IInv
<1> QED BY <1>1, SpecIInv, PTL

\* The attempts of a call are conserved: request_count_ and retries_ add up to what
\* was configured, whatever fails in send() or later.
THEOREM AttemptsAddUp == Spec => []AttemptsConserved
<1>1. IInv => AttemptsConserved
  BY DEF IInv
<1> QED BY <1>1, SpecIInv, PTL

\* active_calls_ is exact until the destructor runs.
THEOREM FactoryOwnsCalls == Spec => []ActiveCallsExact
<1>1. IInv => ActiveCallsExact
  BY DEF IInv
<1> QED BY <1>1, SpecIInv, PTL

\* The destructor of the factory leaves no call waiting.
THEOREM DestructorLeavesNone == Spec => []DestructorFinishesAll
<1>1. IInv => DestructorFinishesAll
  BY DEF IInv
<1> QED BY <1>1, SpecIInv, PTL

-----------------------------------------------------------------------------
(* What needs the inline failures of send() not to be followed by a retry   *)
(* that goes in flight.                                                     *)

\* request_ is exact for a live call and nothing of a finished call is in flight.
Tracked == RequestTracksAttempt /\ NothingInFlightAfterDone

\* Every step keeps request_ exact, if retries do not go in flight inside send().
LEMMA NextKeepsTracked ==
  ASSUME ~MixedInline, IInv, Tracked, [Next]_vars PROVE Tracked'
<1> USE DEF IInv, Tracked
<1>1. ASSUME NEW c \in Calls, NEW left, NEW r \in 0..Retries,
             left = {}, MakeOneCall(c, left, r)
      PROVE  Tracked'
  <2>1. CASE Finish(c, "INTERNAL") /\ inflight' = [inflight EXCEPT ![c] = left]
    BY <1>1, <2>1 DEF TypeOK, Finish, RequestTracksAttempt, NothingInFlightAfterDone
  <2>2. ASSUME NEW n, inflight' = [inflight EXCEPT ![c] = left \cup {n}],
               request' = [request EXCEPT ![c] = n],
               object' = [object EXCEPT ![c] = "live"]
        PROVE  Tracked'
    BY <1>1, <2>2 DEF TypeOK, RequestTracksAttempt, NothingInFlightAfterDone
  <2> QED BY <1>1, <2>1, <2>2 DEF MakeOneCall, MissingToken, StoredRequest
<1>2. ASSUME NEW c \in Calls, Call(c) PROVE Tracked'
  BY <1>1, <1>2 DEF Call, TypeOK
<1>3. ASSUME NEW c \in Calls, NEW n \in inflight[c], NEW kind \in AnswerKinds,
             OnAnswer(c, n, kind)
      PROVE  Tracked'
  <2>1. inflight[c] \ {n} = {}
    BY <1>3 DEF OnAnswer, RequestTracksAttempt
  <2>2. MayRetry(c, kind) => RetriesAfter(c) \in 0..Retries
    BY DEF TypeOK, MayRetry, RetriesAfter
  <2>3. ASSUME NEW status, Finish(c, status), inflight' = [inflight EXCEPT ![c] = {}]
        PROVE  Tracked'
    BY <2>3 DEF TypeOK, Finish, RequestTracksAttempt, NothingInFlightAfterDone
  <2> QED BY <1>1, <1>3, <2>1, <2>2, <2>3 DEF OnAnswer
<1>4. ASSUME NEW c \in Calls, Cancel(c) PROVE Tracked'
  BY <1>4 DEF Cancel, Finish, TypeOK, RequestTracksAttempt, NothingInFlightAfterDone
<1>5. CASE DestroyFactory
  <2>1. {c \in activeCalls : ~cancelled[c]} = {c \in Calls : object[c] = "live"}
    BY <1>5 DEF DestroyFactory, ActiveCallsExact, LiveNotCancelled
  <2> QED BY <1>5, <2>1 DEF DestroyFactory, CancelAll, TypeOK, RequestTracksAttempt, NothingInFlightAfterDone
<1>6. CASE UNCHANGED <<object, request, inflight>>
  BY <1>6 DEF RequestTracksAttempt, NothingInFlightAfterDone
<1> QED BY <1>2, <1>3, <1>4, <1>5, <1>6 DEF Next, SetToken, vars, callVars

\* cancel() always reaches the attempt in flight and a deleted call is never
\* called back, if an attempt that fails inside send() is not followed by a
\* retry that goes in flight inside the same handler.
THEOREM CancelReachesAttempt ==
  ASSUME ~MixedInline
  PROVE  Spec => [](RequestTracksAttempt /\ NothingInFlightAfterDone)
<1>1. Init => Tracked
  BY DEF Init, Tracked, RequestTracksAttempt, NothingInFlightAfterDone
<1>2. IInv /\ Tracked /\ [Next]_vars => Tracked'
  BY NextKeepsTracked
<1>3. Tracked => RequestTracksAttempt /\ NothingInFlightAfterDone
  BY DEF Tracked
<1> QED BY <1>1, <1>2, <1>3, SpecIInv, PTL DEF Spec

-----------------------------------------------------------------------------
(* HttpCall implements CallContract.                                        *)

\* The result of a call that its owner knows of.
Known(c) ==
  IF answers[c] # <<>> THEN Last(answers[c])
  ELSE IF object[c] = "absent" THEN "unasked" ELSE "waiting"

\* What the owner knows is settled by whether the object is deleted.
LEMMA KnownCases ==
  ASSUME IInv, NEW c \in Calls
  PROVE  /\ object[c] = "absent" => Known(c) = "unasked"
         /\ object[c] = "live" => Known(c) = "waiting"
         /\ object[c] = "deleted" => Known(c) \in Statuses
<1>1. answers[c] \in Seq(Statuses) /\ object[c] \in {"absent", "live", "deleted"}
  BY DEF IInv, TypeOK
<1>2. Len(answers[c]) = IF object[c] = "deleted" THEN 1 ELSE 0
  BY DEF IInv, AnsweredOnce
<1>3. CASE object[c] = "deleted"
  <2>1. Len(answers[c]) = 1 /\ answers[c] # <<>> /\ answers[c][1] \in Statuses
    BY <1>1, <1>2, <1>3
  <2> QED BY <1>3, <2>1 DEF Known, Last
<1>4. CASE object[c] # "deleted"
  <2>1. answers[c] = <<>>
    BY <1>1, <1>2, <1>4
  <2> QED BY <1>4, <2>1 DEF Known
<1> QED BY <1>3, <1>4

\* on_done_ makes its status what the owner knows.
LEMMA FinishMakesKnown ==
  ASSUME IInv, NEW c \in Calls, NEW status \in Statuses, object[c] # "deleted",
         Finish(c, status)
  PROVE  Known(c)' = status /\ \A d \in Calls \ {c} : Known(d)' = Known(d)
<1>1. answers[c] \in Seq(Statuses) /\ Len(answers[c]) = 0
  BY DEF IInv, TypeOK, AnsweredOnce
<1>2. answers'[c] = Append(answers[c], status)
  BY DEF Finish, IInv, TypeOK
<1>3. Len(answers'[c]) = 1 /\ answers'[c][1] = status /\ answers'[c] # <<>>
  BY <1>1, <1>2
<1>4. Known(c)' = status
  BY <1>3 DEF Known, Last
<1>5. \A d \in Calls \ {c} : answers'[d] = answers[d] /\ object'[d] = object[d]
  BY DEF Finish, IInv, TypeOK
<1> QED BY <1>4, <1>5 DEF Known

\* The variable of the contract.
result == [c \in Calls |-> Known(c)]

\* A step that changes what is known of one call alone.
LEMMA ResultOfOne ==
  ASSUME NEW c \in Calls, NEW s, Known(c)' = s, \A d \in Calls \ {c} : Known(d)' = Known(d)
  PROVE  result' = [result EXCEPT ![c] = s]
<1>1. [result EXCEPT ![c] = s] = [d \in Calls |-> IF d = c THEN s ELSE Known(d)]
  BY DEF result
<1>2. \A d \in Calls : Known(d)' = IF d = c THEN s ELSE Known(d)
  OBVIOUS
<1>3. result' = [d \in Calls |-> Known(d)']
  BY DEF result
<1> QED BY <1>1, <1>2, <1>3

\* Making a call, read over result and destructMode, is the Ask of the contract.
LEMMA MappedAsk ==
  ASSUME NEW c \in Calls, NEW s \in {"waiting", "INTERNAL"}, Known(c) = "unasked",
         ~destructMode, result' = [result EXCEPT ![c] = s], UNCHANGED destructMode
  PROVE  Contract!Next
<1>1. Contract!Ask(c)
  BY DEF Contract!Ask, result, Known
<1> QED BY <1>1 DEF Contract!Next

\* Running on_done_ is its Answer.
LEMMA MappedAnswer ==
  ASSUME NEW c \in Calls, NEW s \in Statuses, Known(c) = "waiting",
         result' = [result EXCEPT ![c] = s], UNCHANGED destructMode
  PROVE  Contract!Next
<1>1. Contract!Answer(c)
  BY DEF Contract!Answer, result, Known, Statuses
<1> QED BY <1>1 DEF Contract!Next

\* The destructor of the factory is its Close.
LEMMA MappedClose ==
  ASSUME ~destructMode, destructMode' = TRUE,
         result' = [c \in Calls |-> IF Known(c) = "waiting" THEN "CANCELLED" ELSE Known(c)]
  PROVE  Contract!Next
<1>1. Contract!Close
  BY DEF Contract!Close, result, Known
<1> QED BY <1>1 DEF Contract!Next

\* makeOneCall either leaves the call waiting or answers it INTERNAL.
LEMMA MakeOneCallKnown ==
  ASSUME IInv, NEW c \in Calls, NEW left, NEW r \in 0..Retries, object[c] # "deleted",
         MakeOneCall(c, left, r)
  PROVE  \E s \in {"waiting", "INTERNAL"} :
           Known(c)' = s /\ \A d \in Calls \ {c} : Known(d)' = Known(d)
<1>1. CASE Finish(c, "INTERNAL")
  BY <1>1, FinishMakesKnown DEF Statuses
<1>2. CASE object' = [object EXCEPT ![c] = "live"] /\ UNCHANGED answers
  <2>1. answers[c] \in Seq(Statuses) /\ Len(answers[c]) = 0
    BY DEF IInv, TypeOK, AnsweredOnce
  <2>2. answers'[c] = <<>> /\ object'[c] = "live"
    BY <1>2, <2>1 DEF IInv, TypeOK
  <2>3. \A d \in Calls \ {c} : answers'[d] = answers[d] /\ object'[d] = object[d]
    BY <1>2 DEF IInv, TypeOK
  <2> QED BY <2>2, <2>3 DEF Known
<1> QED BY <1>1, <1>2 DEF MakeOneCall, MissingToken

\* Every step of HttpCall is a step of the contract or changes nothing of it.
LEMMA NextRefines == IInv /\ [Next]_vars => [Contract!Next]_(Contract!vars)
<1> SUFFICES ASSUME IInv, [Next]_vars
             PROVE  Contract!Next \/ UNCHANGED <<result, destructMode>>
  BY DEF Contract!vars, result, Known
<1>1. ASSUME NEW c \in Calls, Call(c) PROVE Contract!Next
  <2>1. retries[c] \in 0..Retries /\ object[c] = "absent" /\ Known(c) = "unasked"
    BY <1>1, KnownCases DEF Call, IInv, TypeOK
  <2>2. PICK s \in {"waiting", "INTERNAL"} :
          Known(c)' = s /\ \A d \in Calls \ {c} : Known(d)' = Known(d)
    BY <1>1, <2>1, MakeOneCallKnown DEF Call
  <2>3. result' = [result EXCEPT ![c] = s]
    BY <2>2, ResultOfOne
  <2> QED BY <1>1, <2>1, <2>3, MappedAsk DEF Call
<1>2. ASSUME NEW c \in Calls, NEW n \in inflight[c], NEW kind \in AnswerKinds,
             OnAnswer(c, n, kind)
      PROVE  Contract!Next \/ UNCHANGED <<result, destructMode>>
  <2>1. object[c] = "live" /\ Known(c) = "waiting" /\ UNCHANGED destructMode
    BY <1>2, KnownCases DEF OnAnswer
  <2>2. PICK s \in Statuses \cup {"waiting"} :
          Known(c)' = s /\ \A d \in Calls \ {c} : Known(d)' = Known(d)
    <3>1. CASE MayRetry(c, kind) /\ MakeOneCall(c, inflight[c] \ {n}, RetriesAfter(c))
      <4>1. RetriesAfter(c) \in 0..Retries
        BY <3>1 DEF IInv, TypeOK, MayRetry, RetriesAfter
      <4> QED BY <2>1, <3>1, <4>1, MakeOneCallKnown DEF Statuses
    <3>2. ASSUME NEW status \in Statuses, Finish(c, status)
          PROVE  \E s \in Statuses :
                   Known(c)' = s /\ \A d \in Calls \ {c} : Known(d)' = Known(d)
      BY <2>1, <3>2, FinishMakesKnown
    <3> QED BY <1>2, <3>1, <3>2 DEF OnAnswer, Statuses
  <2>3. result' = [result EXCEPT ![c] = s]
    BY <2>2, ResultOfOne
  <2>4. CASE s = "waiting"
    <3>1. result' = result
      BY <2>1, <2>3, <2>4 DEF result
    <3> QED BY <2>1, <3>1
  <2>5. CASE s \in Statuses
    BY <2>1, <2>3, <2>5, MappedAnswer
  <2> QED BY <2>2, <2>4, <2>5
<1>3. ASSUME NEW c \in Calls, Cancel(c) PROVE Contract!Next
  <2>1. object[c] = "live" /\ Known(c) = "waiting" /\ UNCHANGED destructMode
    BY <1>3, KnownCases DEF Cancel
  <2>2. Known(c)' = "CANCELLED" /\ \A d \in Calls \ {c} : Known(d)' = Known(d)
    BY <1>3, <2>1, FinishMakesKnown DEF Cancel, Statuses
  <2>3. result' = [result EXCEPT ![c] = "CANCELLED"]
    BY <2>2, ResultOfOne
  <2> QED BY <2>1, <2>3, MappedAnswer DEF Statuses
<1>4. CASE DestroyFactory
  <2> DEFINE hit == {c \in activeCalls : ~cancelled[c]}
  <2>1. hit = {c \in Calls : object[c] = "live"}
    BY <1>4 DEF DestroyFactory, IInv, ActiveCallsExact, LiveNotCancelled
  <2>2. ASSUME NEW c \in Calls
        PROVE  Known(c)' = IF Known(c) = "waiting" THEN "CANCELLED" ELSE Known(c)
    <3>1. /\ answers'[c] = IF c \in hit THEN Append(answers[c], "CANCELLED") ELSE answers[c]
          /\ object'[c] = IF c \in hit THEN "deleted" ELSE object[c]
      BY <1>4 DEF DestroyFactory, CancelAll
    <3>2. answers[c] \in Seq(Statuses) /\ object[c] \in {"absent", "live", "deleted"}
      BY DEF IInv, TypeOK
    <3> HIDE DEF hit
    <3>3. CASE object[c] = "live"
      <4>1. Len(answers[c]) = 0
        BY <3>3 DEF IInv, AnsweredOnce
      <4>2. answers'[c] = Append(answers[c], "CANCELLED")
        BY <2>1, <3>1, <3>3
      <4>3. Len(answers'[c]) = 1 /\ answers'[c][1] = "CANCELLED" /\ answers'[c] # <<>>
        BY <3>2, <4>1, <4>2
      <4>4. Known(c)' = "CANCELLED"
        BY <4>3 DEF Known, Last
      <4> QED BY <3>3, <4>4, KnownCases
    <3>4. CASE object[c] # "live"
      <4>1. answers'[c] = answers[c] /\ object'[c] = object[c]
        BY <2>1, <3>1, <3>4
      <4>2. Known(c)' = Known(c)
        BY <4>1 DEF Known
      <4>3. Known(c) # "waiting"
        BY <3>2, <3>4, KnownCases DEF Statuses
      <4> QED BY <4>2, <4>3
    <3> QED BY <3>3, <3>4
  <2>3. result' = [c \in Calls |-> IF Known(c) = "waiting" THEN "CANCELLED" ELSE Known(c)]
    BY <2>2 DEF result
  <2> QED BY <1>4, <2>3, MappedClose DEF DestroyFactory
<1>5. CASE UNCHANGED <<object, answers, destructMode>>
  BY <1>5 DEF result, Known
<1> QED BY <1>1, <1>2, <1>3, <1>4, <1>5 DEF Next, SetToken, vars, callVars

\* HttpCall implements the safety part of CallContract: a call is answered once
\* and for all, at once or later, and the destructor cancels what waits.
THEOREM ImplementsContractSafely ==
  Spec => Contract!Init /\ [][Contract!Next]_(Contract!vars)
<1>1. Init => Contract!Init
  BY DEF Init, Contract!Init
<1> QED BY <1>1, SpecIInv, NextRefines, PTL DEF Spec

=============================================================================
