----------------------- MODULE TokenSubscriberProofs -----------------------
(***************************************************************************)
(* Proofs about TokenSubscriber, for any set of subscribers, any expiries  *)
(* and any times with a request timeout within the refresh buffer.         *)
(***************************************************************************)
EXTENDS TokenSubscriber, TLAPS

\* What a token has left while its subscriber waits: exactly the buffer beyond
\* the timer, and at least the part of the buffer that the request cannot use.
Margin ==
  \A s \in Subscribers :
    alive[s] = "started" /\ ready[s] /\ ~failed[s] /\ expiresIn[s] > RefreshBuffer =>
      /\ timer[s] # Off => ttl[s] = timer[s] + RefreshBuffer
      /\ deadline[s] # Off => ttl[s] >= deadline[s] + (RefreshBuffer - RequestTimeout)

\* A subscriber is not ready before it is started.
StartedFirst == \A s \in Subscribers : alive[s] = "created" => ~ready[s]

IInv == TypeOK /\ OneLoop /\ StartedFirst /\ Margin

\* Lifetimes are numbers of seconds.
LEMMA LifetimesNat == \A x \in Lifetimes : x \in Nat
BY TimesAssumption DEF Lifetimes

\* Lifetimes hold every expiry and all that comes before one.
LEMMA LifetimesFacts ==
  /\ \A x \in Lifetimes : x \in Nat
  /\ \A e \in Expiries : e \in Lifetimes
  /\ \A e \in Expiries : e > RefreshBuffer => RefreshTime(e) \in Lifetimes
  /\ \A x \in Lifetimes : x # 0 => x - 1 \in Lifetimes
<1> USE TimesAssumption DEF Lifetimes
<1>1. \A x \in Lifetimes : x \in Nat
  BY LifetimesNat
<1>2. \A e \in Expiries : e \in 0..e
  OBVIOUS
<1>3. \A e \in Expiries : e \in Lifetimes
  BY <1>2
<1>4. \A e \in Expiries : e > RefreshBuffer => RefreshTime(e) \in 0..e
  BY DEF RefreshTime
<1>5. \A e \in Expiries : e > RefreshBuffer => RefreshTime(e) \in Lifetimes
  BY <1>4
<1>6. ASSUME NEW x \in Lifetimes, x # 0  PROVE x - 1 \in Lifetimes
  <2>1. PICK e \in Expiries : x \in 0..e
    OBVIOUS
  <2>2. x - 1 \in 0..e
    BY <2>1, <1>6
  <2> QED BY <2>1, <2>2
<1> QED BY <1>1, <1>3, <1>5, <1>6

\* No subscriber waits for anything before it is started.
LEMMA InitIInv == Init => IInv
<1> SUFFICES ASSUME Init PROVE IInv
  OBVIOUS
<1> USE DEF Init
<1>1. TypeOK
  BY DEF TypeOK
<1>2. OneLoop
  BY DEF OneLoop
<1>3. StartedFirst
  BY DEF StartedFirst
<1>4. Margin
  BY DEF Margin
<1> QED BY <1>1, <1>2, <1>3, <1>4 DEF IInv

\* refresh leaves one of the two, and a request has its whole timeout.
LEMMA RefreshFacts ==
  ASSUME TypeOK, NEW s \in Subscribers, Refresh(s)
  PROVE /\ deadline' \in [Subscribers -> 0..RequestTimeout \cup {Off}]
        /\ timer' \in [Subscribers -> 0..RetryTime \cup Lifetimes \cup {Off}]
        /\ \/ deadline'[s] = RequestTimeout /\ timer'[s] = Off /\ deadline'[s] # Off
           \/ deadline'[s] = Off /\ timer'[s] = RetryTime /\ timer'[s] # Off
        /\ \A t \in Subscribers \ {s} : deadline'[t] = deadline[t] /\ timer'[t] = timer[t]
<1>1. CASE RequestSent(s)
  BY <1>1, TimesAssumption DEF TypeOK, RequestSent, Off
<1>2. CASE HandleFailResponse(s)
  BY <1>2, TimesAssumption DEF TypeOK, HandleFailResponse, Off
<1> QED BY <1>1, <1>2 DEF Refresh, RequestNotSent

\* A started subscriber has sent its first request or waits to try again.
LEMMA StartIInv == ASSUME IInv, NEW s \in Subscribers, Start(s) PROVE IInv'
<1> USE DEF IInv, Start
<1>0. /\ deadline' \in [Subscribers -> 0..RequestTimeout \cup {Off}]
      /\ timer' \in [Subscribers -> 0..RetryTime \cup Lifetimes \cup {Off}]
      /\ \/ deadline'[s] = RequestTimeout /\ timer'[s] = Off /\ deadline'[s] # Off
         \/ deadline'[s] = Off /\ timer'[s] = RetryTime /\ timer'[s] # Off
      /\ \A t \in Subscribers \ {s} : deadline'[t] = deadline[t] /\ timer'[t] = timer[t]
  BY RefreshFacts
<1>1. TypeOK'
  BY <1>0 DEF TypeOK
<1>2. OneLoop'
  BY <1>0 DEF OneLoop, TypeOK
<1>3. StartedFirst'
  BY DEF StartedFirst, TypeOK
<1>4. Margin'
  BY <1>0 DEF Margin, TypeOK, StartedFirst
<1> QED BY <1>1, <1>2, <1>3, <1>4

\* When the timer fires the buffer is left of the token, and the request that goes
\* out has at most that long.
LEMMA TimerFiresIInv == ASSUME IInv, NEW s \in Subscribers, TimerFires(s) PROVE IInv'
<1> USE DEF IInv, TimerFires
<1>0. /\ deadline' \in [Subscribers -> 0..RequestTimeout \cup {Off}]
      /\ timer' \in [Subscribers -> 0..RetryTime \cup Lifetimes \cup {Off}]
      /\ \/ deadline'[s] = RequestTimeout /\ timer'[s] = Off /\ deadline'[s] # Off
         \/ deadline'[s] = Off /\ timer'[s] = RetryTime /\ timer'[s] # Off
      /\ \A t \in Subscribers \ {s} : deadline'[t] = deadline[t] /\ timer'[t] = timer[t]
  BY RefreshFacts
<1>1. TypeOK'
  BY <1>0 DEF TypeOK
<1>2. OneLoop'
  BY <1>0 DEF OneLoop, TypeOK
<1>3. StartedFirst'
  BY DEF StartedFirst
<1>4. Margin'
  <2> SUFFICES ASSUME NEW t \in Subscribers,
                      alive[t] = "started", ready[t], ~failed'[t], expiresIn[t] > RefreshBuffer
               PROVE /\ timer'[t] # Off => ttl[t] = timer'[t] + RefreshBuffer
                     /\ deadline'[t] # Off =>
                          ttl[t] >= deadline'[t] + (RefreshBuffer - RequestTimeout)
    BY DEF Margin
  <2>1. CASE t # s
    <3>1. ~failed[t]
      BY <2>1 DEF TypeOK
    <3> QED BY <2>1, <1>0, <3>1 DEF Margin
  <2>2. CASE t = s
    <3>1. ~failed[s] /\ deadline'[s] # Off
      BY <2>2 DEF TypeOK
    <3>2. ttl[s] = 0 + RefreshBuffer
      BY <3>1, <2>2 DEF Margin, Off
    <3>3. timer'[s] = Off /\ deadline'[s] = RequestTimeout
      BY <3>1, <1>0
    <3> QED BY <3>2, <3>3, <2>2, TimesAssumption
  <2> QED BY <2>1, <2>2
<1> QED BY <1>1, <1>2, <1>3, <1>4

\* A failed attempt is remembered, so that only the loop has to be kept.
LEMMA AnswerFailsIInv == ASSUME IInv, NEW s \in Subscribers, AnswerFails(s) PROVE IInv'
<1> USE DEF IInv, AnswerFails, HandleFailResponse
<1>1. TypeOK'
  BY TimesAssumption DEF TypeOK
<1>2. OneLoop'
  BY TimesAssumption DEF OneLoop, TypeOK, Off
<1>3. StartedFirst'
  BY DEF StartedFirst
<1>4. Margin'
  BY DEF Margin, TypeOK
<1> QED BY <1>1, <1>2, <1>3, <1>4

\* A new token is refreshed at once, or when the buffer is left of it.
LEMMA AnswerSucceedsIInv == ASSUME IInv, NEW s \in Subscribers, AnswerSucceeds(s) PROVE IInv'
<1> USE DEF IInv
<1>1. PICK e \in Expiries :
        /\ ttl' = [ttl EXCEPT ![s] = e]
        /\ expiresIn' = [expiresIn EXCEPT ![s] = e]
        /\ ScheduleRefresh(s, e)
        /\ failed' = [failed EXCEPT ![s] = e <= RefreshBuffer /\ deadline'[s] = Off]
  BY DEF AnswerSucceeds
<1>2. /\ alive[s] = "started" /\ alive' = alive
      /\ ready' = [ready EXCEPT ![s] = TRUE]
  BY DEF AnswerSucceeds
<1>3. e \in Nat /\ e \in Lifetimes
  BY LifetimesFacts
<1>4. /\ deadline' \in [Subscribers -> 0..RequestTimeout \cup {Off}]
      /\ timer' \in [Subscribers -> 0..RetryTime \cup Lifetimes \cup {Off}]
      /\ (deadline'[s] = Off) # (timer'[s] = Off)
      /\ e > RefreshBuffer => deadline'[s] = Off /\ timer'[s] = e - RefreshBuffer
      /\ \A t \in Subscribers \ {s} : deadline'[t] = deadline[t] /\ timer'[t] = timer[t]
  <2>1. CASE e <= RefreshBuffer /\ Refresh(s)
    <3>1. ~(e > RefreshBuffer)
      BY <2>1, <1>3, TimesAssumption
    <3> QED BY <2>1, <3>1, RefreshFacts
  <2>2. CASE /\ e > RefreshBuffer
             /\ deadline' = [deadline EXCEPT ![s] = Off]
             /\ timer' = [timer EXCEPT ![s] = RefreshTime(e)]
    <3>1. RefreshTime(e) \in Lifetimes
      BY <2>2, LifetimesFacts
    <3>2. RefreshTime(e) \in Nat /\ RefreshTime(e) # Off
      BY <2>2, <1>3, TimesAssumption DEF RefreshTime, Off
    <3> QED BY <2>2, <3>1, <3>2 DEF TypeOK, RefreshTime
  <2> QED BY <1>1, <2>1, <2>2 DEF ScheduleRefresh
<1>5. TypeOK'
  <2>1. ttl' \in [Subscribers -> Lifetimes \cup {Expired, NoToken}]
    BY <1>1, <1>3 DEF TypeOK
  <2>2. expiresIn' \in [Subscribers -> Expiries \cup {0}]
    BY <1>1 DEF TypeOK
  <2>3. failed' \in [Subscribers -> BOOLEAN] /\ ready' \in [Subscribers -> BOOLEAN]
    BY <1>1, <1>2 DEF TypeOK
  <2> QED BY <1>2, <1>4, <2>1, <2>2, <2>3 DEF TypeOK
<1>6. OneLoop'
  BY <1>2, <1>4 DEF OneLoop, TypeOK
<1>7. StartedFirst'
  BY <1>2 DEF StartedFirst, TypeOK
<1>8. Margin'
  <2> SUFFICES ASSUME NEW t \in Subscribers,
                      alive[t] = "started", ready'[t], ~failed'[t], expiresIn'[t] > RefreshBuffer
               PROVE /\ timer'[t] # Off => ttl'[t] = timer'[t] + RefreshBuffer
                     /\ deadline'[t] # Off =>
                          ttl'[t] >= deadline'[t] + (RefreshBuffer - RequestTimeout)
    BY <1>2 DEF Margin
  <2>1. CASE t # s
    <3>1. /\ ttl'[t] = ttl[t] /\ expiresIn'[t] = expiresIn[t]
          /\ failed'[t] = failed[t] /\ ready'[t] = ready[t]
      BY <1>1, <1>2, <2>1 DEF TypeOK
    <3> QED BY <2>1, <1>4, <3>1 DEF Margin
  <2>2. CASE t = s
    <3>1. e > RefreshBuffer /\ ttl'[s] = e
      BY <1>1, <2>2 DEF TypeOK
    <3> QED BY <2>2, <3>1, <1>4, <1>3, TimesAssumption
  <2> QED BY <2>1, <2>2
<1> QED BY <1>5, <1>6, <1>7, <1>8

\* A destroyed subscriber waits for nothing.
LEMMA DestroyIInv == ASSUME IInv, NEW s \in Subscribers, Destroy(s) PROVE IInv'
<1> USE DEF IInv, Destroy
<1>1. TypeOK'
  BY DEF TypeOK
<1>2. OneLoop'
  BY DEF OneLoop, TypeOK
<1>3. StartedFirst'
  BY DEF StartedFirst, TypeOK
<1>4. Margin'
  BY DEF Margin, TypeOK
<1> QED BY <1>1, <1>2, <1>3, <1>4

\* Time passes for the token and for what its subscriber waits for alike. This is
\* where the request timeout must not exceed the buffer.
LEMMA TickIInv == ASSUME IInv, Tick PROVE IInv'
<1> USE DEF IInv
<1>1. ASSUME NEW s \in Subscribers
      PROVE /\ deadline'[s] = IF deadline[s] = Off THEN Off ELSE deadline[s] - 1
            /\ timer'[s] = IF timer[s] = Off THEN Off ELSE timer[s] - 1
            /\ ttl'[s] = IF ttl[s] < 0 THEN ttl[s] ELSE ttl[s] - 1
            /\ timer[s] # 0 /\ deadline[s] # 0
  BY DEF Tick
<1>2. UNCHANGED <<alive, expiresIn, failed, ready>>
  BY DEF Tick
<1>3. ASSUME NEW s \in Subscribers
      PROVE /\ deadline'[s] \in 0..RequestTimeout \cup {Off}
            /\ (deadline'[s] = Off) = (deadline[s] = Off)
  BY <1>1, TimesAssumption DEF TypeOK, Off
<1>4. ASSUME NEW s \in Subscribers
      PROVE /\ timer'[s] \in 0..RetryTime \cup Lifetimes \cup {Off}
            /\ (timer'[s] = Off) = (timer[s] = Off)
            /\ timer[s] # Off => timer[s] \in Nat /\ timer[s] > 0
  <2>1. CASE timer[s] = Off
    BY <2>1, <1>1
  <2>2. CASE timer[s] \in 0..RetryTime
    BY <2>2, <1>1, TimesAssumption DEF Off
  <2>3. CASE timer[s] \in Lifetimes
    <3>1. timer[s] \in Nat /\ timer[s] - 1 \in Lifetimes
      BY <2>3, <1>1, LifetimesFacts
    <3> QED BY <3>1, <1>1 DEF Off
  <2> QED BY <2>1, <2>2, <2>3 DEF TypeOK
<1>5. ASSUME NEW s \in Subscribers
      PROVE /\ ttl'[s] \in Lifetimes \cup {Expired, NoToken}
            /\ ttl[s] \in Int
  <2>1. CASE ttl[s] \in {Expired, NoToken}
    BY <2>1, <1>1 DEF Expired, NoToken
  <2>2. CASE ttl[s] \in Lifetimes /\ ttl[s] # 0
    <3>1. ttl[s] \in Nat /\ ttl[s] - 1 \in Lifetimes
      BY <2>2, LifetimesFacts
    <3> QED BY <3>1, <1>1
  <2>3. CASE ttl[s] = 0
    BY <2>3, <1>1 DEF Expired
  <2> QED BY <2>1, <2>2, <2>3 DEF TypeOK
<1>6. TypeOK'
  <2>1. deadline' \in [Subscribers -> 0..RequestTimeout \cup {Off}]
    BY <1>3 DEF Tick
  <2>2. timer' \in [Subscribers -> 0..RetryTime \cup Lifetimes \cup {Off}]
    BY <1>4 DEF Tick
  <2>3. ttl' \in [Subscribers -> Lifetimes \cup {Expired, NoToken}]
    BY <1>5 DEF Tick
  <2> QED BY <2>1, <2>2, <2>3, <1>2 DEF TypeOK
<1>7. OneLoop'
  BY <1>2, <1>3, <1>4 DEF OneLoop
<1>8. StartedFirst'
  BY <1>2 DEF StartedFirst
<1>9. Margin'
  <2> SUFFICES ASSUME NEW s \in Subscribers,
                      alive[s] = "started", ready[s], ~failed[s], expiresIn[s] > RefreshBuffer
               PROVE /\ timer'[s] # Off => ttl'[s] = timer'[s] + RefreshBuffer
                     /\ deadline'[s] # Off =>
                          ttl'[s] >= deadline'[s] + (RefreshBuffer - RequestTimeout)
    BY <1>2 DEF Margin
  <2>1. CASE timer[s] # Off
    <3>1. ttl[s] = timer[s] + RefreshBuffer /\ deadline[s] = Off
      BY <2>1 DEF Margin, OneLoop
    <3>2. timer[s] \in Nat /\ timer[s] > 0
      BY <2>1, <1>4
    <3> QED BY <3>1, <3>2, <2>1, <1>1, TimesAssumption
  <2>2. CASE deadline[s] # Off
    <3>1. /\ ttl[s] >= deadline[s] + (RefreshBuffer - RequestTimeout)
          /\ timer[s] = Off
      BY <2>2 DEF Margin, OneLoop
    <3>2. deadline[s] \in Nat /\ deadline[s] > 0 /\ ttl[s] \in Int
      BY <2>2, <1>1, <1>5, TimesAssumption DEF TypeOK
    <3> QED BY <3>1, <3>2, <2>2, <1>1, TimesAssumption, BufferAssumption
  <2> QED BY <2>1, <2>2 DEF OneLoop
<1> QED BY <1>6, <1>7, <1>8, <1>9

\* Every step keeps the inductive invariant.
LEMMA NextIInv == IInv /\ [Next]_vars => IInv'
<1> SUFFICES ASSUME IInv, [Next]_vars PROVE IInv'
  OBVIOUS
<1>1. CASE UNCHANGED vars
  BY <1>1 DEF vars, IInv, TypeOK, OneLoop, StartedFirst, Margin
<1>2. CASE AllDestroyed
  BY <1>2 DEF AllDestroyed, vars, IInv, TypeOK, OneLoop, StartedFirst, Margin
<1>3. CASE Tick
  BY <1>3, TickIInv
<1>4. ASSUME NEW s \in Subscribers,
             Start(s) \/ TimerFires(s) \/ AnswerFails(s) \/ AnswerSucceeds(s) \/ Destroy(s)
      PROVE IInv'
  BY <1>4, StartIInv, TimerFiresIInv, AnswerFailsIInv, AnswerSucceedsIInv, DestroyIInv
<1> QED BY <1>1, <1>2, <1>3, <1>4 DEF Next

\* The inductive invariant of every behaviour.
LEMMA IInvAlways == Spec => []IInv
BY InitIInv, NextIInv, PTL DEF Spec

\* The variables of TokenSubscriber keep their types.
THEOREM TypeCorrect == Spec => []TypeOK
<1>1. IInv => TypeOK
  BY DEF IInv
<1> QED BY <1>1, IInvAlways, PTL

\* Whatever fails, a started subscriber waits for its request or for its timer,
\* never for both and never for nothing: token_subscriber.cc runs one refresh loop
\* for each subscriber.
THEOREM OneLoopAlways == Spec => []OneLoop
<1>1. IInv => OneLoop
  BY DEF IInv
<1> QED BY <1>1, IInvAlways, PTL

\* For any expiries and any timeout within the buffer, a token that lives longer
\* than kRefreshBuffer does not expire while no attempt to replace it fails.
THEOREM NoGapAlways == Spec => []NoGapBetweenTokens
<1>1. IInv => NoGapBetweenTokens
  <2> SUFFICES ASSUME IInv, NEW s \in Subscribers,
                      alive[s] = "started", ready[s], ~failed[s], expiresIn[s] > RefreshBuffer
               PROVE ttl[s] >= 0
    BY DEF NoGapBetweenTokens
  <2>1. CASE timer[s] # Off
    <3>1. ttl[s] = timer[s] + RefreshBuffer
      BY <2>1 DEF IInv, Margin
    <3>2. \/ timer[s] \in 0..RetryTime
          \/ timer[s] \in Lifetimes
      BY <2>1 DEF IInv, TypeOK
    <3>3. timer[s] \in Nat
      BY <3>2, LifetimesNat, TimesAssumption
    <3> QED BY <3>1, <3>3, TimesAssumption
  <2>2. CASE deadline[s] # Off
    <3>1. ttl[s] >= deadline[s] + (RefreshBuffer - RequestTimeout)
      BY <2>2 DEF IInv, Margin
    <3>2. deadline[s] \in Nat
      BY <2>2, TimesAssumption DEF IInv, TypeOK
    <3>3. ttl[s] \in Lifetimes \/ ttl[s] \in {Expired, NoToken}
      BY DEF IInv, TypeOK
    <3>4. ttl[s] \in Int
      BY <3>3, LifetimesNat DEF Expired, NoToken
    <3> QED BY <3>1, <3>2, <3>4, TimesAssumption, BufferAssumption
  <2> QED BY <2>1, <2>2 DEF IInv, OneLoop
<1> QED BY <1>1, IInvAlways, PTL

=============================================================================
