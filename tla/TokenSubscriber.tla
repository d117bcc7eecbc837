-------------------------- MODULE TokenSubscriber --------------------------
(***************************************************************************)
(* The token subscribers of the main thread: each fetches a token from the *)
(* metadata server or the IAM server, hands it to its owner, and fetches   *)
(* the next one before it expires.  A subscriber of the IAM server needs   *)
(* the token of another subscriber for its request.                        *)
(*                                                                         *)
(* Time is in seconds.  Each clock runs down relative to now, so that no   *)
(* bound on time is needed.  The AsyncClient is external: it may fail a    *)
(* request inside send(), and answers the others before their timeout.     *)
(***************************************************************************)
EXTENDS Integers

CONSTANTS
  Subscribers,
  Needs,           \* the subscriber whose token a subscriber needs, or NoSubscriber
  NoSubscriber,
  Expiries,        \* values of expires_in the servers answer with
  RequestTimeout,  \* kRequestTimeoutMs
  RetryTime,       \* kFailedRequestRetryTime
  RefreshBuffer    \* kRefreshBuffer

ASSUME NeedsAssumption == Needs \in [Subscribers -> Subscribers \cup {NoSubscriber}]
ASSUME TimesAssumption ==
  /\ Expiries \subseteq Nat
  /\ RequestTimeout \in Nat /\ RetryTime \in Nat /\ RefreshBuffer \in Nat
\* Both are five seconds in the source.
ASSUME BufferAssumption == RequestTimeout <= RefreshBuffer

VARIABLES
  alive,     \* the object: "created", "started" (its init target), "destroyed"
  deadline,  \* active_request_: seconds to its timeout, or Off
  timer,     \* refresh_timer_: seconds to its expiry, or Off
  ttl,       \* life left in the token the owner has, NoToken before the first
  expiresIn, \* expires_in of that token
  failed,    \* an attempt has failed since that token came
  ready      \* init_target_->ready() was called

vars == <<alive, deadline, timer, ttl, expiresIn, failed, ready>>

Off == -1
NoToken == -2
Expired == -1

Lifetimes == UNION {0..e : e \in Expiries}

TypeOK ==
  /\ alive \in [Subscribers -> {"created", "started", "destroyed"}]
  /\ deadline \in [Subscribers -> 0..RequestTimeout \cup {Off}]
  /\ timer \in [Subscribers -> 0..RetryTime \cup Lifetimes \cup {Off}]
  /\ ttl \in [Subscribers -> Lifetimes \cup {Expired, NoToken}]
  /\ expiresIn \in [Subscribers -> Expiries \cup {0}]
  /\ failed \in [Subscribers -> BOOLEAN]
  /\ ready \in [Subscribers -> BOOLEAN]

Init ==
  /\ alive = [s \in Subscribers |-> "created"]
  /\ deadline = [s \in Subscribers |-> Off]
  /\ timer = [s \in Subscribers |-> Off]
  /\ ttl = [s \in Subscribers |-> NoToken]
  /\ expiresIn = [s \in Subscribers |-> 0]
  /\ failed = [s \in Subscribers |-> FALSE]
  /\ ready = [s \in Subscribers |-> FALSE]

\* TokenInfo::prepareRequest returns a request, not null.
CanPrepareRequest(s) == Needs[s] # NoSubscriber => ttl[Needs[s]] # NoToken

\* Mutant of HandleFailResponse: no retry is scheduled.
HandleFailForgetsTimer(s) ==
  /\ deadline' = [deadline EXCEPT ![s] = Off]
  /\ timer' = [timer EXCEPT ![s] = Off]

\* handleFailResponse
HandleFailResponse(s) ==
  /\ deadline' = [deadline EXCEPT ![s] = Off]
  /\ timer' = [timer EXCEPT ![s] = RetryTime]

\* refresh, when the request goes in flight. The timer that called it has run.
RequestSent(s) ==
  /\ CanPrepareRequest(s)
  /\ deadline' = [deadline EXCEPT ![s] = RequestTimeout]
  /\ timer' = [timer EXCEPT ![s] = Off]

\* refresh, when there is nothing to send yet or sending fails inside send().
RequestNotSent(s) == HandleFailResponse(s)

Refresh(s) == RequestSent(s) \/ RequestNotSent(s)

\* The init manager starts the target.
Start(s) ==
  /\ alive[s] = "created"
  /\ alive' = [alive EXCEPT ![s] = "started"]
  /\ Refresh(s)
  /\ failed' = [failed EXCEPT ![s] = (deadline'[s] = Off)]
  /\ UNCHANGED <<ttl, expiresIn, ready>>

\* refresh_timer_ fires.
TimerFires(s) ==
  /\ alive[s] = "started"
  /\ timer[s] = 0
  /\ Refresh(s)
  /\ failed' = [failed EXCEPT ![s] = @ \/ deadline'[s] = Off]
  /\ UNCHANGED <<alive, ttl, expiresIn, ready>>

\* onFailure, or processResponse of a status other than 200, of no status or of
\* a body that does not parse. At its timeout a request gets status 504.
AnswerFails(s) ==
  /\ alive[s] = "started"
  /\ deadline[s] # Off
  /\ HandleFailResponse(s)
  /\ failed' = [failed EXCEPT ![s] = TRUE]
  /\ UNCHANGED <<alive, ttl, expiresIn, ready>>

\* Mutant of RefreshTime: the buffer is forgotten.
RefreshTimeWithoutBuffer(e) == e

\* When handleSuccessResponse arms the timer.
RefreshTime(e) == e - RefreshBuffer

\* Mutants of ScheduleRefresh: the timer is armed although a request was sent;
\* a token inside the buffer is not refreshed.
ScheduleRefreshTwice(s, e) ==
  /\ deadline' = [deadline EXCEPT ![s] = IF e <= RefreshBuffer THEN RequestTimeout ELSE Off]
  /\ timer' = [timer EXCEPT ![s] = IF e <= RefreshBuffer THEN RetryTime ELSE RefreshTime(e)]
ScheduleRefreshForgets(s, e) ==
  /\ deadline' = [deadline EXCEPT ![s] = Off]
  /\ timer' = [timer EXCEPT ![s] = IF e <= RefreshBuffer THEN Off ELSE RefreshTime(e)]

\* A token too close to its expiry is refreshed at once, any other when only
\* the buffer is left of it.
ScheduleRefresh(s, e) ==
  \/ /\ e <= RefreshBuffer
     /\ Refresh(s)
  \/ /\ e > RefreshBuffer
     /\ deadline' = [deadline EXCEPT ![s] = Off]
     /\ timer' = [timer EXCEPT ![s] = RefreshTime(e)]

\* onSuccess with a token that parses: handleSuccessResponse.
AnswerSucceeds(s) ==
  /\ alive[s] = "started"
  /\ deadline[s] # Off
  /\ \E e \in Expiries :
       /\ ttl' = [ttl EXCEPT ![s] = e]
       /\ expiresIn' = [expiresIn EXCEPT ![s] = e]
       /\ ScheduleRefresh(s, e)
       /\ failed' = [failed EXCEPT ![s] = e <= RefreshBuffer /\ deadline'[s] = Off]
  /\ ready' = [ready EXCEPT ![s] = TRUE]
  /\ UNCHANGED alive

\* ~TokenSubscriber: the request is cancelled and the timer goes.
Destroy(s) ==
  /\ alive[s] # "destroyed"
  /\ alive' = [alive EXCEPT ![s] = "destroyed"]
  /\ deadline' = [deadline EXCEPT ![s] = Off]
  /\ timer' = [timer EXCEPT ![s] = Off]
  /\ UNCHANGED <<ttl, expiresIn, failed, ready>>

\* A second passes, unless a timer or a timeout is due now.
Tick ==
  /\ \E s \in Subscribers : alive[s] = "started"
  /\ \A s \in Subscribers : timer[s] # 0 /\ deadline[s] # 0
  /\ deadline' = [s \in Subscribers |-> IF deadline[s] = Off THEN Off ELSE deadline[s] - 1]
  /\ timer' = [s \in Subscribers |-> IF timer[s] = Off THEN Off ELSE timer[s] - 1]
  /\ ttl' = [s \in Subscribers |-> IF ttl[s] < 0 THEN ttl[s] ELSE ttl[s] - 1]
  /\ UNCHANGED <<alive, expiresIn, failed, ready>>

AllDestroyed == (\A s \in Subscribers : alive[s] = "destroyed") /\ UNCHANGED vars

Next ==
  \/ \E s \in Subscribers :
       Start(s) \/ TimerFires(s) \/ AnswerFails(s) \/ AnswerSucceeds(s) \/ Destroy(s)
  \/ Tick
  \/ AllDestroyed

\* Time passes, the init manager starts its targets, timers fire; and a server
\* that is asked again and again is reached and answers now and then.
Fairness ==
  /\ WF_vars(Tick)
  /\ \A s \in Subscribers :
       /\ WF_vars(Start(s))
       /\ WF_vars(TimerFires(s))
       /\ WF_vars(deadline[s] = 0 /\ (AnswerFails(s) \/ AnswerSucceeds(s)))
       /\ SF_vars(TimerFires(s) /\ RequestSent(s))
       /\ SF_vars(AnswerSucceeds(s))

Spec == Init /\ [][Next]_vars /\ Fairness

-----------------------------------------------------------------------------
(* Properties *)

\* A started subscriber waits for exactly one thing, its request or its timer:
\* with neither it would never fetch a token again, with both it would run two
\* refresh loops, and refresh() would cancel requests of its own. A destroyed
\* one waits for nothing.
OneLoop ==
  \A s \in Subscribers :
    IF alive[s] = "started" THEN (deadline[s] = Off) # (timer[s] = Off)
    ELSE deadline[s] = Off /\ timer[s] = Off

\* While no attempt fails, a token that lives longer than the refresh buffer is
\* replaced before it expires, even if every answer takes the whole timeout.
NoGapBetweenTokens ==
  \A s \in Subscribers :
    alive[s] = "started" /\ ready[s] /\ ~failed[s] /\ expiresIn[s] > RefreshBuffer => ttl[s] >= 0

\* Start-up does not hang: every subscriber becomes ready or is destroyed, or
\* loses the one it needs.
BecomesReady ==
  \A s \in Subscribers :
    <>(\/ ready[s] \/ alive[s] = "destroyed"
       \/ Needs[s] # NoSubscriber /\ alive[Needs[s]] = "destroyed")

\* A token that expires is replaced in the end.
TokenRenewed ==
  \A s \in Subscribers : ttl[s] = 0 ~> (ttl[s] > 0 \/ alive[s] = "destroyed")

=============================================================================
