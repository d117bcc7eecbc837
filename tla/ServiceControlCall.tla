------------------------- MODULE ServiceControlCall -------------------------
(***************************************************************************)
(* Service control calls of several threads.  The main thread fetches the  *)
(* tokens and posts them to the workers; every worker has its own tokens   *)
(* and its own ClientCache, made by closures that the main thread posts.   *)
(* The filter config names one of these ways to get a token:               *)
(*   imds              one subscriber, its token serves both services      *)
(*   service_account   one generator for each service, each with a token   *)
(*                     of its own                                          *)
(*   iam               a subscriber of the access token and one that       *)
(*                     exchanges it, whose token serves both services      *)
(*   none              no source, and no call is made                      *)
(* When a subscriber fetches is the subject of TokenSubscriber, what one   *)
(* call does that of HttpCall.                                             *)
(*                                                                         *)
(* Dispatchers run what is posted to them in order.  The server lets the   *)
(* workers listen, by a post, once all init targets are ready.             *)
(***************************************************************************)
EXTENDS Integers, Sequences

CONSTANTS
  Workers,
  CallingConfigs,   \* sc_calling_config, each a record of what is set in it
  MaxTokens,        \* bound on the tokens of each source
  MaxReports        \* bound on the reports of each worker

ASSUME BoundsAssumption == MaxTokens \in Nat /\ MaxReports \in Nat
ASSUME ConfigsAssumption == \A c \in CallingConfigs : \A f \in DOMAIN c : c[f] \in Nat

VARIABLES
  mode,       \* access_token_case of the filter config
  retries,    \* check_retries_, quota_retries_ and report_retries_
  fetched,    \* how many tokens each source has handed to its callback
  ready,      \* init targets that are ready
  posted,     \* closures posted to each worker
  closed,     \* the slot has been removed
  listening,  \* workers that serve requests
  cache,      \* the worker's ThreadLocalCache: "none", "alive", "dying", "gone"
  members,    \* how many of its members exist
  tokens,     \* sc_token_ and quota_token_ of each worker
  timer,      \* the flush timer of the client is enabled
  accepted,   \* reports the client library was given
  handed,     \* those it has handed to report_transport
  calls       \* HTTP calls in flight

mainVars == <<mode, retries, fetched, ready, closed>>
clientVars == <<timer, accepted, handed, calls>>
workerVars == <<listening, cache, members, tokens, clientVars>>
vars == <<mainVars, posted, workerVars>>

\* Mutant of Members: the client is declared before the factories it uses.
MembersClientEarly ==
  <<"sc_token_", "quota_token_", "client_", "check_call_factory_", "quota_call_factory_",
    "report_call_factory_">>

\* The members of ThreadLocalCache, those of its ClientCache included, as they are
\* declared. They are made in this order and destroyed in the opposite one.
Members ==
  <<"sc_token_", "quota_token_", "check_call_factory_", "quota_call_factory_",
    "report_call_factory_", "client_">>
Exists(w, member) == \E i \in 1..members[w] : Members[i] = member

Services == {"sc", "quota"}
Methods == {"check", "allocateQuota", "report"}
NoToken == [by |-> "none", n |-> 0]

\* The sources of a mode; a generator is no init target. An IAM config whose access token
\* is not a remote one is refused with an exception: there is no filter, and no mode for it.
Sources(case) ==
  CASE case = "imds" -> {"imds"}
    [] case = "service_account" -> {"sc_gen", "quota_gen"}
    [] case = "iam" -> {"access", "iam"}
    [] case = "none" -> {}
Modes == {"imds", "service_account", "iam", "none"}
InitTargets == Sources(mode) \ {"sc_gen", "quota_gen"}

Tokens == {NoToken} \cup [by : UNION {Sources(c) : c \in Modes}, n : 1..MaxTokens]
Closures == [op : {"set", "listen", "remove"}]
              \cup [op : {"token"}, sets : SUBSET Services, token : Tokens]

Requests == [method : Methods, token : Tokens, count : Int, left : Nat]

TypeOK ==
  /\ mode \in Modes
  /\ retries \in [Methods -> Nat]
  /\ fetched \in [Sources(mode) -> 0..MaxTokens]
  /\ ready \subseteq InitTargets
  /\ posted \in [Workers -> Seq(Closures)]
  /\ listening \subseteq Workers /\ closed \in BOOLEAN
  /\ cache \in [Workers -> {"none", "alive", "dying", "gone"}]
  /\ members \in [Workers -> 0..Len(Members)]
  /\ tokens \in [Workers -> [Services -> Tokens]]
  /\ timer \in [Workers -> BOOLEAN]
  /\ accepted \in [Workers -> 0..MaxReports] /\ handed \in [Workers -> 0..MaxReports]
  /\ calls \in [Workers -> SUBSET Requests]

\* InitHttpRequestSetting: the retries it leaves. A config that is missing has
\* nothing set.
Setting(config, field, default) == IF field \in DOMAIN config THEN config[field] ELSE default
InitHttpRequestSetting(config) ==
  [m \in Methods |-> CASE m = "check" -> Setting(config, "check_retries", 3)
                      [] m = "allocateQuota" -> Setting(config, "quota_retries", 1)
                      [] m = "report" -> Setting(config, "report_retries", 5)]

\* The constructor: the slot is set before any source is made. Without an init
\* target the server does not wait.
Listen == [op |-> "listen"]
Init ==
  /\ mode \in Modes
  /\ retries \in {InitHttpRequestSetting(c) : c \in CallingConfigs}
  /\ fetched = [s \in Sources(mode) |-> 0]
  /\ ready = {} /\ closed = FALSE
  /\ posted = [w \in Workers |->
                 <<[op |-> "set"]>> \o IF InitTargets = {} THEN <<Listen>> ELSE <<>>]
  /\ listening = {}
  /\ cache = [w \in Workers |-> "none"] /\ members = [w \in Workers |-> 0]
  /\ tokens = [w \in Workers |-> [s \in Services |-> NoToken]]
  /\ timer = [w \in Workers |-> FALSE]
  /\ accepted = [w \in Workers |-> 0] /\ handed = [w \in Workers |-> 0]
  /\ calls = [w \in Workers |-> {}]

-----------------------------------------------------------------------------
(* The main thread *)

\* The services whose tokens the callback of a source sets. The access token
\* for the IAM server stays on the main thread.
Sets(source) ==
  CASE source \in {"imds", "iam"} -> Services
    [] source = "sc_gen" -> {"sc"}
    [] source = "quota_gen" -> {"quota"}
    [] source = "access" -> {}

\* The closure a callback passes to runOnAllThreads, if it does.
Publish(source, n) ==
  IF Sets(source) = {} THEN <<>>
  ELSE <<[op |-> "token", sets |-> Sets(source), token |-> [by |-> source, n |-> n]]>>

\* What ready() posts when it is the last target the server waits for.
ListenAfter(source) ==
  IF source \in InitTargets \ ready /\ InitTargets \subseteq ready \cup {source}
  THEN <<Listen>> ELSE <<>>

\* Mutant of HandleSuccess: the target is ready before the callback runs.
HandleSuccessReadyFirst(source, n) == ListenAfter(source) \o Publish(source, n)

\* handleSuccessResponse of a subscriber and refresh of a generator: the token
\* goes to the callback before the target is ready.
HandleSuccess(source, n) == Publish(source, n) \o ListenAfter(source)

\* A source has a new token.
Fetch(source) ==
  /\ ~closed
  /\ source \in Sources(mode)
  /\ fetched[source] < MaxTokens
  /\ source = "iam" => fetched["access"] > 0
  /\ fetched' = [fetched EXCEPT ![source] = @ + 1]
  /\ posted' = [w \in Workers |-> posted[w] \o HandleSuccess(source, fetched[source] + 1)]
  /\ ready' = ready \cup ({source} \cap InitTargets)
  /\ UNCHANGED <<mode, retries, closed, workerVars>>

\* The listener goes, and with it the filter config and the slot. The closures of
\* the tokens refer to the object that is destroyed here; the model has only the
\* closings at which none is waiting.
Close ==
  /\ ~closed
  /\ \A w \in Workers : \A i \in DOMAIN posted[w] : posted[w][i].op # "token"
  /\ closed' = TRUE
  /\ posted' = [w \in Workers |-> Append(posted[w], [op |-> "remove"])]
  /\ UNCHANGED <<mode, retries, fetched, ready, workerVars>>

-----------------------------------------------------------------------------
(* The client of a worker: its HTTP calls *)

\* Mutant of TokenFor: every factory is given sc_token_fn.
ScTokenFor(w, method) == tokens[w]["sc"]

\* The token function each factory was given.
TokenFor(w, method) == IF method = "allocateQuota" THEN tokens[w]["quota"] ELSE tokens[w]["sc"]

Request(w, method, count, left) ==
  [method |-> method, token |-> TokenFor(w, method), count |-> count, left |-> left]

\* The calls once one more was made. Without a token none is made.
WithCall(w, method, count, left) ==
  IF TokenFor(w, method) = NoToken THEN calls[w]
  ELSE calls[w] \cup {Request(w, method, count, left)}

Transport(w, method, count) == WithCall(w, method, count, retries[method])

\* A bound of the model: checks and quota calls are made one at a time.
Idle(w) == \A c \in calls[w] : c.method = "report"

\* The reports held back are sent by one call.
Batched(w) == accepted[w] - handed[w]
Flushed(w) == IF Batched(w) = 0 THEN calls[w] ELSE Transport(w, "report", Batched(w))

-----------------------------------------------------------------------------
(* The workers *)

Serves(w) == w \in listening /\ cache[w] = "alive"

\* callCheck and callQuota: answered from the cache, or by a call.
CallCheck(w) ==
  /\ Serves(w)
  /\ Idle(w)
  /\ \E method \in {"check", "allocateQuota"} :
       calls' = [calls EXCEPT ![w] = Transport(w, method, 0)]
  /\ UNCHANGED <<mainVars, posted, listening, cache, members, tokens, timer, accepted, handed>>

\* callReport: the client library holds it back.
CallReport(w) ==
  /\ Serves(w)
  /\ accepted[w] < MaxReports
  /\ accepted' = [accepted EXCEPT ![w] = @ + 1]
  /\ UNCHANGED <<mainVars, posted, listening, cache, members, tokens, timer, handed, calls>>

\* Mutant of Rearmed: the timer fires once.
NotRearmed(w) == timer' = [timer EXCEPT ![w] = FALSE]

\* EnvoyPeriodicTimer::call enables the timer again after the callback.
Rearmed(w) == timer' = [timer EXCEPT ![w] = TRUE]

\* EnvoyPeriodicTimer::call, with the flush of the client library.
TimerFires(w) ==
  /\ cache[w] = "alive" /\ timer[w]
  /\ calls' = [calls EXCEPT ![w] = Flushed(w)]
  /\ handed' = [handed EXCEPT ![w] = accepted[w]]
  /\ Rearmed(w)
  /\ UNCHANGED <<mainVars, posted, listening, cache, members, tokens, accepted>>

\* A call is answered, or fails for the last time.
CallEnds(w) ==
  /\ cache[w] = "alive"
  /\ \E c \in calls[w] : calls' = [calls EXCEPT ![w] = @ \ {c}]
  /\ UNCHANGED <<mainVars, posted, listening, cache, members, tokens, timer, accepted, handed>>

MayRetry(c) == c.left > 0

\* An attempt fails and is made again, with the token of now.
CallRetries(w) ==
  /\ cache[w] = "alive"
  /\ \E c \in calls[w] :
       /\ MayRetry(c)
       /\ calls' = [calls EXCEPT ![w] =
                      (@ \ {c}) \cup {Request(w, c.method, c.count, c.left - 1)}]
  /\ UNCHANGED <<mainVars, posted, listening, cache, members, tokens, timer, accepted, handed>>

-----------------------------------------------------------------------------
(* What a worker runs of what was posted to it *)

\* The function given to tls_->set: ThreadLocalCache with its ClientCache, whose
\* client starts its timer.
SetCache(w) ==
  /\ cache' = [cache EXCEPT ![w] = "alive"]
  /\ members' = [members EXCEPT ![w] = Len(Members)]
  /\ timer' = [timer EXCEPT ![w] = TRUE]
  /\ UNCHANGED <<listening, tokens, accepted, handed, calls>>

\* Mutant of SetToken: a token that is set stays.
SetTokenOnce(w, closure) ==
  /\ tokens' = [tokens EXCEPT ![w] =
                  [s \in Services |-> IF s \in closure.sets /\ @[s] = NoToken
                                      THEN closure.token ELSE @[s]]]
  /\ UNCHANGED <<listening, cache, members, clientVars>>

\* set_sc_token and set_quota_token.
SetToken(w, closure) ==
  /\ tokens' = [tokens EXCEPT ![w] =
                  [s \in Services |-> IF s \in closure.sets THEN closure.token ELSE @[s]]]
  /\ UNCHANGED <<listening, cache, members, clientVars>>

StartListening(w) ==
  /\ listening' = listening \cup {w}
  /\ UNCHANGED <<cache, members, tokens, clientVars>>

\* The slot of the worker is removed, and ~ThreadLocalCache begins.
RemoveCache(w) ==
  /\ cache' = [cache EXCEPT ![w] = "dying"]
  /\ listening' = listening \ {w}
  /\ UNCHANGED <<members, tokens, clientVars>>

RunPosted(w) ==
  /\ posted[w] # <<>>
  /\ posted' = [posted EXCEPT ![w] = Tail(@)]
  /\ LET closure == Head(posted[w])
     IN \/ closure.op = "set" /\ SetCache(w)
        \/ closure.op = "token" /\ SetToken(w, closure)
        \/ closure.op = "listen" /\ StartListening(w)
        \/ closure.op = "remove" /\ RemoveCache(w)
  /\ UNCHANGED mainVars

-----------------------------------------------------------------------------
(* The destructor of a ThreadLocalCache, a step for each member *)

\* ~ServiceControlClient: it sends what it holds back, and stops its timer.
DestroyClient(w) ==
  /\ calls' = [calls EXCEPT ![w] = Flushed(w)]
  /\ handed' = [handed EXCEPT ![w] = accepted[w]]
  /\ timer' = [timer EXCEPT ![w] = FALSE]

\* ~HttpCallFactory: it cancels the calls it made, in no order.
FactoryOf(method) ==
  CASE method = "check" -> "check_call_factory_"
    [] method = "allocateQuota" -> "quota_call_factory_"
    [] method = "report" -> "report_call_factory_"
DestroyFactory(w, member) ==
  /\ calls' = [calls EXCEPT ![w] = {c \in @ : FactoryOf(c.method) # member}]
  /\ UNCHANGED <<handed, timer>>

\* The last member that is left is destroyed. The worker does nothing else meanwhile.
DestroyMember(w) ==
  /\ cache[w] = "dying"
  /\ LET member == Members[members[w]]
     IN \/ member = "client_" /\ DestroyClient(w)
        \/ member \notin {"client_", "sc_token_", "quota_token_"} /\ DestroyFactory(w, member)
        \/ member \in {"sc_token_", "quota_token_"} /\ UNCHANGED <<handed, timer, calls>>
  /\ members' = [members EXCEPT ![w] = @ - 1]
  /\ cache' = [cache EXCEPT ![w] = IF members[w] = 1 THEN "gone" ELSE @]
  /\ UNCHANGED <<mainVars, posted, listening, tokens, accepted>>

Over == closed /\ (\A w \in Workers : cache[w] = "gone") /\ UNCHANGED vars

Next ==
  \/ \E s \in Sources(mode) : Fetch(s)
  \/ Close
  \/ \E w \in Workers :
       RunPosted(w) \/ CallCheck(w) \/ CallReport(w) \/ TimerFires(w) \/ CallEnds(w) \/ CallRetries(w)
       \/ DestroyMember(w)
  \/ Over

\* Dispatchers run what is posted, timers fire, calls end (HttpCall); a source
\* gets its first token (TokenSubscriber), then as many as it likes.
Fairness ==
  /\ \A w \in Workers : WF_vars(RunPosted(w)) /\ WF_vars(DestroyMember(w))
  /\ \A w \in Workers : WF_vars(TimerFires(w)) /\ WF_vars(CallEnds(w))
  /\ \A s \in UNION {Sources(c) : c \in Modes} :
       WF_vars(s \in Sources(mode) /\ fetched[s] = 0 /\ Fetch(s))

Spec == Init /\ [][Next]_vars /\ Fairness

-----------------------------------------------------------------------------
(* Properties *)

\* Where the server waits for tokens, no worker serves a request before its own
\* cache has been made and has both tokens, though each worker learns of tokens
\* and of the listener by posts of its own.
TokenBeforeTraffic ==
  \A w \in listening :
    cache[w] = "alive" /\ (InitTargets # {} => \A s \in Services : tokens[w][s] # NoToken)

\* Every call in flight, retried or not, carries a token made for the service it
\* calls: never an empty one, never the access token of the IAM server, and with
\* a service account never the token of the other service.
RightToken ==
  \A w \in Workers : \A c \in calls[w] :
    c.token.by = CASE mode = "imds" -> "imds" [] mode = "iam" -> "iam"
                   [] mode = "service_account" ->
                        IF c.method = "allocateQuota" THEN "quota_gen" ELSE "sc_gen"

\* The members that a call of a method may still use: its factory, to be taken off
\* active_calls_, and the token, for a retry.
UsedBy(method) == {FactoryOf(method), IF method = "allocateQuota" THEN "quota_token_" ELSE "sc_token_"}

\* Nothing is left that would use a member which is destroyed, at any point of the
\* destructor: no call outlives its factory or its token, and the client, which
\* flushes when its timer fires and when it goes, does not outlive a factory or a
\* token, nor do the reports it holds back outlive the client. So a cache that is
\* gone has left no call, report or timer.
UsersGoFirst ==
  \A w \in Workers :
    /\ \A c \in calls[w] : \A member \in UsedBy(c.method) : Exists(w, member)
    /\ Exists(w, "client_") => \A m \in Methods : \A member \in UsedBy(m) : Exists(w, member)
    /\ timer[w] \/ Batched(w) # 0 => Exists(w, "client_")
    /\ cache[w] = "gone" => members[w] = 0

\* The token a service should have by now.
Latest(s) ==
  CASE mode = "service_account" -> fetched[IF s = "sc" THEN "sc_gen" ELSE "quota_gen"]
    [] mode = "iam" -> fetched["iam"]
    [] mode = "imds" -> fetched["imds"]

\* Every worker learns of every token: again and again both of its tokens are
\* the latest, until its cache is removed, and they are there at all.
WorkersCatchUp ==
  \A w \in Workers :
    []<>(\/ mode = "none"
         \/ closed \/ cache[w] = "gone"
         \/ \A s \in Services : tokens[w][s] # NoToken /\ tokens[w][s].n = Latest(s))

\* No report is held back for ever.
ReportsFlushed == \A w \in Workers : Batched(w) > 0 ~> Batched(w) = 0

=============================================================================
