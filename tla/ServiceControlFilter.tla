------------------------ MODULE ServiceControlFilter ------------------------
(***************************************************************************)
(* One HTTP stream through the service control filter: the filter          *)
(* (filter.cc), the handler it creates for the stream (handler_impl.cc)    *)
(* and the check and quota calls the handler makes through the client      *)
(* cache of its worker thread (client_cache.cc).                           *)
(*                                                                         *)
(* The stream lives on one thread, so that every filter callback is one    *)
(* action with everything it runs inside itself: an answer of the check    *)
(* runs the quota call, the decision and the local reply.  What interleave *)
(* are the events: request data, response data, the answer of the check,   *)
(* replies of other filters, a reset of the stream, the clock.             *)
(*                                                                         *)
(* The check is one call of CallContract: answered at once, or later, or   *)
(* by cancelling it, and only once.                                        *)
(***************************************************************************)
EXTENDS Integers, Sequences

CONSTANTS
  MinInterval,  \* min_stream_report_interval_ms, in ticks of the clock
  MaxTime,      \* bound on the clock
  MaxFrames     \* bound on the data frames of each direction

ASSUME IntervalAssumption == MinInterval \in Nat \ {0}
ASSUME BoundsAssumption == MaxTime \in Nat /\ MaxFrames \in Nat

VARIABLES
  rq,            \* what the configuration and the request headers say (constant)
  phase,         \* the stream: "idle", "open", "destroyed" (onDestroy), "logged"
  requestEnded,  \* the request has been received completely
  response,      \* response seen by the filter: "none", "headers", "done"
  received,      \* data frames received, streamInfo().bytesReceived()
  sent,          \* data frames sent, streamInfo().bytesSent()
  clock,         \* system_clock::now()
  handler,       \* handler_ is not null
  state,         \* state_
  stopped,       \* stopped_
  requireCtx,    \* require_ctx_: "null", "operation" or "nonMatch"
  cancelFn,      \* cancel_fn_ is not null
  keyUsable,     \* check_response_info_: the key is valid and the service activated
  checkStatus,   \* check_status_
  protocolKnown, \* frontend_protocol_ was assigned (it has no initial value)
  isFirstReport, \* is_first_report_
  lastReported,  \* last_reported_
  checkCall,     \* the check's HttpCall: "none", "waiting", "answered"
  quotaCalls,    \* quota allocations asked for
  allowed,       \* stats_.allowed_
  denied,        \* stats_.denied_
  passed,        \* what of the request went on to the next filter
  reports,       \* the reports sent for the stream
  crashed,       \* a null pointer was dereferenced
  quotaLate      \* onDestroy, by cancelling the check, has asked for quota

streamVars == <<rq, phase, requestEnded, received, sent, clock>>
reportVars == <<isFirstReport, lastReported, reports, crashed>>
checkVars == <<state, cancelFn, keyUsable, checkStatus, checkCall, quotaCalls, allowed, denied>>
vars == <<streamVars, response, handler, stopped, requireCtx, protocolKnown, passed, quotaLate,
          reportVars, checkVars>>

\* Configuration and request: is there a requirement for the operation, its
\* skip_service_control, allow_without_api_key and metric_costs, whether the
\* request has an API key and a gRPC content type, and network_fail_open.
Requests ==
  {r \in [configured : BOOLEAN, skip : BOOLEAN, allowNoKey : BOOLEAN, quota : BOOLEAN,
          hasKey : BOOLEAN, grpc : BOOLEAN, failOpen : BOOLEAN] :
     ~r.configured => ~r.skip /\ ~r.allowNoKey /\ ~r.quota}

States == {"Init", "Calling", "Responded", "Complete"}
Report == [first : BOOLEAN, final : BOOLEAN, key : BOOLEAN, protocolKnown : BOOLEAN,
           at : 0..MaxTime, requestBytes : Nat, responseBytes : Nat]

TypeOK ==
  /\ rq \in Requests
  /\ phase \in {"idle", "open", "destroyed", "logged"}
  /\ requestEnded \in BOOLEAN
  /\ response \in {"none", "headers", "done"}
  /\ received \in 0..MaxFrames /\ sent \in 0..MaxFrames
  /\ clock \in 0..MaxTime /\ lastReported \in 0..clock
  /\ handler \in BOOLEAN /\ stopped \in BOOLEAN
  /\ state \in States
  /\ requireCtx \in {"null", "operation", "nonMatch"}
  /\ cancelFn \in BOOLEAN /\ keyUsable \in BOOLEAN /\ checkStatus \in {"OK", "ERROR"}
  /\ protocolKnown \in BOOLEAN /\ isFirstReport \in BOOLEAN
  /\ checkCall \in {"none", "waiting", "answered"}
  /\ quotaCalls \in 0..1 /\ allowed \in 0..1 /\ denied \in 0..1
  /\ passed \subseteq {"headers", "data", "trailers"}
  /\ reports \in Seq(Report)
  /\ crashed \in BOOLEAN
  /\ quotaLate \in BOOLEAN

Init ==
  /\ rq \in Requests
  /\ phase = "idle" /\ requestEnded = FALSE /\ response = "none"
  /\ received = 0 /\ sent = 0 /\ clock = 0 /\ lastReported = 0
  /\ handler = FALSE /\ stopped = FALSE /\ state = "Init"
  /\ requireCtx = "null" /\ cancelFn = FALSE
  /\ keyUsable = TRUE /\ checkStatus = "OK"
  /\ protocolKnown = FALSE /\ isFirstReport = TRUE
  /\ checkCall = "none" /\ quotaCalls = 0 /\ allowed = 0 /\ denied = 0
  /\ passed = {} /\ reports = <<>> /\ crashed = FALSE /\ quotaLate = FALSE

-----------------------------------------------------------------------------
(* The handler *)

isCheckRequired == ~rq.allowNoKey /\ ~rq.skip
isQuotaRequired == ~rq.skip /\ rq.quota
isReportRequired == requireCtx = "nonMatch" \/ ~rq.skip

\* What the check can say: the classes of CheckResponse that
\* ConvertCheckResponse tells apart, and a call that failed or was cancelled.
CheckAnswers == {"ok", "unavailable", "badKey", "notActivated", "denied", "failed"}

\* Mutant of AnswerStatus: a service that is not activated passes.
AnswerStatusLenient(answer) ==
  IF \/ answer \in {"ok", "unavailable", "notActivated"}
     \/ answer \in {"failed", "cancelled"} /\ rq.failOpen
  THEN "OK" ELSE "ERROR"

\* RequestBuilder::ConvertCheckResponse and network_fail_open.
AnswerStatus(answer) ==
  IF \/ answer \in {"ok", "unavailable"}
     \/ answer \in {"failed", "cancelled"} /\ rq.failOpen
  THEN "OK" ELSE "ERROR"
AnswerKeyUsable(answer) == answer \notin {"badKey", "notActivated"}

\* ServiceControlFilter::onCheckDone and rejectRequest. A rejection sends a
\* local reply, which runs encodeHeaders and encodeData of this filter; after
\* onDestroy nothing is left to reply to.
OnCheckDone(status) ==
  \/ /\ status = "OK"
     /\ allowed' = allowed + 1
     /\ state' = "Complete"
     /\ UNCHANGED <<denied, response, protocolKnown>>
  \/ /\ status # "OK"
     /\ denied' = denied + 1
     /\ state' = "Responded"
     /\ response' = IF phase' = "destroyed" THEN response ELSE "done"
     /\ protocolKnown' = (protocolKnown \/ phase' # "destroyed")
     /\ UNCHANGED allowed

\* callQuota, with check_status_ as the caller has set it. The quota cache
\* answers at once.
CallQuota(status) ==
  \/ /\ ~isQuotaRequired
     /\ checkStatus' = status
     /\ OnCheckDone(status)
     /\ UNCHANGED quotaCalls
  \/ /\ isQuotaRequired
     /\ quotaCalls' = quotaCalls + 1
     /\ \E q \in {"OK", "ERROR"} : checkStatus' = q /\ OnCheckDone(q)

\* The done function of callCheck, and onCheckResponse.
OnCheckResponse(answer) ==
  /\ checkCall' = "answered"
  /\ keyUsable' = AnswerKeyUsable(answer)
  /\ \/ /\ AnswerStatus(answer) = "OK"
        /\ CallQuota("OK")
     \/ /\ AnswerStatus(answer) # "OK"
        /\ checkStatus' = AnswerStatus(answer)
        /\ OnCheckDone(checkStatus')
        /\ UNCHANGED quotaCalls

\* Mutants of CancelFnAfter: kept after the call is over; never stored.
CancelFnAlwaysKept(answered) == TRUE
CancelFnLost(answered) == FALSE

\* cancel_fn_ after callCheck: the call returns a cancel function even when
\* its done function has already run, and on_check_done_called_ drops it.
CancelFnAfter(answered) == ~answered

\* ServiceControlHandlerImpl::callCheck. The check is answered at once, from
\* the cache or because the call fails before it is sent, or it waits.
CallCheck ==
  \/ /\ ~rq.configured
     /\ OnCheckDone("ERROR")
     /\ UNCHANGED <<cancelFn, keyUsable, checkStatus, checkCall, quotaCalls>>
  \/ /\ rq.configured /\ ~isCheckRequired
     /\ CallQuota("OK")
     /\ UNCHANGED <<cancelFn, keyUsable, checkCall>>
  \/ /\ rq.configured /\ isCheckRequired /\ ~rq.hasKey
     /\ checkStatus' = "ERROR"
     /\ OnCheckDone("ERROR")
     /\ UNCHANGED <<cancelFn, keyUsable, checkCall, quotaCalls>>
  \/ /\ rq.configured /\ isCheckRequired /\ rq.hasKey
     /\ \E answer \in CheckAnswers : OnCheckResponse(answer)
     /\ cancelFn' = CancelFnAfter(TRUE)
  \/ /\ rq.configured /\ isCheckRequired /\ rq.hasKey
     /\ checkCall' = "waiting"
     /\ cancelFn' = CancelFnAfter(FALSE)
     /\ state' = "Calling"
     /\ UNCHANGED <<keyUsable, checkStatus, quotaCalls, allowed, denied, response, protocolKnown>>

\* The bytes of a direction so far: its headers count one, each frame one.
Bytes(headers, frames) == headers + frames

\* prepareReportRequest, and what the two kinds of report add to it.
ReportNow(final) ==
  [first |-> isFirstReport,
   final |-> final,
   key |-> rq.hasKey /\ keyUsable,
   protocolKnown |-> final \/ protocolKnown,
   at |-> clock,
   requestBytes |-> Bytes(1, received'),
   responseBytes |-> Bytes(IF response' = "none" THEN 0 ELSE 1, sent')]

\* Mutants of SendIntermediate: it forgets that it reported; it remembers a later
\* time.
SendIntermediateStaysFirst ==
  /\ reports' = Append(reports, ReportNow(FALSE))
  /\ lastReported' = clock
  /\ UNCHANGED isFirstReport

SendIntermediateAhead ==
  /\ reports' = Append(reports, ReportNow(FALSE))
  /\ lastReported' = clock + MinInterval
  /\ isFirstReport' = FALSE

\* The report tryIntermediateReport sends, and what it remembers of it.
SendIntermediate ==
  /\ reports' = Append(reports, ReportNow(FALSE))
  /\ lastReported' = clock
  /\ isFirstReport' = FALSE

IntervalPassed == clock - lastReported >= MinInterval

\* tryIntermediateReport, called through handler_ (null before decodeHeaders);
\* it reads the interval through require_ctx_ (null without a requirement).
TryIntermediateReport ==
  \/ /\ ~handler \/ (rq.grpc /\ requireCtx = "null")
     /\ crashed' = TRUE
     /\ UNCHANGED <<isFirstReport, lastReported, reports>>
  \/ /\ handler
     /\ ~rq.grpc \/ (requireCtx # "null" /\ ~IntervalPassed)
     /\ UNCHANGED reportVars
  \/ /\ handler /\ rq.grpc /\ requireCtx # "null" /\ IntervalPassed
     /\ SendIntermediate
     /\ UNCHANGED crashed

\* A data frame has data or is empty.
FrameLengths == {0, 1}

\* Mutant of MayReportData: the end of the stream is not tested.
MayReportAnyData(endStream, length) == length > 0

\* Which data frames try a report.
MayReportData(endStream, length) == ~endStream /\ length > 0

DataReport(endStream, length) ==
  IF MayReportData(endStream, length) THEN TryIntermediateReport ELSE UNCHANGED reportVars

-----------------------------------------------------------------------------
(* The filter *)

\* createHandler: the constructor looks up the requirement of the operation.
CreateHandler ==
  /\ handler' = TRUE
  /\ requireCtx' = IF rq.configured THEN "operation" ELSE "null"

\* Mutant of StopIteration: stopped_ stays false.
NeverStopIteration == FALSE

\* decodeHeaders goes on only when the decision was made synchronously.
StopIteration == state' # "Complete"

\* decodeHeaders
DecodeHeaders ==
  /\ phase = "idle"
  /\ phase' = "open"
  /\ CreateHandler
  /\ lastReported' = clock
  /\ CallCheck
  /\ stopped' = StopIteration
  /\ passed' = IF state' = "Complete" THEN passed \cup {"headers"} ELSE passed
  /\ UNCHANGED <<rq, requestEnded, received, sent, clock, isFirstReport, reports, crashed,
                 quotaLate>>

\* A complete response ends the stream: the connection manager destroys it
\* before any other event of the stream.
Active == phase = "open" /\ response # "done"

\* The answer of a check that waits.
CheckAnswered(answer) ==
  /\ Active
  /\ checkCall = "waiting"
  /\ UNCHANGED streamVars
  /\ OnCheckResponse(answer)
  /\ cancelFn' = FALSE
  /\ passed' = IF state' = "Complete" /\ stopped THEN passed \cup {"headers"} ELSE passed
  /\ UNCHANGED <<handler, stopped, requireCtx, quotaLate, reportVars>>

RequestFlows == Active /\ handler /\ ~requestEnded

\* Mutant of HoldsRequest: the state is not tested.
HoldsNothing == FALSE

\* decodeData and decodeTrailers hold the request back while the check waits.
HoldsRequest == state = "Calling"

\* decodeData
DecodeData(endStream, length) ==
  /\ RequestFlows
  /\ received + length <= MaxFrames
  /\ received' = received + length
  /\ requestEnded' = endStream
  /\ UNCHANGED <<rq, phase, sent, clock, response>>
  /\ DataReport(endStream, length)
  /\ passed' = IF HoldsRequest THEN passed ELSE passed \cup {"data"}
  /\ UNCHANGED <<handler, stopped, requireCtx, protocolKnown, quotaLate, checkVars>>

\* decodeTrailers
DecodeTrailers ==
  /\ RequestFlows
  /\ requestEnded' = TRUE
  /\ passed' = IF HoldsRequest THEN passed ELSE passed \cup {"trailers"}
  /\ UNCHANGED <<rq, phase, received, sent, clock, response, handler, stopped, requireCtx,
                 protocolKnown, quotaLate, reportVars, checkVars>>

\* encodeHeaders, for the response of the backend.
EncodeHeaders(endStream) ==
  /\ phase = "open"
  /\ "headers" \in passed
  /\ response = "none"
  /\ response' = IF endStream THEN "done" ELSE "headers"
  /\ protocolKnown' = (protocolKnown \/ handler)
  /\ UNCHANGED <<streamVars, handler, stopped, requireCtx, passed, quotaLate, reportVars, checkVars>>

\* encodeData, for the response of the backend.
EncodeData(endStream, length) ==
  /\ phase = "open"
  /\ response = "headers"
  /\ sent + length <= MaxFrames
  /\ sent' = sent + length
  /\ response' = IF endStream THEN "done" ELSE "headers"
  /\ UNCHANGED <<rq, phase, requestEnded, received, clock>>
  /\ DataReport(endStream, length)
  /\ UNCHANGED <<handler, stopped, requireCtx, protocolKnown, passed, quotaLate, checkVars>>

\* The trailers of the backend's response, which the filter lets pass.
EncodeTrailers ==
  /\ phase = "open"
  /\ response = "headers"
  /\ response' = "done"
  /\ UNCHANGED <<streamVars, handler, stopped, requireCtx, protocolKnown, passed, quotaLate,
                 reportVars, checkVars>>

\* Another filter or the connection manager replies: headers, then one frame
\* that ends the stream, through encodeHeaders and encodeData. An earlier filter
\* can reply before decodeHeaders has created the handler.
ReplyByOther ==
  /\ phase \in {"idle", "open"}
  /\ response = "none"
  /\ phase' = "open"
  /\ response' = "done"
  /\ protocolKnown' = (protocolKnown \/ handler)
  /\ UNCHANGED <<rq, requestEnded, received, sent, clock>>
  /\ DataReport(TRUE, 1)
  /\ UNCHANGED <<handler, stopped, requireCtx, passed, quotaLate, checkVars>>

\* onDestroy: the stream is complete or was reset. A check that waits is
\* cancelled, and its done function runs before cancel() returns.
OnDestroy ==
  /\ phase \in {"idle", "open"}
  /\ phase' = "destroyed"
  /\ UNCHANGED <<rq, requestEnded, received, sent, clock>>
  /\ \/ /\ cancelFn
        /\ OnCheckResponse("cancelled")
        /\ cancelFn' = FALSE
        /\ quotaLate' = (quotaCalls' # quotaCalls)
     \/ /\ ~cancelFn
        /\ UNCHANGED <<checkVars, response, protocolKnown, quotaLate>>
  /\ UNCHANGED <<handler, stopped, requireCtx, passed, reportVars>>

\* log, called when the stream object is deleted: callReport, of the handler
\* made now if decodeHeaders was never called. Without a handler the stream may
\* even have ended before its request headers came: nothing is reported then.
Log ==
  /\ phase = "destroyed"
  /\ phase' = "logged"
  /\ UNCHANGED <<rq, requestEnded, received, sent, clock, response>>
  /\ \/ /\ handler' = TRUE
        /\ requireCtx' = IF rq.configured THEN "operation" ELSE "nonMatch"
        /\ reports' = IF isReportRequired' THEN Append(reports, ReportNow(TRUE)) ELSE reports
     \/ /\ ~handler
        /\ UNCHANGED <<handler, requireCtx, reports>>
  /\ UNCHANGED <<stopped, protocolKnown, passed, quotaLate, isFirstReport, lastReported, crashed,
                 checkVars>>

Tick ==
  /\ Active
  /\ clock < MaxTime
  /\ clock' = clock + 1
  /\ UNCHANGED <<rq, phase, requestEnded, received, sent, response, handler, stopped, requireCtx,
                 protocolKnown, passed, quotaLate, reportVars, checkVars>>

\* The stream is over.
Over == phase = "logged" /\ UNCHANGED vars

Next ==
  \/ DecodeHeaders
  \/ \E answer \in CheckAnswers : CheckAnswered(answer)
  \/ \E endStream \in BOOLEAN, length \in FrameLengths :
       DecodeData(endStream, length) \/ EncodeData(endStream, length)
  \/ \E endStream \in BOOLEAN : EncodeHeaders(endStream)
  \/ DecodeTrailers
  \/ EncodeTrailers
  \/ ReplyByOther
  \/ OnDestroy
  \/ Log
  \/ Tick
  \/ Over

\* The check's HttpCall is answered in the end (CallContract).
Fairness == WF_vars(\E answer \in CheckAnswers : CheckAnswered(answer))

Spec == Init /\ [][Next]_vars /\ Fairness

-----------------------------------------------------------------------------
(* Properties *)

\* No callback goes through a null handler_ (an earlier filter replied, so that
\* decodeHeaders was never called) or a null require_ctx_ (the operation has no
\* requirement): encodeData and decodeData do not test them.
NoNullDereference == ~crashed

\* Nothing of a request reaches the next filter before the decision to allow
\* it: its operation has a requirement, a check it needs was answered, and a
\* quota it needs was asked for.
NothingPassesUnchecked ==
  passed # {} =>
    /\ state = "Complete" /\ allowed = 1
    /\ rq.configured
    /\ isCheckRequired => rq.hasKey /\ checkCall = "answered"
    /\ isQuotaRequired => quotaCalls = 1

\* A stream is decided once, whatever the order of the answer, other replies
\* and the reset of the stream: it counts as allowed or as denied, never both,
\* and state_ says which.
DecidedOnce ==
  /\ allowed + denied <= 1
  /\ allowed = 1 <=> state = "Complete"
  /\ denied = 1 <=> state = "Responded"

\* The handler holds a cancel function exactly while the check waits: onDestroy
\* never cancels a call that has deleted itself, and never leaves behind one
\* that would call into the deleted handler.
CancelFnExact == cancelFn <=> checkCall = "waiting"

\* After the check has found the key unusable, the request costs no quota,
\* nothing of it passes, and its final report does not name the key.
BadKeyNeverUsed ==
  ~keyUsable =>
    /\ quotaCalls = 0 /\ passed = {} /\ state = "Responded"
    /\ \A i \in 1..Len(reports) : reports[i].final => ~reports[i].key

\* Of the reports of a stream the first, and only it, is marked first (it
\* carries the request count), and a logged stream that must be reported ends
\* with its final report.
FirstAndFinalReport ==
  /\ \A i \in 1..Len(reports) : reports[i].first <=> i = 1
  /\ \A i \in 1..Len(reports) : reports[i].final => i = Len(reports)
  /\ phase = "logged" /\ handler /\ isReportRequired =>
       reports # <<>> /\ reports[Len(reports)].final

\* A request held back for its check goes on, is answered, or its stream ends.
HeldRequestResumes ==
  (Active /\ state = "Calling") ~> ("headers" \in passed \/ ~Active)

\* onDestroy cancels the requests of the stream and starts no new one.
DestroyStartsNoCall == ~quotaLate

\* Every report names the frontend protocol, which the handler takes from the
\* response headers.
ReportsKnowProtocol == \A i \in 1..Len(reports) : reports[i].protocolKnown

=============================================================================
