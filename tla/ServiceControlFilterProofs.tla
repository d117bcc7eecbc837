--------------------- MODULE ServiceControlFilterProofs ---------------------
(***************************************************************************)
(* Proofs about ServiceControlFilter, for streams of any length, any       *)
(* configuration and any request.                                          *)
(***************************************************************************)
EXTENDS ServiceControlFilter, TLAPS

Undecided == allowed = 0 /\ denied = 0 /\ quotaCalls = 0 /\ passed = {}

\* What state_ says of the check, of the handler and of what went on.
InitOK ==
  /\ state = "Init" /\ Undecided
  /\ checkCall = "none" /\ cancelFn = FALSE
  /\ handler = FALSE \/ phase = "logged"
  /\ response # "headers"

CallingOK ==
  /\ state = "Calling" /\ Undecided
  /\ checkCall = "waiting" /\ cancelFn = TRUE
  /\ handler = TRUE /\ phase = "open" /\ response # "headers"
  /\ rq.configured /\ isCheckRequired /\ rq.hasKey

CompleteOK ==
  /\ state = "Complete" /\ allowed = 1 /\ denied = 0
  /\ checkCall # "waiting" /\ cancelFn = FALSE
  /\ handler = TRUE
  /\ rq.configured
  /\ isCheckRequired => rq.hasKey /\ checkCall = "answered"
  /\ isQuotaRequired => quotaCalls = 1

RespondedOK ==
  /\ state = "Responded" /\ allowed = 0 /\ denied = 1 /\ passed = {}
  /\ checkCall # "waiting" /\ cancelFn = FALSE
  /\ handler = TRUE
  /\ phase = "open" => response = "done"
  /\ response # "headers"

StateOK == InitOK \/ CallingOK \/ CompleteOK \/ RespondedOK

\* A stream that has not been seen has nothing; one that has been decoded has the
\* requirement of its operation, if there is one.
HandlerOK ==
  /\ phase = "idle" => state = "Init" /\ response = "none"
  /\ handler /\ phase # "logged" => (requireCtx = "null" => ~rq.configured)

IInv == StateOK /\ HandlerOK /\ NoNullDereference

\* Nothing is known at the start.
LEMMA InitIInv == Init => IInv
BY DEF Init, IInv, StateOK, InitOK, Undecided, HandlerOK, NoNullDereference

\* A request that flows, or a response of the backend, has a handler with a
\* requirement.
LEMMA FlowHasContext ==
  ASSUME IInv, phase = "open", response # "done", handler \/ response = "headers"
  PROVE handler = TRUE /\ requireCtx # "null" /\ state \in {"Calling", "Complete"}
<1>1. CASE InitOK
  BY <1>1 DEF InitOK
<1>2. CASE CallingOK
  BY <1>2 DEF CallingOK, IInv, HandlerOK
<1>3. CASE CompleteOK
  BY <1>3 DEF CompleteOK, IInv, HandlerOK
<1>4. CASE RespondedOK
  BY <1>4 DEF RespondedOK
<1> QED BY <1>1, <1>2, <1>3, <1>4 DEF IInv, StateOK

\* There, a report does not go through a null pointer.
LEMMA ReportSafe ==
  ASSUME NoNullDereference, handler = TRUE, requireCtx # "null", NEW e, NEW l, DataReport(e, l)
  PROVE NoNullDereference'
BY DEF DataReport, TryIntermediateReport, NoNullDereference, reportVars

\* onCheckDone, once: the decision of a stream that has none.
LEMMA OnCheckDoneDecides ==
  ASSUME NEW status, OnCheckDone(status), allowed = 0, denied = 0
  PROVE \/ state' = "Complete" /\ allowed' = 1 /\ denied' = 0 /\ response' = response
        \/ /\ state' = "Responded" /\ allowed' = 0 /\ denied' = 1
           /\ response' = IF phase' = "destroyed" THEN response ELSE "done"
BY DEF OnCheckDone

\* callQuota decides, and lets nothing through without asking for a quota it needs.
LEMMA CallQuotaDecides ==
  ASSUME NEW status, CallQuota(status), allowed = 0, denied = 0, quotaCalls = 0
  PROVE \/ /\ state' = "Complete" /\ allowed' = 1 /\ denied' = 0 /\ response' = response
           /\ isQuotaRequired => quotaCalls' = 1
        \/ /\ state' = "Responded" /\ allowed' = 0 /\ denied' = 1
           /\ response' = IF phase' = "destroyed" THEN response ELSE "done"
BY OnCheckDoneDecides DEF CallQuota

\* So does an answer of the check.
LEMMA OnCheckResponseDecides ==
  ASSUME NEW answer, OnCheckResponse(answer), allowed = 0, denied = 0, quotaCalls = 0
  PROVE /\ checkCall' = "answered"
        /\ \/ /\ state' = "Complete" /\ allowed' = 1 /\ denied' = 0 /\ response' = response
              /\ isQuotaRequired => quotaCalls' = 1
           \/ /\ state' = "Responded" /\ allowed' = 0 /\ denied' = 1
              /\ response' = IF phase' = "destroyed" THEN response ELSE "done"
<1>1. CASE CallQuota("OK")
  BY <1>1, CallQuotaDecides DEF OnCheckResponse
<1>2. CASE /\ AnswerStatus(answer) # "OK" /\ checkStatus' = AnswerStatus(answer)
           /\ OnCheckDone(checkStatus')
  BY <1>2 DEF OnCheckResponse, OnCheckDone
<1> QED BY <1>1, <1>2 DEF OnCheckResponse

\* decodeHeaders: the check is made, and decides now or waits.
LEMMA DecodeHeadersIInv == ASSUME IInv, DecodeHeaders PROVE IInv'
<1>1. /\ InitOK /\ Undecided /\ response = "none" /\ ~crashed
      /\ checkCall = "none" /\ cancelFn = FALSE
  BY DEF IInv, StateOK, InitOK, CallingOK, CompleteOK, RespondedOK, HandlerOK, DecodeHeaders,
         NoNullDereference
<1>2. /\ phase' = "open" /\ handler' = TRUE /\ (requireCtx' = "null" => ~rq.configured)
      /\ UNCHANGED <<rq, crashed>>
      /\ passed' = IF state' = "Complete" THEN {"headers"} ELSE {}
  BY <1>1 DEF DecodeHeaders, CreateHandler, Undecided
<1>3. UNCHANGED <<isCheckRequired, isQuotaRequired>>
  BY <1>2 DEF isCheckRequired, isQuotaRequired
<1>4. CASE ~rq.configured /\ OnCheckDone("ERROR") /\ UNCHANGED <<cancelFn, checkCall>>
  BY <1>1, <1>2, <1>4 DEF OnCheckDone, Undecided, IInv, StateOK, RespondedOK, HandlerOK, NoNullDereference
<1>5. CASE rq.configured /\ ~isCheckRequired /\ CallQuota("OK") /\ UNCHANGED <<cancelFn, checkCall>>
  <2>1. StateOK'
    BY <1>1, <1>2, <1>3, <1>5, CallQuotaDecides DEF Undecided, StateOK, CompleteOK, RespondedOK
  <2> QED BY <1>1, <1>2, <2>1 DEF IInv, HandlerOK, NoNullDereference
<1>6. CASE OnCheckDone("ERROR") /\ UNCHANGED <<cancelFn, checkCall>>
  BY <1>1, <1>2, <1>6 DEF OnCheckDone, Undecided, IInv, StateOK, RespondedOK, HandlerOK, NoNullDereference
<1>7. CASE /\ rq.configured /\ isCheckRequired /\ rq.hasKey
           /\ \E answer \in CheckAnswers : OnCheckResponse(answer)
           /\ cancelFn' = CancelFnAfter(TRUE)
  <2>1. StateOK'
    BY <1>1, <1>2, <1>3, <1>7, OnCheckResponseDecides
       DEF Undecided, StateOK, CompleteOK, RespondedOK, CancelFnAfter
  <2> QED BY <1>1, <1>2, <2>1 DEF IInv, HandlerOK, NoNullDereference
<1>8. CASE /\ rq.configured /\ isCheckRequired /\ rq.hasKey
           /\ checkCall' = "waiting" /\ cancelFn' = CancelFnAfter(FALSE) /\ state' = "Calling"
           /\ UNCHANGED <<quotaCalls, allowed, denied, response>>
  <2>1. CallingOK'
    BY <1>1, <1>2, <1>3, <1>8 DEF Undecided, CallingOK, CancelFnAfter
  <2> QED BY <1>1, <1>2, <2>1 DEF IInv, StateOK, HandlerOK, NoNullDereference
<1>9. CallCheck
  BY DEF DecodeHeaders
<1> QED BY <1>4, <1>5, <1>6, <1>7, <1>8, <1>9 DEF CallCheck

\* The late answer of the check, and the one that cancelling makes.
LEMMA AnswerDecides ==
  ASSUME IInv, CallingOK, NEW answer, OnCheckResponse(answer), cancelFn' = FALSE,
         UNCHANGED <<rq, handler, requireCtx, crashed>>, phase' \in {"open", "destroyed"},
         passed' = passed \/ state' = "Complete"
  PROVE IInv'
<1>1. UNCHANGED <<isCheckRequired, isQuotaRequired>>
  BY DEF isCheckRequired, isQuotaRequired
<1>2. StateOK'
  BY <1>1, OnCheckResponseDecides DEF Undecided, CallingOK, StateOK, CompleteOK, RespondedOK
<1> QED BY <1>2 DEF IInv, CallingOK, HandlerOK, NoNullDereference

\* The answer of a check that waits.
LEMMA CheckAnsweredIInv ==
  ASSUME IInv, NEW answer, CheckAnswered(answer) PROVE IInv'
<1>1. CallingOK
  BY DEF IInv, StateOK, InitOK, CompleteOK, RespondedOK, CheckAnswered
<1> QED BY <1>1, AnswerDecides DEF CheckAnswered, CallingOK, streamVars, reportVars

\* onDestroy.
LEMMA OnDestroyIInv == ASSUME IInv, OnDestroy PROVE IInv'
<1>1. phase' = "destroyed" /\ UNCHANGED <<rq, handler, requireCtx, passed, crashed>>
      /\ phase \in {"idle", "open"}
  BY DEF OnDestroy, reportVars
<1>2. CASE cancelFn = TRUE
  <2>1. CallingOK
    BY <1>2 DEF IInv, StateOK, InitOK, CompleteOK, RespondedOK
  <2> QED BY <1>1, <1>2, <2>1, AnswerDecides DEF OnDestroy
<1>3. CASE cancelFn = FALSE
  <2>1. UNCHANGED <<checkVars, response>>
    BY <1>3 DEF OnDestroy
  <2>2. ~CallingOK
    BY <1>3 DEF CallingOK
  <2>3. UNCHANGED <<isCheckRequired, isQuotaRequired>>
    BY <1>1 DEF isCheckRequired, isQuotaRequired
  <2>4. StateOK'
    BY <1>1, <2>1, <2>2, <2>3
       DEF IInv, checkVars, StateOK, InitOK, CompleteOK, RespondedOK, Undecided
  <2> QED BY <1>1, <2>4 DEF IInv, HandlerOK, NoNullDereference
<1>4. cancelFn \in BOOLEAN
  BY DEF IInv, StateOK, InitOK, CallingOK, CompleteOK, RespondedOK
<1> QED BY <1>2, <1>3, <1>4

\* What decides nothing: the check and the handler stay as they are, and what goes on
\* goes on after the decision.
LEMMA FlowIInv ==
  ASSUME IInv, UNCHANGED <<rq, handler, requireCtx, checkVars>>, NoNullDereference',
         phase' = phase \/ (phase = "idle" /\ phase' = "open" /\ response' = "done"),
         passed' = passed \/ state = "Complete",
         response' = response \/ response' = "done" \/ (response' = "headers" /\ state = "Complete"),
         phase = "idle" => phase' = "open" \/ response' = response
  PROVE IInv'
<1>1. UNCHANGED <<isCheckRequired, isQuotaRequired>>
  BY DEF isCheckRequired, isQuotaRequired
<1>2. CASE InitOK
  BY <1>2 DEF IInv, StateOK, InitOK, Undecided, HandlerOK, checkVars
<1>3. CASE CallingOK
  BY <1>1, <1>3 DEF IInv, StateOK, CallingOK, Undecided, HandlerOK, checkVars
<1>4. CASE CompleteOK
  <2>1. CompleteOK' /\ phase # "idle"
    BY <1>1, <1>4 DEF IInv, CompleteOK, HandlerOK, checkVars
  <2> QED BY <1>4, <2>1 DEF IInv, StateOK, HandlerOK, CompleteOK
<1>5. CASE RespondedOK
  <2>1. RespondedOK' /\ phase # "idle"
    BY <1>5 DEF IInv, RespondedOK, HandlerOK, checkVars
  <2> QED BY <1>5, <2>1 DEF IInv, StateOK, HandlerOK, RespondedOK
<1> QED BY <1>2, <1>3, <1>4, <1>5 DEF IInv, StateOK

\* What went on was allowed.
LEMMA PassedIsComplete == ASSUME IInv, passed # {} PROVE state = "Complete"
BY DEF IInv, StateOK, InitOK, CallingOK, CompleteOK, RespondedOK, Undecided

\* decodeData.
LEMMA DecodeDataIInv == ASSUME IInv, NEW e \in BOOLEAN, NEW l \in FrameLengths, DecodeData(e, l) PROVE IInv'
<1>1. phase = "open" /\ response # "done" /\ handler
  BY DEF DecodeData, RequestFlows, Active
<1>2. handler = TRUE /\ requireCtx # "null" /\ state \in {"Calling", "Complete"}
  BY <1>1, FlowHasContext
<1>3. NoNullDereference'
  BY <1>2, ReportSafe DEF IInv, DecodeData
<1>4. passed' = passed \/ state = "Complete"
  BY <1>2 DEF DecodeData, HoldsRequest
<1> QED BY <1>1, <1>3, <1>4, FlowIInv DEF DecodeData

\* decodeTrailers.
LEMMA DecodeTrailersIInv == ASSUME IInv, DecodeTrailers PROVE IInv'
<1>1. phase = "open" /\ response # "done" /\ handler
  BY DEF DecodeTrailers, RequestFlows, Active
<1>2. state \in {"Calling", "Complete"}
  BY <1>1, FlowHasContext
<1>3. passed' = passed \/ state = "Complete"
  BY <1>2 DEF DecodeTrailers, HoldsRequest
<1>4. NoNullDereference'
  BY DEF IInv, NoNullDereference, DecodeTrailers, reportVars
<1> QED BY <1>1, <1>3, <1>4, FlowIInv DEF DecodeTrailers

\* encodeHeaders.
LEMMA EncodeHeadersIInv == ASSUME IInv, NEW e \in BOOLEAN, EncodeHeaders(e) PROVE IInv'
<1>1. phase = "open" /\ state = "Complete"
  BY PassedIsComplete DEF EncodeHeaders
<1>2. NoNullDereference'
  BY DEF IInv, NoNullDereference, EncodeHeaders, reportVars
<1> QED BY <1>1, <1>2, FlowIInv DEF EncodeHeaders, streamVars

\* encodeData.
LEMMA EncodeDataIInv == ASSUME IInv, NEW e \in BOOLEAN, NEW l \in FrameLengths, EncodeData(e, l) PROVE IInv'
<1>1. phase = "open" /\ response = "headers"
  BY DEF EncodeData
<1>2. handler = TRUE /\ requireCtx # "null"
  BY <1>1, FlowHasContext
<1>3. NoNullDereference'
  BY <1>2, ReportSafe DEF IInv, EncodeData
<1> QED BY <1>1, <1>3, FlowIInv DEF EncodeData

\* A reply that ends the stream sends no report, so that it needs no handler.
LEMMA ReplyByOtherIInv == ASSUME IInv, ReplyByOther PROVE IInv'
<1>1. NoNullDereference'
  BY DEF IInv, NoNullDereference, ReplyByOther, DataReport, MayReportData, reportVars
<1> QED BY <1>1, FlowIInv DEF ReplyByOther

\* log.
LEMMA LogIInv == ASSUME IInv, Log PROVE IInv'
<1>1. phase = "destroyed" /\ phase' = "logged" /\ handler' \in {handler, TRUE}
      /\ UNCHANGED <<rq, response, passed, crashed, checkVars>>
  BY DEF Log
<1>2. UNCHANGED <<isCheckRequired, isQuotaRequired>>
  BY <1>1 DEF isCheckRequired, isQuotaRequired
<1>3. CASE InitOK
  BY <1>1, <1>3 DEF IInv, StateOK, InitOK, Undecided, HandlerOK, NoNullDereference, checkVars
<1>4. CASE CallingOK
  BY <1>1, <1>4 DEF CallingOK
<1>5. CASE CompleteOK
  BY <1>1, <1>2, <1>5 DEF IInv, StateOK, CompleteOK, HandlerOK, NoNullDereference, checkVars
<1>6. CASE RespondedOK
  BY <1>1, <1>6 DEF IInv, StateOK, RespondedOK, HandlerOK, NoNullDereference, checkVars
<1> QED BY <1>3, <1>4, <1>5, <1>6 DEF IInv, StateOK

\* Every step keeps the invariant.
LEMMA NextIInv == IInv /\ [Next]_vars => IInv'
<1> SUFFICES ASSUME IInv, [Next]_vars PROVE IInv'
  OBVIOUS
<1>1. CASE EncodeTrailers
  BY <1>1, FlowIInv DEF EncodeTrailers, streamVars, IInv, NoNullDereference, reportVars
<1>2. CASE Tick
  BY <1>2, FlowIInv DEF Tick, IInv, NoNullDereference, reportVars
<1>3. CASE UNCHANGED vars
  BY <1>3, FlowIInv DEF vars, streamVars, IInv, NoNullDereference, reportVars
<1>4. CASE \E answer \in CheckAnswers : CheckAnswered(answer)
  BY <1>4, CheckAnsweredIInv
<1>5. CASE \/ \E e \in BOOLEAN, l \in FrameLengths : DecodeData(e, l) \/ EncodeData(e, l)
          \/ \E e \in BOOLEAN : EncodeHeaders(e)
  BY <1>5, DecodeDataIInv, EncodeHeadersIInv, EncodeDataIInv
<1> QED BY <1>1, <1>2, <1>3, <1>4, <1>5, DecodeHeadersIInv, DecodeTrailersIInv, ReplyByOtherIInv,
           OnDestroyIInv, LogIInv DEF Next, Over

\* The inductive invariant of every behaviour.
LEMMA IInvAlways == Spec => []IInv
BY InitIInv, NextIInv, PTL DEF Spec

\* DecidedOnce for streams of any length: onCheckDone runs at most once, from the
\* cache, from the late answer or from the cancellation in onDestroy.
THEOREM DecidedAtMostOnce == Spec => []DecidedOnce
<1>1. IInv => DecidedOnce
  BY DEF IInv, StateOK, InitOK, CallingOK, CompleteOK, RespondedOK, Undecided, DecidedOnce
<1> QED BY <1>1, IInvAlways, PTL

\* CancelFnExact for streams of any length: cancel_fn_ is set while the check waits,
\* and at no other time.
THEOREM CancelFnIsExact == Spec => []CancelFnExact
<1>1. IInv => CancelFnExact
  BY DEF IInv, StateOK, InitOK, CallingOK, CompleteOK, RespondedOK, CancelFnExact
<1> QED BY <1>1, IInvAlways, PTL

\* NothingPassesUnchecked for streams of any length: headers, data and trailers go on
\* only after the check and the quota the operation requires.
THEOREM OnlyCheckedPasses == Spec => []NothingPassesUnchecked
<1>1. IInv => NothingPassesUnchecked
  BY DEF IInv, StateOK, InitOK, CallingOK, CompleteOK, RespondedOK, Undecided,
         NothingPassesUnchecked
<1> QED BY <1>1, IInvAlways, PTL

\* NoNullDereference for streams of any length: no data frame meets a null handler_
\* or a null require_ctx_.
THEOREM NeverNull == Spec => []NoNullDereference
<1>1. IInv => NoNullDereference
  BY DEF IInv
<1> QED BY <1>1, IInvAlways, PTL

-----------------------------------------------------------------------------
(* Types, the key and the reports of a stream *)

\* A report of the moment is a report.
LEMMA ReportNowType ==
  ASSUME TypeOK, NEW final \in BOOLEAN, received' \in 0..MaxFrames, sent' \in 0..MaxFrames
  PROVE ReportNow(final) \in Report
<1>1. rq.hasKey \in BOOLEAN
  BY DEF TypeOK, Requests
<1>2. (rq.hasKey /\ keyUsable) \in BOOLEAN /\ (final \/ protocolKnown) \in BOOLEAN
  OBVIOUS
<1>3. \A h \in 0..1, n \in 0..MaxFrames : Bytes(h, n) \in Nat
  BY BoundsAssumption DEF Bytes
<1>5. 1 \in 0..1 /\ (IF response' = "none" THEN 0 ELSE 1) \in 0..1
  OBVIOUS
<1>6. Bytes(1, received') \in Nat /\ Bytes(IF response' = "none" THEN 0 ELSE 1, sent') \in Nat
  BY <1>3, <1>5
<1>4. clock \in 0..MaxTime /\ isFirstReport \in BOOLEAN
  BY DEF TypeOK
<1> QED BY <1>2, <1>4, <1>6 DEF ReportNow, Report

\* What a data frame leaves of the reports.
LEMMA DataReportType ==
  ASSUME TypeOK, NEW e \in BOOLEAN, NEW l \in FrameLengths, DataReport(e, l), received' \in 0..MaxFrames, sent' \in 0..MaxFrames
  PROVE /\ lastReported' \in 0..clock /\ isFirstReport' \in BOOLEAN /\ crashed' \in BOOLEAN
        /\ reports' \in Seq(Report)
<1>1. ReportNow(FALSE) \in Report
  BY ReportNowType
<1>2. clock \in 0..clock
  BY BoundsAssumption DEF TypeOK
<1>3. CASE UNCHANGED reportVars
  BY <1>3 DEF TypeOK, reportVars
<1>4. CASE crashed' = TRUE /\ UNCHANGED <<isFirstReport, lastReported, reports>>
  BY <1>4 DEF TypeOK
<1>5. CASE SendIntermediate /\ UNCHANGED crashed
  <2>1. \A q \in Seq(Report), x \in Report : Append(q, x) \in Seq(Report)
    OBVIOUS
  <2>2. reports \in Seq(Report)
    BY DEF TypeOK
  <2>3. reports' \in Seq(Report)
    BY <1>1, <1>5, <2>1, <2>2 DEF SendIntermediate
  <2> QED BY <1>2, <1>5, <2>3 DEF TypeOK, SendIntermediate
<1> QED BY <1>3, <1>4, <1>5 DEF DataReport, TryIntermediateReport

\* Deciding keeps the types of what it decides.
LEMMA OnCheckDoneType ==
  ASSUME TypeOK, Undecided, NEW status \in {"OK", "ERROR"}, OnCheckDone(status)
  PROVE /\ state' \in States /\ allowed' \in 0..1 /\ denied' \in 0..1
        /\ response' \in {"none", "headers", "done"} /\ protocolKnown' \in BOOLEAN
<1>1. CASE status = "OK"
  BY <1>1 DEF TypeOK, Undecided, OnCheckDone, States
<1>2. CASE status # "OK"
  <2>1. protocolKnown' \in BOOLEAN
    BY <1>2 DEF OnCheckDone
  <2> QED BY <1>2, <2>1 DEF TypeOK, Undecided, OnCheckDone, States
<1> QED BY <1>1, <1>2

\* callQuota.
LEMMA CallQuotaType ==
  ASSUME TypeOK, Undecided, CallQuota("OK")
  PROVE /\ state' \in States /\ allowed' \in 0..1 /\ denied' \in 0..1
        /\ response' \in {"none", "headers", "done"} /\ protocolKnown' \in BOOLEAN
        /\ checkStatus' \in {"OK", "ERROR"} /\ quotaCalls' \in 0..1
BY OnCheckDoneType DEF CallQuota, Undecided

\* onCheckResponse.
LEMMA OnCheckResponseType ==
  ASSUME TypeOK, Undecided, NEW answer, OnCheckResponse(answer)
  PROVE /\ state' \in States /\ allowed' \in 0..1 /\ denied' \in 0..1
        /\ response' \in {"none", "headers", "done"} /\ protocolKnown' \in BOOLEAN
        /\ checkStatus' \in {"OK", "ERROR"} /\ quotaCalls' \in 0..1
        /\ checkCall' = "answered" /\ keyUsable' \in BOOLEAN
<1>1. checkCall' = "answered" /\ keyUsable' \in BOOLEAN
  BY DEF OnCheckResponse, AnswerKeyUsable
<1>2. CASE CallQuota("OK")
  BY <1>1, <1>2, CallQuotaType
<1>3. CASE /\ checkStatus' = AnswerStatus(answer) /\ OnCheckDone(checkStatus')
           /\ UNCHANGED quotaCalls
  <2>1. PICK status \in {"OK", "ERROR"} : status = AnswerStatus(answer)
    BY DEF AnswerStatus
  <2> QED BY <1>1, <1>3, <2>1, OnCheckDoneType DEF Undecided
<1> QED BY <1>2, <1>3 DEF OnCheckResponse

\* decodeHeaders.
LEMMA DecodeHeadersType == ASSUME TypeOK, IInv, DecodeHeaders PROVE TypeOK'
<1>1. Undecided
  BY DEF IInv, StateOK, InitOK, CallingOK, CompleteOK, RespondedOK, HandlerOK, DecodeHeaders
<1>2. /\ state' \in States /\ allowed' \in 0..1 /\ denied' \in 0..1
      /\ response' \in {"none", "headers", "done"} /\ protocolKnown' \in BOOLEAN
      /\ checkStatus' \in {"OK", "ERROR"} /\ quotaCalls' \in 0..1
      /\ checkCall' \in {"none", "waiting", "answered"} /\ keyUsable' \in BOOLEAN
      /\ cancelFn' \in BOOLEAN
  <2>1. CASE OnCheckDone("ERROR") /\ checkStatus' \in {checkStatus, "ERROR"}
             /\ UNCHANGED <<cancelFn, keyUsable, checkCall, quotaCalls>>
    BY <1>1, <2>1, OnCheckDoneType DEF TypeOK
  <2>2. CASE CallQuota("OK") /\ UNCHANGED <<cancelFn, keyUsable, checkCall>>
    BY <1>1, <2>2, CallQuotaType DEF TypeOK
  <2>3. CASE (\E answer \in CheckAnswers : OnCheckResponse(answer)) /\ cancelFn' = CancelFnAfter(TRUE)
    BY <1>1, <2>3, OnCheckResponseType DEF CancelFnAfter
  <2>4. CASE /\ checkCall' = "waiting" /\ cancelFn' = CancelFnAfter(FALSE) /\ state' = "Calling"
             /\ UNCHANGED <<keyUsable, checkStatus, quotaCalls, allowed, denied, response, protocolKnown>>
    BY <2>4 DEF CancelFnAfter, TypeOK, States
  <2>5. CallCheck
    BY DEF DecodeHeaders
  <2> QED BY <2>1, <2>2, <2>3, <2>4, <2>5 DEF CallCheck
<1>3. lastReported' \in 0..clock' /\ clock' \in 0..MaxTime
  BY BoundsAssumption DEF DecodeHeaders, TypeOK
<1>4. stopped' \in BOOLEAN /\ passed' \subseteq {"headers", "data", "trailers"}
  BY DEF DecodeHeaders, StopIteration, TypeOK
<1> QED BY <1>2, <1>3, <1>4 DEF TypeOK, DecodeHeaders, CreateHandler

\* The late answer of a check, and the one that cancelling makes.
LEMMA AnswerType ==
  ASSUME TypeOK, IInv, cancelFn, NEW answer, OnCheckResponse(answer), cancelFn' = FALSE,
         UNCHANGED <<rq, requestEnded, received, sent, clock, handler, stopped, requireCtx,
                     reportVars>>,
         phase' \in {"idle", "open", "destroyed", "logged"}, quotaLate' \in BOOLEAN,
         passed' \subseteq {"headers", "data", "trailers"}
  PROVE TypeOK'
<1>1. Undecided
  BY DEF IInv, StateOK, InitOK, CallingOK, CompleteOK, RespondedOK
<1> QED BY <1>1, OnCheckResponseType DEF TypeOK, reportVars

\* The answer of the check, later.
LEMMA CheckAnsweredType == ASSUME TypeOK, IInv, NEW answer, CheckAnswered(answer) PROVE TypeOK'
<1>1. cancelFn
  BY DEF IInv, StateOK, InitOK, CallingOK, CompleteOK, RespondedOK, CheckAnswered
<1>2. passed' \subseteq {"headers", "data", "trailers"}
  BY DEF CheckAnswered, TypeOK
<1>3. phase' \in {"idle", "open", "destroyed", "logged"} /\ quotaLate' \in BOOLEAN
  BY DEF CheckAnswered, streamVars, TypeOK
<1> QED BY <1>1, <1>2, <1>3, AnswerType DEF CheckAnswered, streamVars

\* onDestroy.
LEMMA OnDestroyType == ASSUME TypeOK, IInv, OnDestroy PROVE TypeOK'
<1>1. CASE cancelFn
  <2>1. quotaLate' \in BOOLEAN
    BY <1>1 DEF OnDestroy
  <2>2. passed' \subseteq {"headers", "data", "trailers"} /\ phase' = "destroyed"
    BY DEF OnDestroy, TypeOK
  <2> QED BY <1>1, <2>1, <2>2, AnswerType DEF OnDestroy
<1>2. CASE ~cancelFn
  BY <1>2 DEF OnDestroy, TypeOK, checkVars, reportVars
<1> QED BY <1>1, <1>2

\* decodeData and encodeData.
LEMMA DecodeDataType == ASSUME TypeOK, NEW e \in BOOLEAN, NEW l \in FrameLengths, DecodeData(e, l) PROVE TypeOK'
<1>1. received' \in 0..MaxFrames /\ sent' \in 0..MaxFrames
  BY BoundsAssumption DEF DecodeData, TypeOK, FrameLengths
<1>2. /\ lastReported' \in 0..clock /\ isFirstReport' \in BOOLEAN /\ crashed' \in BOOLEAN
      /\ reports' \in Seq(Report)
  BY <1>1, DataReportType DEF DecodeData
<1>3. passed' \subseteq {"headers", "data", "trailers"}
  BY DEF DecodeData, TypeOK
<1> QED BY <1>1, <1>2, <1>3 DEF DecodeData, TypeOK, checkVars

\* encodeData.
LEMMA EncodeDataType == ASSUME TypeOK, NEW e \in BOOLEAN, NEW l \in FrameLengths, EncodeData(e, l) PROVE TypeOK'
<1>1. received' \in 0..MaxFrames /\ sent' \in 0..MaxFrames
  BY BoundsAssumption DEF EncodeData, TypeOK, FrameLengths
<1>2. /\ lastReported' \in 0..clock /\ isFirstReport' \in BOOLEAN /\ crashed' \in BOOLEAN
      /\ reports' \in Seq(Report)
  BY <1>1, DataReportType DEF EncodeData
<1> QED BY <1>1, <1>2 DEF EncodeData, TypeOK, checkVars

\* A reply, which reports nothing.
LEMMA ReplyByOtherType == ASSUME TypeOK, ReplyByOther PROVE TypeOK'
<1>1. protocolKnown' \in BOOLEAN
  BY DEF ReplyByOther
<1>2. UNCHANGED reportVars
  BY DEF ReplyByOther, DataReport, MayReportData
<1> QED BY <1>1, <1>2 DEF ReplyByOther, TypeOK, checkVars, reportVars

\* encodeHeaders.
LEMMA EncodeHeadersType == ASSUME TypeOK, NEW e \in BOOLEAN, EncodeHeaders(e) PROVE TypeOK'
<1>1. protocolKnown' \in BOOLEAN
  BY DEF EncodeHeaders
<1> QED BY <1>1 DEF EncodeHeaders, TypeOK, streamVars, checkVars, reportVars

\* log.
LEMMA LogType == ASSUME TypeOK, Log PROVE TypeOK'
<1>1. received' \in 0..MaxFrames /\ sent' \in 0..MaxFrames
  BY DEF Log, TypeOK
<1>2. ReportNow(TRUE) \in Report
  BY <1>1, ReportNowType
<1>3. \A q \in Seq(Report), x \in Report : Append(q, x) \in Seq(Report)
  OBVIOUS
<1>4. reports' \in Seq(Report)
  BY <1>2, <1>3 DEF Log, TypeOK
<1>5. handler' \in BOOLEAN /\ requireCtx' \in {"null", "operation", "nonMatch"}
  BY DEF Log, TypeOK
<1>6. UNCHANGED <<rq, requestEnded, received, sent, clock, response, stopped, protocolKnown, passed,
                  quotaLate, isFirstReport, lastReported, crashed, checkVars>> /\ phase' = "logged"
  BY DEF Log
<1> QED BY <1>4, <1>5, <1>6 DEF TypeOK, checkVars

\* Every step keeps the types.
LEMMA NextType == ASSUME TypeOK, IInv, [Next]_vars PROVE TypeOK'
<1>1. CASE DecodeTrailers
  <2>1. passed' \subseteq {"headers", "data", "trailers"}
    BY <1>1 DEF DecodeTrailers, TypeOK
  <2> QED BY <1>1, <2>1 DEF DecodeTrailers, TypeOK, checkVars, reportVars
<1>2. CASE EncodeTrailers
  BY <1>2 DEF EncodeTrailers, TypeOK, streamVars, checkVars, reportVars
<1>3. CASE Tick
  <2>1. clock' \in 0..MaxTime /\ lastReported' \in 0..clock'
    BY <1>3, BoundsAssumption DEF Tick, TypeOK, reportVars
  <2> QED BY <1>3, <2>1 DEF Tick, TypeOK, checkVars, reportVars
<1>4. CASE UNCHANGED vars
  BY <1>4 DEF vars, TypeOK, streamVars, checkVars, reportVars
<1> QED BY <1>1, <1>2, <1>3, <1>4, DecodeHeadersType, CheckAnsweredType, DecodeDataType,
           EncodeHeadersType, EncodeDataType, ReplyByOtherType, OnDestroyType, LogType DEF Next, Over

\* A key is found unusable by the answer that rejects the request.
KeyOK == ~keyUsable => quotaCalls = 0 /\ passed = {} /\ state = "Responded"

\* is_first_report_ says whether there is a report; the final one is sent by log, with
\* the key as the check left it.
ReportsOK ==
  /\ \A i \in 1..Len(reports) : reports[i].first <=> i = 1
  /\ \A i \in 1..Len(reports) :
       reports[i].final => i = Len(reports) /\ phase = "logged" /\ (reports[i].key => keyUsable)
  /\ phase # "logged" => (isFirstReport <=> reports = <<>>)
  /\ phase = "logged" /\ handler /\ isReportRequired =>
       reports # <<>> /\ reports[Len(reports)].final

\* The answer that finds the key unusable asks for no quota and rejects.
LEMMA AnswerKey ==
  ASSUME Undecided, NEW answer, OnCheckResponse(answer), passed' = passed \/ state' = "Complete"
  PROVE KeyOK'
<1>1. CASE AnswerKeyUsable(answer)
  BY <1>1 DEF OnCheckResponse, KeyOK
<1>2. CASE ~AnswerKeyUsable(answer)
  <2>1. AnswerStatus(answer) = "ERROR"
    BY <1>2 DEF AnswerKeyUsable, AnswerStatus
  <2>2. checkStatus' = "ERROR" /\ OnCheckDone(checkStatus') /\ quotaCalls' = 0
    BY <2>1 DEF OnCheckResponse, Undecided
  <2>3. state' = "Responded"
    BY <2>2 DEF OnCheckDone
  <2> QED BY <2>2, <2>3 DEF KeyOK, Undecided
<1> QED BY <1>1, <1>2

\* Every step keeps an unusable key out.
LEMMA NextKey == ASSUME KeyOK, IInv, [Next]_vars PROVE KeyOK'
<1>1. CASE DecodeHeaders
  <2>1. Undecided /\ keyUsable
    BY <1>1 DEF IInv, StateOK, InitOK, CallingOK, CompleteOK, RespondedOK, HandlerOK, DecodeHeaders,
                KeyOK
  <2>2. CASE UNCHANGED keyUsable
    BY <2>1, <2>2 DEF KeyOK
  <2>3. CASE \E answer \in CheckAnswers : OnCheckResponse(answer)
    BY <1>1, <2>1, <2>3, AnswerKey DEF DecodeHeaders
  <2>4. CallCheck
    BY <1>1 DEF DecodeHeaders
  <2> QED BY <2>2, <2>3, <2>4 DEF CallCheck
<1>2. CASE \E answer \in CheckAnswers : CheckAnswered(answer)
  <2>1. PICK answer \in CheckAnswers : CheckAnswered(answer)
    BY <1>2
  <2>2. Undecided
    BY <2>1 DEF CheckAnswered, IInv, StateOK, InitOK, CallingOK, CompleteOK, RespondedOK
  <2> QED BY <2>1, <2>2, AnswerKey DEF CheckAnswered
<1>3. CASE OnDestroy
  <2>1. CASE cancelFn
    <3>1. Undecided
      BY <2>1 DEF IInv, StateOK, InitOK, CallingOK, CompleteOK, RespondedOK
    <3> QED BY <1>3, <2>1, <3>1, AnswerKey DEF OnDestroy
  <2>2. CASE ~cancelFn
    BY <1>3, <2>2 DEF OnDestroy, KeyOK, checkVars
  <2> QED BY <2>1, <2>2
<1>4. CASE DecodeTrailers \/ \E e \in BOOLEAN, l \in FrameLengths : DecodeData(e, l)
  <2>1. passed' = passed \/ state \in {"Calling", "Complete"}
    BY <1>4, FlowHasContext DEF DecodeTrailers, DecodeData, RequestFlows, Active
  <2> QED BY <1>4, <2>1 DEF DecodeTrailers, DecodeData, KeyOK, checkVars
<1>5. CASE UNCHANGED <<passed, checkVars>>
  BY <1>5 DEF KeyOK, checkVars
<1> QED BY <1>1, <1>2, <1>3, <1>4, <1>5
        DEF Next, EncodeTrailers, EncodeHeaders, EncodeData, ReplyByOther, Log, Tick, Over, vars

\* A report that is sent while the stream is not logged.
LEMMA SendReportOK ==
  ASSUME TypeOK, ReportsOK, phase # "logged", NEW final \in BOOLEAN,
         reports' = Append(reports, ReportNow(final))
  PROVE /\ reports' # <<>>
        /\ \A i \in 1..Len(reports') : reports'[i].first <=> i = 1
        /\ \A i \in 1..Len(reports') :
             reports'[i].final => final /\ i = Len(reports') /\ (reports'[i].key => keyUsable)
        /\ reports'[Len(reports')].final = final
<1>1. PICK r : r = ReportNow(final)
  OBVIOUS
<1>2. r.first = isFirstReport /\ r.final = final /\ (r.key => keyUsable)
  BY <1>1 DEF ReportNow
<1>3. reports \in Seq(Report) /\ isFirstReport \in BOOLEAN
  BY DEF TypeOK
<1>4. /\ Len(reports') = Len(reports) + 1 /\ Len(reports) \in Nat
      /\ \A i \in 1..Len(reports) : reports'[i] = reports[i]
      /\ reports'[Len(reports) + 1] = r
  BY <1>1, <1>3
<1>5. reports = <<>> <=> Len(reports) = 0
  BY <1>3
<1>6. isFirstReport <=> Len(reports) = 0
  BY <1>5 DEF ReportsOK
<1>7. \A i \in 1..Len(reports) : ~reports[i].final
  BY DEF ReportsOK
<1>8. \A i \in 1..Len(reports') : i \in 1..Len(reports) \/ i = Len(reports) + 1
  BY <1>4
<1>9. \A i \in 1..Len(reports') : reports'[i].first <=> i = 1
  <2> SUFFICES ASSUME NEW i \in 1..Len(reports') PROVE reports'[i].first <=> i = 1
    OBVIOUS
  <2>1. CASE i \in 1..Len(reports)
    BY <1>4, <2>1 DEF ReportsOK
  <2>2. CASE i = Len(reports) + 1
    BY <1>2, <1>4, <1>6, <2>2
  <2> QED BY <1>8, <2>1, <2>2
<1>10. \A i \in 1..Len(reports') :
             reports'[i].final => final /\ i = Len(reports') /\ (reports'[i].key => keyUsable)
  BY <1>2, <1>4, <1>7, <1>8
<1>11. reports' # <<>> /\ reports'[Len(reports')].final = final
  BY <1>2, <1>3, <1>4
<1> QED BY <1>9, <1>10, <1>11

\* Data frames.
LEMMA DataReports ==
  ASSUME TypeOK, ReportsOK, NEW e \in BOOLEAN, NEW l \in FrameLengths, DataReport(e, l), phase # "logged",
         UNCHANGED <<phase, keyUsable>>
  PROVE ReportsOK'
<1>1. CASE UNCHANGED <<reports, isFirstReport>>
  BY <1>1 DEF ReportsOK
<1>2. CASE SendIntermediate
  <2>1. reports' = Append(reports, ReportNow(FALSE)) /\ isFirstReport' = FALSE
    BY <1>2 DEF SendIntermediate
  <2> QED BY <2>1, SendReportOK DEF ReportsOK
<1> QED BY <1>1, <1>2 DEF DataReport, TryIntermediateReport, reportVars

\* log.
LEMMA LogReports == ASSUME TypeOK, ReportsOK, Log PROVE ReportsOK'
<1>1. phase = "destroyed" /\ phase' = "logged" /\ keyUsable' = keyUsable
  BY DEF Log, checkVars
<1>2. CASE reports' = Append(reports, ReportNow(TRUE))
  BY <1>1, <1>2, SendReportOK DEF ReportsOK
<1>3. CASE reports' = reports /\ ~(handler' /\ isReportRequired')
  BY <1>1, <1>3 DEF ReportsOK
<1>4. \/ handler' /\ reports' = IF isReportRequired' THEN Append(reports, ReportNow(TRUE)) ELSE reports
      \/ ~handler' /\ reports' = reports
  BY DEF Log
<1>5. CASE isReportRequired'
  BY <1>2, <1>3, <1>4, <1>5
<1>6. CASE ~isReportRequired'
  BY <1>3, <1>4, <1>6
<1> QED BY <1>5, <1>6

\* Every step keeps the reports in order.
LEMMA NextReports == ASSUME TypeOK, ReportsOK, IInv, [Next]_vars PROVE ReportsOK'
<1>1. CASE \E e \in BOOLEAN, l \in FrameLengths : DecodeData(e, l) \/ EncodeData(e, l)
  BY <1>1, DataReports DEF DecodeData, EncodeData, RequestFlows, Active, checkVars
<1>2. CASE Log
  BY <1>2, LogReports
<1>3. CASE phase # "logged" /\ phase' # "logged" /\ UNCHANGED <<reports, isFirstReport>>
  BY <1>3 DEF ReportsOK
<1>4. CASE UNCHANGED vars
  BY <1>4 DEF vars, ReportsOK, isReportRequired, streamVars, reportVars, checkVars
<1>5. ReplyByOther => UNCHANGED reportVars
  BY DEF ReplyByOther, DataReport, MayReportData
<1> QED BY <1>1, <1>2, <1>3, <1>4, <1>5
        DEF Next, DecodeHeaders, CheckAnswered, DecodeTrailers, EncodeHeaders, EncodeTrailers,
            ReplyByOther, OnDestroy, Tick, Over, RequestFlows, Active, streamVars, reportVars

\* The types, the key and the reports of every behaviour.
LEMMA StreamAlways == Spec => [](IInv /\ TypeOK /\ KeyOK /\ ReportsOK)
<1>1. Init => TypeOK /\ KeyOK /\ ReportsOK
  <2>1. Init => TypeOK
    <3> SUFFICES ASSUME Init PROVE TypeOK
      OBVIOUS
    <3>1. 0 \in 0..MaxFrames /\ 0 \in 0..MaxTime /\ 0 \in 0..0 /\ 0 \in 0..1
      BY BoundsAssumption
    <3>2. <<>> \in Seq(Report)
      OBVIOUS
    <3> QED BY <3>1, <3>2 DEF Init, TypeOK, States
  <2>2. Init => KeyOK /\ ReportsOK
    BY DEF Init, KeyOK, ReportsOK
  <2> QED BY <2>1, <2>2
<1>2. (TypeOK /\ KeyOK /\ ReportsOK) /\ IInv /\ [Next]_vars => (TypeOK /\ KeyOK /\ ReportsOK)'
  BY NextType, NextKey, NextReports
<1> QED BY <1>1, <1>2, IInvAlways, PTL DEF Spec

\* TypeOK for streams of any length and any bounds; in it, each call and decision is
\* made at most once.
THEOREM TypeCorrect == Spec => []TypeOK
BY StreamAlways, PTL

\* BadKeyNeverUsed for streams of any length: a key the check found unusable costs no
\* quota, lets nothing pass and is not in the final report.
THEOREM BadKeyIsNeverUsed == Spec => []BadKeyNeverUsed
<1>1. KeyOK /\ ReportsOK => BadKeyNeverUsed
  BY DEF KeyOK, ReportsOK, BadKeyNeverUsed
<1> QED BY <1>1, StreamAlways, PTL

\* FirstAndFinalReport for streams of any length: however often data frames report, the
\* first report alone is marked first, and log sends the one that is final.
THEOREM ReportsInOrder == Spec => []FirstAndFinalReport
<1>1. ReportsOK => FirstAndFinalReport
  BY DEF ReportsOK, FirstAndFinalReport
<1> QED BY <1>1, StreamAlways, PTL

=============================================================================
