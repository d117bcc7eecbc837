--------------------------- MODULE StreamReports ---------------------------
(***************************************************************************)
(* What service control is told about one stream: the handler's check,     *)
(* quota and report requests as RequestBuilder fills them, for a builder   *)
(* that was loaded from a service config.  When the filter may pass, hold  *)
(* or reject a request is the subject of ServiceControlFilter.             *)
(*                                                                         *)
(* The stream, its byte counters and its times are Envoy's StreamInfo.  A  *)
(* retry of the router starts the upstream request again.                  *)
(***************************************************************************)
EXTENDS LogsMetricsLoader

CONSTANTS
  Services,      \* named service configs, each a sequence of one, <<>> for none
  Requests,      \* named requests, with the requirement of their operation
  Projects,      \* consumer projects a check may answer with, "" for none
  TicksPerMs,    \* resolution of the times of a stream
  MinInterval,   \* min_stream_report_interval_ms
  HeaderSizes,   \* sizes that response headers and trailers may have
  MaxFrames,     \* bound on the data frames of each direction
  MaxTime        \* bound on the clock, in ticks

ASSUME TimesAssumption ==
  TicksPerMs \in Nat \ {0} /\ MinInterval \in Nat \ {0} /\ MaxTime \in Nat /\ MaxFrames \in Nat
ASSUME SizesAssumption == HeaderSizes \subseteq Nat \ {0}
\* The repeated fields of a service config that the loader walks through.
IsSequence(q) == Len(q) \in Nat /\ DOMAIN q = 1..Len(q)
AreDestinations(q) == IsSequence(q) /\ \A i \in DOMAIN q : IsSequence(q[i].names)
IsService(s) ==
  /\ IsSequence(s.monitored_resources) /\ IsSequence(s.logs) /\ IsSequence(s.metrics)
  /\ AreDestinations(s.logging)
  /\ AreDestinations(s.producer_destinations) /\ AreDestinations(s.consumer_destinations)

ASSUME ServicesAssumption ==
  \A s \in DOMAIN Services : \A i \in DOMAIN Services[s] : IsService(Services[s][i])
ASSUME NamesAssumption == "" \in Projects /\ \A r \in DOMAIN Requests : Requests[r].operation # ""

VARIABLES
  service,       \* the name of the service config
  request,       \* the name of the request
  phase,         \* "idle", "calling", "passed", "rejected", "logged"
  apiKey,        \* api_key_
  checkInfo,     \* check_response_info_
  checkStatus,   \* check_status_
  asked,         \* the check and quota requests sent so far
  received, sent,       \* data frames in each direction
  headerSize,           \* response_header_size_, of the headers this filter saw
  finalSize,            \* size of the headers log was given, other filters being done
  protocol,             \* frontend_protocol_, "unassigned" being any value
  clock,                \* ticks since the stream began
  tx, rx,               \* firstUpstreamTxByteSent, lastUpstreamRxByteReceived
  isFirst, lastReported,
  reports        \* the operations of each report sent

streamVars == <<received, sent, headerSize, protocol, tx, rx>>
reportVars == <<isFirst, lastReported, reports, finalSize>>
checkVars == <<apiKey, checkInfo, checkStatus, asked>>
vars == <<service, request, phase, clock, streamVars, reportVars, checkVars>>

\* The constructor of ServiceControlCallImpl.
LoadedBuilder(s) == IF s = <<>> THEN DefaultRequestBuilder({"endpoints_log"}) ELSE BuilderOf(s[1])
builders == [s \in DOMAIN Services |-> LoadedBuilder(Services[s])]

builder == builders[service]   \* request_builder_
rq == Requests[request]

Unset == -1
Times == 0..MaxTime

TypeOK ==
  /\ service \in DOMAIN Services /\ request \in DOMAIN Requests
  /\ builder.metrics \subseteq supported_metrics
  /\ builder.labels \subseteq UserLabels \cup SystemLabels
  /\ phase \in {"idle", "calling", "passed", "rejected", "logged"}
  /\ checkInfo.consumer_project_id \in Projects
  /\ checkStatus \in {"OK", "ERROR"}
  /\ received \in 0..MaxFrames /\ sent \in 0..MaxFrames
  /\ headerSize \in {0} \cup HeaderSizes /\ finalSize \in {0} \cup HeaderSizes
  /\ clock \in Times /\ lastReported \in Times
  /\ tx \in Times \cup {Unset} /\ rx \in Times \cup {Unset}
  /\ Len(reports) <= 1 + MaxTime \div (MinInterval * TicksPerMs)

Init ==
  /\ service \in DOMAIN Services /\ request \in DOMAIN Requests
  /\ phase = "idle"
  /\ apiKey = "" /\ checkInfo = NoCheckResponseInfo /\ checkStatus = "OK" /\ asked = <<>>
  /\ received = 0 /\ sent = 0 /\ headerSize = 0 /\ protocol = "unassigned"
  /\ clock = 0 /\ tx = Unset /\ rx = Unset
  /\ isFirst = TRUE /\ lastReported = 0 /\ reports = <<>> /\ finalSize = 0

-----------------------------------------------------------------------------
(* The utilities of the handler *)

\* extractAPIKeyFromQuery, -Header and -Cookie: whether a location has the key.
\* An empty cookie counts as none, an empty parameter or header does not.
HasKeyAt(location) ==
  /\ location \in DOMAIN rq.at
  /\ location[1] = "cookie" => rq.at[location] # ""

\* default_api_keys_, for operations that name no locations.
DefaultLocations == <<<<"query", "key">>, <<"query", "api_key">>, <<"header", "x-api-key">>>>

\* extractAPIKey: the first location that has it.
ExtractAPIKey ==
  LET locations == IF rq.locations = <<>> THEN DefaultLocations ELSE rq.locations
      found == SelectSeq(locations, HasKeyAt)
  IN IF found = <<>> THEN "" ELSE rq.at[Head(found)]

\* convertNsToMs
ToMs(ticks) == ticks \div TicksPerMs

\* Mutant of BackendTime: the order of the two times is not tested.
BackendTimeUnordered == IF tx # Unset /\ rx # Unset THEN ToMs(rx - tx) ELSE 0

\* The time at the backend, zero for a request that did not get there.
BackendTime == IF tx # Unset /\ rx # Unset /\ rx >= tx THEN ToMs(rx - tx) ELSE 0

\* fillLatency
FillLatency(complete) ==
  LET total == IF complete = Unset THEN -1 ELSE ToMs(complete)
  IN [request_time_ms |-> total, backend_time_ms |-> BackendTime,
      overhead_time_ms |-> IF total >= BackendTime THEN total - BackendTime ELSE -1]

\* getFrontendProtocol, getBackendProtocol
FrontendProtocol(hasHeaders) == IF hasHeaders /\ rq.grpc THEN "GRPC" ELSE "HTTP"
BackendProtocol ==
  IF rq.backend = "grpc" THEN "GRPC" ELSE IF rq.backend \in {"http1", "http2"} THEN "HTTP"
  ELSE "UNKNOWN"

-----------------------------------------------------------------------------
(* The requests of the handler *)

\* fillOperationInfo
OperationInfo(key) ==
  [operation_id |-> "uuid", operation_name |-> rq.operation, producer_project_id |-> "producer",
   api_key |-> key, current_time |-> clock, client_ip |-> "ip", referer |-> rq.referer]

\* callCheck, once a check is needed.
CheckRequestInfo(key) ==
  OperationInfo(key) ++ [android_package_name |-> "", android_cert_fingerprint |-> "",
                    ios_bundle_id |-> ""]

\* callQuota sends no referer.
QuotaRequestInfo(key) ==
  [OperationInfo(key) EXCEPT !.referer = ""]
    ++ [method_name |-> rq.operation, metric_costs |-> rq.costs]

\* Mutant of ReportKey: a service that is not activated is overlooked.
ReportKeyIfValid == IF checkInfo.is_api_key_valid THEN apiKey ELSE ""

\* The key a report may name.
ReportKey ==
  IF checkInfo.is_api_key_valid /\ checkInfo.service_is_activated THEN apiKey ELSE ""

\* A fresh ReportRequestInfo after prepareReportRequest.
PreparedReport ==
  [operation_id |-> "uuid", operation_name |-> rq.operation, producer_project_id |-> "producer",
   api_key |-> ReportKey, current_time |-> clock, client_ip |-> "ip", referer |-> "",
   api_method |-> rq.operation, api_version |-> "", location |-> "zone",
   compute_platform |-> "UNKNOWN", check_response_info |-> checkInfo, status |-> checkStatus,
   response_code |-> 200, request_size |-> -1, response_size |-> -1,
   latency |-> [request_time_ms |-> -1, backend_time_ms |-> -1, overhead_time_ms |-> -1],
   auth_issuer |-> "", auth_audience |-> "",
   frontend_protocol |-> "UNKNOWN", backend_protocol |-> "UNKNOWN",
   request_bytes |-> 0, response_bytes |-> 0,
   streaming_request_message_counts |-> 0, streaming_response_message_counts |-> 0,
   streaming_durations |-> 0, is_first_report |-> isFirst, is_final_report |-> TRUE]

\* The bytes so far: the headers of the request count one, each frame one, and
\* the headers of the response what they had when this filter saw them.
IntermediateReport(in, out) ==
  [PreparedReport EXCEPT
     !.request_bytes = 1 + in, !.response_bytes = out + headerSize,
     !.frontend_protocol = protocol, !.is_final_report = FALSE]

\* Mutant of FinalResponseBytes: headers and trailers are not counted.
FinalResponseBytesOfBody(headers, trailers) == sent

\* The bytes of the response with the headers and trailers log is given, as big
\* as the filters behind this one have left them, zero for none.
FinalResponseBytes(headers, trailers) == sent + headers + trailers

\* callReport
FinalReport(code, complete, headers, trailers) ==
  [PreparedReport EXCEPT
     !.referer = rq.referer, !.auth_issuer = rq.issuer, !.auth_audience = rq.audience,
     !.frontend_protocol = FrontendProtocol(headers # 0), !.backend_protocol = BackendProtocol,
     !.latency = FillLatency(complete), !.response_code = code,
     !.request_size = 1 + received, !.request_bytes = 1 + received,
     !.response_size = FinalResponseBytes(headers, trailers),
     !.response_bytes = FinalResponseBytes(headers, trailers),
     !.streaming_request_message_counts = IF rq.grpc THEN received ELSE 0,
     !.streaming_response_message_counts = IF rq.grpc THEN sent ELSE 0,
     !.streaming_durations = clock]

SendReport(info) == reports' = Append(reports, FillReportRequest(builder, info))

-----------------------------------------------------------------------------
(* The actions *)

\* callQuota: the answer comes at once, from the cache.
CallQuota(key, before) ==
  \/ /\ DOMAIN rq.costs = {}
     /\ phase' = "passed" /\ checkStatus' = "OK" /\ asked' = before
  \/ /\ DOMAIN rq.costs # {}
     /\ \E error \in {"NONE", "RESOURCE_EXHAUSTED"} :
          LET status == ConvertAllocateQuotaResponse(error)
          IN /\ checkStatus' = IF status = "OK" THEN "OK" ELSE "ERROR"
             /\ phase' = IF status = "OK" THEN "passed" ELSE "rejected"
     /\ asked' = before ++ [quota |-> FillAllocateQuotaRequest(QuotaRequestInfo(key))]

\* decodeHeaders: the handler is created and calls callCheck.
DecodeHeaders ==
  /\ phase = "idle"
  /\ apiKey' = ExtractAPIKey
  /\ lastReported' = clock
  /\ \/ ~rq.check /\ CallQuota(ExtractAPIKey, asked)
     \/ /\ rq.check /\ ExtractAPIKey = ""
        /\ phase' = "rejected" /\ checkStatus' = "ERROR"
        /\ UNCHANGED asked
     \/ /\ rq.check /\ ExtractAPIKey # ""
        /\ phase' = "calling"
        /\ asked' = asked ++ [check |-> FillCheckRequest(CheckRequestInfo(ExtractAPIKey))]
        /\ UNCHANGED checkStatus
  /\ UNCHANGED <<service, request, clock, checkInfo, streamVars, isFirst, reports, finalSize>>

\* onCheckResponse: an answer of service control, or none. A call that failed
\* says nothing about the consumer, and passes if the network fails open.
OnCheckResponse ==
  /\ phase = "calling"
  /\ UNCHANGED <<service, request, clock, apiKey, streamVars, reportVars>>
  /\ \E status \in {"OK", "ERROR"} :
       /\ \/ \E error \in CheckErrors, project \in Projects :
               /\ checkInfo' = ConvertCheckResponse(error, project)
               /\ status = CheckStatus(error)
          \/ checkInfo' = NoCheckResponseInfo
       /\ \/ status = "OK" /\ CallQuota(apiKey, asked)
          \/ /\ status = "ERROR"
             /\ phase' = "rejected" /\ checkStatus' = "ERROR"
             /\ UNCHANGED asked

\* tryIntermediateReport, with the frames of each direction so far.
TryIntermediateReport(in, out) ==
  \/ /\ rq.grpc /\ ToMs(clock - lastReported) >= MinInterval
     /\ SendReport(IntermediateReport(in, out))
     /\ lastReported' = clock /\ isFirst' = FALSE /\ UNCHANGED finalSize
  \/ /\ ~rq.grpc \/ ToMs(clock - lastReported) < MinInterval
     /\ UNCHANGED reportVars

\* decodeData of a frame that does not end the request.
DecodeData ==
  /\ phase \in {"calling", "passed"}
  /\ received < MaxFrames
  /\ received' = received + 1
  /\ UNCHANGED <<service, request, phase, clock, checkVars, sent, headerSize, protocol, tx, rx>>
  /\ TryIntermediateReport(received + 1, sent)

\* encodeHeaders: processResponseHeaders.
EncodeHeaders ==
  /\ phase = "passed"
  /\ headerSize = 0
  /\ headerSize' \in HeaderSizes
  /\ protocol' = FrontendProtocol(TRUE)
  /\ UNCHANGED <<service, request, phase, clock, checkVars, reportVars, received, sent, tx, rx>>

\* encodeData of a frame that does not end the response. Envoy counts the bytes
\* of a received frame before the filters see it, those of a sent one after.
EncodeData ==
  /\ phase = "passed"
  /\ headerSize # 0 /\ sent < MaxFrames
  /\ sent' = sent + 1
  /\ UNCHANGED <<service, request, phase, clock, checkVars, received, headerSize, protocol,
                 tx, rx>>
  /\ TryIntermediateReport(received, sent)

\* The router sends the request to the backend, at first or again; and
\* receives from it.
UpstreamTx ==
  /\ phase = "passed" /\ headerSize = 0
  /\ tx' = clock
  /\ UNCHANGED <<service, request, phase, clock, checkVars, reportVars, received, sent,
                 headerSize, protocol, rx>>

UpstreamRx ==
  /\ phase = "passed" /\ tx # Unset
  /\ rx' = clock
  /\ UNCHANGED <<service, request, phase, clock, checkVars, reportVars, received, sent,
                 headerSize, protocol, tx>>

\* The codes a stream can end with: one of the backend, one of a rejection, and
\* the one reported when no response was sent.
EndCodes(replied) == IF ~replied THEN {500} ELSE IF headerSize # 0 THEN {200, 404} ELSE {429}

\* log: callReport. A stream that was reset has no response. A check that still
\* waits then has been cancelled by onDestroy, which answers it. The header map is
\* read again, and is no longer the one that EncodeHeaders saw; trailers count one.
Log ==
  /\ phase \in {"passed", "rejected"}
  /\ phase' = "logged"
  /\ UNCHANGED <<service, request, clock, checkVars, streamVars, isFirst, lastReported>>
  /\ \E replied \in IF phase = "rejected" THEN BOOLEAN ELSE {headerSize # 0} :
       \E code \in EndCodes(replied), complete \in {clock, Unset},
          headers \in IF replied THEN HeaderSizes ELSE {0}, trailers \in {0, 1} :
         /\ trailers = 1 => replied /\ rq.grpc
         /\ finalSize' = headers
         /\ SendReport(FinalReport(code, complete, headers, trailers))

Tick ==
  /\ phase \in {"calling", "passed"}
  /\ clock < MaxTime
  /\ clock' = clock + 1
  /\ UNCHANGED <<service, request, phase, checkVars, streamVars, reportVars>>

Over == phase = "logged" /\ UNCHANGED vars

Next ==
  \/ DecodeHeaders \/ OnCheckResponse
  \/ DecodeData \/ EncodeHeaders \/ EncodeData
  \/ UpstreamTx \/ UpstreamRx
  \/ Log \/ Tick \/ Over

Spec == Init /\ [][Next]_vars

-----------------------------------------------------------------------------
(* Properties *)

\* The values that the operations of a report send of a metric: none or one,
\* since each party's metrics are sent by one operation.
Values(report, mark, name) ==
  UNION {{report[j].metrics[m] : m \in {n \in DOMAIN report[j].metrics :
                                          n.name = name /\ n.mark = mark}} : j \in DOMAIN report}

\* The reports that were told a metric.
Told(mark, name) == {i \in DOMAIN reports : Values(reports[i], mark, name) # {}}

\* Service control adds up the metrics of all reports of a stream: however many
\* there are, it counts the request once for each party. The producer is told of
\* every request, the producer by consumer of those whose project the check
\* found, the consumer of those whose key is still usable at the end.
RequestCountedOnce ==
  phase = "logged" =>
    /\ \A mark \in EachParty : \A i, j \in Told(mark, "request_count") : i = j
    /\ \A m \in builder.metrics \cap RequestCountMetrics :
         \/ Told(m.mark, m.name) # {}
         \/ m.mark = "PRODUCER_BY_CONSUMER" /\ checkInfo.consumer_project_id = ""
         \/ m.mark = "CONSUMER" /\ ReportKey = ""

LastReport == reports[Len(reports)]

NamesNoConsumer(op) ==
  /\ op.consumer_id = <<>>
  /\ "credential_id" \in DOMAIN op.labels => op.labels["credential_id"][1] # "apikey"
  /\ \A m \in DOMAIN op.metrics : m.mark # "CONSUMER"
  /\ \A log \in op.log_entries : log.api_key = <<>>

\* One consumer pays: quota is asked for the consumer of the checked key, and
\* every report names that consumer, in its operations, its labels, its metrics
\* and its logs; or it names none, from the answer on that found the key
\* invalid or the service not activated for it.
OneConsumer ==
  [][/\ "check" \in DOMAIN asked /\ "quota" \in DOMAIN asked' =>
          asked'["quota"].consumer_id = asked["check"][1].operation.consumer_id
     /\ reports' # reports =>
          \A j \in 1..Len(LastReport') :
            IF checkInfo.is_api_key_valid /\ checkInfo.service_is_activated /\ apiKey # ""
            THEN LastReport'[j].consumer_id = <<"api_key", apiKey>>
            ELSE NamesNoConsumer(LastReport'[j])]_vars

\* The latencies of a stream, sent at its end, fit together: the overhead is not
\* negative and is the total without the time at the backend, also when the
\* router has sent the request again after the backend answered. Where one of
\* the total and the overhead is known, so are all three.
LatenciesAddUp ==
  phase = "logged" =>
    \A mark \in EachParty :
      LET total == Values(LastReport, mark, "total_latencies")
          backend == Values(LastReport, mark, "backend_latencies")
          overhead == Values(LastReport, mark, "request_overhead_latencies")
      IN LatencyMetrics \subseteq builder.metrics =>
           /\ overhead = {t - b : t \in total, b \in backend}
           /\ total = {o + b : o \in overhead, b \in backend}
           /\ \A o \in overhead : o >= 0

\* What other filters took from the response headers after this one had measured
\* them: the final report no longer has it.
Removed(name) ==
  IF name = "response_bytes" /\ phase = "logged" /\ headerSize > finalSize
  THEN headerSize - finalSize ELSE 0

\* The bytes of a report are the bytes of the stream so far, so no report sends
\* fewer than the report before it. The final report measures the response headers
\* again, by then changed by other filters: where they have lost bytes, its
\* response bytes fall short of an intermediate report's by no more than those.
BytesShrinkOnlyByHeaders ==
  \A i \in DOMAIN reports \ {1} :
    \A mark \in TwoParties, name \in {"request_bytes", "response_bytes"} :
      \A earlier \in Values(reports[i - 1], mark, name) :
        \/ \E later \in Values(reports[i], mark, name) :
             later + (IF i = Len(reports) THEN Removed(name) ELSE 0) >= earlier
        \/ mark = "CONSUMER" /\ reports[i][1].consumer_id = <<>>

\* What was loaded hangs together: a metric or log is loaded only with all of its
\* supported labels, and no label comes from a metric or log that was skipped
\* because one of its other labels conflicts.
LoadedIsJustified ==
  phase = "idle" => \A s \in {Services[service][i] : i \in DOMAIN Services[service]} :
    LET loaded == Load(s)
        metrics == {s.metrics[First(FindMetricDescriptor(s, name))] : name \in loaded.metrics}
        logs == {s.logs[First(FindLogDescriptor(s, name))] : name \in loaded.logs}
        keys == {l.key : l \in loaded.labels}
    IN /\ \A d \in metrics \cup logs : \A l \in d.labels : IsLabelSupported(l) => l.key \in keys
       /\ \A l \in loaded.labels :
            \/ \E d \in metrics \cup logs : l \in d.labels
            \/ \E i \in DOMAIN s.monitored_resources : l \in s.monitored_resources[i].labels

=============================================================================
