--------------------------- MODULE RequestBuilder ---------------------------
(***************************************************************************)
(* The requests of service control: what RequestBuilder puts into a check, *)
(* a quota and a report request, and what it reads from the answers.       *)
(*                                                                         *)
(* A builder is a record [logs, metrics, labels].  A metric is an entry of *)
(* the table supported_metrics; its full name is its name and its mark.    *)
(* Text is a sequence of its parts, <<>> when it is empty: a label whose   *)
(* setter leaves it out has the value <<>>.  A metric whose setter leaves  *)
(* it out has the value NotSent.                                           *)
(***************************************************************************)
EXTENDS Integers, Sequences

NotSent == -1

\* Two records in one.
r ++ s == [f \in DOMAIN r \cup DOMAIN s |-> IF f \in DOMAIN r THEN r[f] ELSE s[f]]

-----------------------------------------------------------------------------
(* The metrics *)

EachParty == {"PRODUCER", "CONSUMER", "PRODUCER_BY_CONSUMER"}
TwoParties == {"PRODUCER", "CONSUMER"}

Metrics(names, marks, tag, type) ==
  [name : names, mark : marks, tag : {tag}, value_type : {type}]

\* The table, group by group. All of it has the kind DELTA.
RequestCountMetrics ==
  Metrics({"request_count"}, TwoParties, "START", "INT64")
    \cup Metrics({"request_count"}, {"PRODUCER_BY_CONSUMER"}, "FINAL", "INT64")
SizeMetrics == Metrics({"request_sizes", "response_sizes"}, EachParty, "FINAL", "DISTRIBUTION")
ByteMetrics == Metrics({"request_bytes", "response_bytes"}, TwoParties, "INTERMEDIATE", "INT64")
ErrorMetrics == Metrics({"error_count"}, EachParty, "FINAL", "INT64")
LatencyMetrics ==
  Metrics({"total_latencies", "backend_latencies", "request_overhead_latencies"}, EachParty,
          "FINAL", "DISTRIBUTION")
StreamingMetrics ==
  Metrics({"streaming_request_message_counts", "streaming_response_message_counts",
           "streaming_durations"}, TwoParties, "FINAL", "DISTRIBUTION")

supported_metrics ==
  RequestCountMetrics \cup SizeMetrics \cup ByteMetrics \cup ErrorMetrics \cup LatencyMetrics
    \cup StreamingMetrics

\* Two kinds of setters: they send a value if it is known, or if it is positive.
IfKnown(value) == IF value >= 0 THEN value ELSE NotSent
IfPositive(value) == IF value > 0 THEN value ELSE NotSent
IfError(code) == IF code >= 400 THEN 1 ELSE NotSent

\* What the setters of each group of metrics send.
CountValues(info) == [request_count |-> 1, error_count |-> IfError(info.response_code)]
SizeValues(info) ==
  [request_sizes |-> IfKnown(info.request_size), response_sizes |-> IfKnown(info.response_size)]
LatencyValues(info) ==
  [total_latencies |-> IfKnown(info.latency.request_time_ms),
   backend_latencies |-> IfKnown(info.latency.backend_time_ms),
   request_overhead_latencies |-> IfKnown(info.latency.overhead_time_ms)]
ByteValues(info) ==
  [request_bytes |-> IfPositive(info.request_bytes),
   response_bytes |-> IfPositive(info.response_bytes)]
StreamingValues(info) ==
  [streaming_request_message_counts |-> IfPositive(info.streaming_request_message_counts),
   streaming_response_message_counts |-> IfPositive(info.streaming_response_message_counts),
   streaming_durations |-> IfPositive(info.streaming_durations)]

MetricValues(info) ==
  CountValues(info) ++ SizeValues(info) ++ LatencyValues(info) ++ ByteValues(info)
    ++ StreamingValues(info)

\* Mutant of MetricDue: start metrics are sent with every report.
MetricAlwaysStarts(m, info) ==
  m.tag \in {"START", "INTERMEDIATE"} \/ info.is_final_report

\* Which metrics a report of the stream carries.
MetricDue(m, info) ==
  \/ info.is_first_report /\ m.tag = "START"
  \/ info.is_final_report /\ m.tag \in {"FINAL", "INTERMEDIATE"}
  \/ ~info.is_final_report /\ m.tag = "INTERMEDIATE"

\* The metrics of a set that a report sends, with their values.
MetricsSent(metrics, info) ==
  LET values == MetricValues(info)
  IN [m \in {n \in metrics : MetricDue(n, info) /\ values[n.name] # NotSent} |-> values[m.name]]

\* IsMetricSupported
IsMetricSupported(metric) ==
  \E m \in supported_metrics :
    /\ metric.name = m.name /\ metric.mark = m.mark
    /\ metric.metric_kind = "DELTA"
    /\ metric.value_type = m.value_type

-----------------------------------------------------------------------------
(* The labels *)

\* The table, by kind and by whether the label has a setter. All are STRING.
UserLabels ==
  {"credential_id", "error_type", "protocol", "referer", "response_code", "response_code_class",
   "status_code", "api_method", "api_version"}
SystemLabels ==
  {"location", "service_agent", "user_agent", "platform", "backend_protocol", "consumer_project"}
UnsetLabels ==
  {"end_user", "end_user_country", "clone_id", "module_id", "replica_index", "version_id",
   "project", "region", "resource_id", "resource_type", "service", "zone", "uid", "caller_ip",
   "servicecontrol_referer"}
by_consumer_only == {"consumer_project"}

Text(value) == IF value = "" THEN <<>> ELSE <<value>>
OnlyIf(condition, text) == IF condition THEN text ELSE <<>>

\* set_credential_id: the key, or the issuer with its optional audience.
CredentialId(info) ==
  IF info.api_key # "" THEN <<"apikey", info.api_key>>
  ELSE OnlyIf(info.auth_issuer # "",
              <<"jwtauth", info.auth_issuer>> \o Text(info.auth_audience))

\* set_error_type, set_response_code, set_response_code_class, set_status_code:
\* the code of the response, known at the end of the stream only.
CodeClass(info) == <<(info.response_code \div 100) % 10>>
CodeLabels(info) ==
  [error_type |-> OnlyIf(info.response_code >= 400, CodeClass(info)),
   response_code |-> OnlyIf(info.is_final_report, <<info.response_code>>),
   response_code_class |-> OnlyIf(info.is_final_report, CodeClass(info)),
   status_code |-> OnlyIf(info.is_final_report, <<info.status>>)]

\* set_protocol, set_backend_protocol
ProtocolLabels(info) ==
  [protocol |-> <<info.frontend_protocol>>,
   backend_protocol |-> OnlyIf(/\ info.backend_protocol = "GRPC"
                               /\ info.frontend_protocol # info.backend_protocol,
                               <<info.backend_protocol>>)]

\* The setters of the other labels.
PlainLabels(info) ==
  [consumer_project |-> Text(info.check_response_info.consumer_project_id),
   referer |-> Text(info.referer), location |-> Text(info.location),
   api_method |-> Text(info.api_method), api_version |-> Text(info.api_version),
   platform |-> <<info.compute_platform>>, service_agent |-> <<"ESPv2">>,
   user_agent |-> <<"ESPv2">>]

LabelValues(info) ==
  [credential_id |-> CredentialId(info)] ++ CodeLabels(info) ++ ProtocolLabels(info)
    ++ PlainLabels(info)

\* The labels of a set that a report sends, with their values.
LabelsSent(labels, info) ==
  LET values == LabelValues(info)
  IN [l \in {k \in labels : values[k] # <<>>} |-> values[l]]

\* IsLabelSupported
IsLabelSupported(label) ==
  /\ label.key \in UserLabels \cup SystemLabels \cup UnsetLabels
  /\ label.value_type = "STRING"

-----------------------------------------------------------------------------
(* The builder and its requests *)

\* The two constructors: everything that has a setter, or of that what the
\* service config asks for, and the system labels.
DefaultRequestBuilder(logs) ==
  [logs |-> logs, metrics |-> supported_metrics, labels |-> UserLabels \cup SystemLabels]

\* Mutant of RequestBuilderOf: labels without a setter are kept.
RequestBuilderUnfiltered(logs, metrics, labels) ==
  [logs |-> logs,
   metrics |-> {m \in supported_metrics : [name |-> m.name, mark |-> m.mark] \in metrics},
   labels |-> SystemLabels \cup labels]

RequestBuilderOf(logs, metrics, labels) ==
  [logs |-> logs,
   metrics |-> {m \in supported_metrics : [name |-> m.name, mark |-> m.mark] \in metrics},
   labels |-> SystemLabels \cup (UserLabels \cap labels)]

\* The consumer that a key names.
ConsumerOfKey(key) == OnlyIf(key # "", <<"api_key", key>>)

\* SetOperationCommonFields
OperationOf(info, labels, metrics, logs) ==
  [operation_id |-> Text(info.operation_id), operation_name |-> info.operation_name,
   consumer_id |-> ConsumerOfKey(info.api_key), time |-> info.current_time,
   labels |-> labels, metrics |-> metrics, log_entries |-> logs]

\* The labels of the caller in check and quota requests.
CallerLabels(info) ==
  [caller_ip |-> Text(info.client_ip), referer |-> Text(info.referer),
   user_agent |-> <<"ESPv2">>, service_agent |-> <<"ESPv2">>]

\* FillCheckRequest. The request stays empty without the fields it must have.
FillCheckRequest(info) ==
  IF info.operation_id = "" \/ info.operation_name = "" THEN <<>>
  ELSE <<[operation |-> OperationOf(info, CallerLabels(info), <<>>, {}),
          app |-> <<info.android_package_name, info.android_cert_fingerprint,
                    info.ios_bundle_id>>]>>

\* A cost that is not set counts one.
QuotaCost(cost) == IF cost <= 0 THEN 1 ELSE cost

\* FillAllocateQuotaRequest
FillAllocateQuotaRequest(info) ==
  [operation_id |-> Text(info.operation_id), method_name |-> Text(info.method_name),
   consumer_id |-> IF info.api_key # "" THEN ConsumerOfKey(info.api_key)
                   ELSE OnlyIf(info.producer_project_id # "",
                               <<"project", info.producer_project_id>>),
   quota_mode |-> "BEST_EFFORT",
   labels |-> CallerLabels(info),
   quota_metrics |-> [m \in DOMAIN info.metric_costs |-> QuotaCost(info.metric_costs[m])]]

\* FillLogEntry, with the fields of the payload that say who called and how it
\* went; an empty or unknown field is left out.
FillLogEntry(info, log) ==
  [name |-> log, timestamp |-> info.current_time,
   severity |-> IF info.response_code >= 400 THEN "ERROR" ELSE "INFO",
   api_key |-> Text(info.api_key), referer |-> Text(info.referer),
   api_method |-> Text(info.api_method), producer_project_id |-> Text(info.producer_project_id),
   http_response_code |-> info.response_code,
   request_size |-> IfKnown(info.request_size), response_size |-> IfKnown(info.response_size),
   request_latency |-> IfKnown(info.latency.request_time_ms)]

\* Metrics are sent for a named operation only.
Named(info) == info.operation_id # "" /\ info.operation_name # ""
IfNamed(info, metrics) == IF Named(info) THEN metrics ELSE {}

\* The metrics of the two operations of a report. Without a usable key there is
\* no consumer to send metrics for.
MainMetrics(b, info) ==
  IfNamed(info, {m \in b.metrics : /\ m.mark # "PRODUCER_BY_CONSUMER"
                                   /\ m.mark = "CONSUMER" => info.api_key # ""})
ByConsumerMetrics(b, info) ==
  IfNamed(info, {m \in b.metrics : m.mark = "PRODUCER_BY_CONSUMER"})

MainOperation(b, info) ==
  OperationOf(info, LabelsSent(IfNamed(info, b.labels \ by_consumer_only), info),
              MetricsSent(MainMetrics(b, info), info),
              IF info.is_final_report THEN {FillLogEntry(info, log) : log \in b.logs} ELSE {})

\* AppendByConsumerOperations, under an operation id of its own.
ByConsumerOperation(b, info) ==
  [OperationOf(info, LabelsSent(IfNamed(info, b.labels), info),
               MetricsSent(ByConsumerMetrics(b, info), info), {})
     EXCEPT !.operation_id = @ \o <<"1">>]

\* FillReportRequest: the operations of the request.
FillReportRequest(b, info) ==
  <<MainOperation(b, info)>>
    \o OnlyIf(info.check_response_info.consumer_project_id # "", <<ByConsumerOperation(b, info)>>)

-----------------------------------------------------------------------------
(* The answers *)

\* Errors of a check, as ConvertCheckResponse tells them apart: the status, and
\* what is wrong with the consumer. "UNAVAILABLE" is any of the errors of the
\* checking service itself, for which it fails open.
CheckErrors == {"NONE", "UNAVAILABLE", "API_KEY_INVALID", "SERVICE_NOT_ACTIVATED", "DENIED"}

CheckStatus(error) == IF error \in {"NONE", "UNAVAILABLE"} THEN "OK" ELSE "ERROR"

\* ConvertCheckResponse. The project is known only if its number is not zero.
ConvertCheckResponse(error, project) ==
  [is_api_key_valid |-> error # "API_KEY_INVALID",
   service_is_activated |-> error # "SERVICE_NOT_ACTIVATED",
   consumer_project_id |-> project]

\* The CheckResponseInfo of a check that never answered.
NoCheckResponseInfo == ConvertCheckResponse("NONE", "")

\* ConvertAllocateQuotaResponse, of the first error.
ConvertAllocateQuotaResponse(error) ==
  CASE error \in {"NONE", "UNSPECIFIED"} -> "OK"
    [] error = "RESOURCE_EXHAUSTED" -> "RESOURCE_EXHAUSTED"
    [] error = "BILLING_NOT_ACTIVE" -> "PERMISSION_DENIED"
    [] error \in {"PROJECT_DELETED", "API_KEY_INVALID", "API_KEY_EXPIRED"} -> "INVALID_ARGUMENT"
    [] OTHER -> "INTERNAL"

=============================================================================
