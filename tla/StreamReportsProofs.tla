------------------------ MODULE StreamReportsProofs ------------------------
(***************************************************************************)
(* Proofs about StreamReports, for any service config and any request:     *)
(* what the operators of RequestBuilder, LogsMetricsLoader and             *)
(* StreamReports compute, the types of a stream, and then its invariant.   *)
(***************************************************************************)
EXTENDS StreamReports, WellFoundedInduction, TLAPS

\* Sequences of one and of two operations.
LEMMA OneOperation ==
  ASSUME NEW x, NEW q, q = <<x>> \o <<>>
  PROVE DOMAIN q = {1} /\ Len(q) = 1 /\ q[1] = x
<1>1. <<x>> \in Seq({x}) /\ <<>> \in Seq({x}) /\ Len(<<x>>) = 1 /\ Len(<<>>) = 0 /\ <<x>>[1] = x
  OBVIOUS
<1>2. q \in Seq({x}) /\ Len(q) = 1 /\ q[1] = x
  BY <1>1
<1>3. DOMAIN q = 1..1
  BY <1>2
<1> QED BY <1>2, <1>3

\* A report with two operations is a sequence of both.
LEMMA TwoOperations ==
  ASSUME NEW x, NEW y, NEW q, q = <<x>> \o <<y>>
  PROVE DOMAIN q = {1, 2} /\ Len(q) = 2 /\ q[1] = x /\ q[2] = y
<1>1. /\ <<x>> \in Seq({x, y}) /\ <<y>> \in Seq({x, y})
      /\ Len(<<x>>) = 1 /\ Len(<<y>>) = 1 /\ <<x>>[1] = x /\ <<y>>[1] = y
  OBVIOUS
<1>2. q \in Seq({x, y}) /\ Len(q) = 2 /\ q[1] = x /\ q[2] = y
  BY <1>1
<1>3. DOMAIN q = 1..2
  BY <1>2
<1> QED BY <1>2, <1>3

-----------------------------------------------------------------------------
(* What a report tells of a metric *)

\* The values of the metrics that the properties are about.
LEMMA ValueOfMetric ==
  ASSUME NEW info
  PROVE /\ MetricValues(info)["request_count"] = 1
        /\ MetricValues(info)["total_latencies"] = IfKnown(info.latency.request_time_ms)
        /\ MetricValues(info)["backend_latencies"] = IfKnown(info.latency.backend_time_ms)
        /\ MetricValues(info)["request_overhead_latencies"] =
             IfKnown(info.latency.overhead_time_ms)
        /\ MetricValues(info)["request_bytes"] = IfPositive(info.request_bytes)
        /\ MetricValues(info)["response_bytes"] = IfPositive(info.response_bytes)
BY Zenon DEF MetricValues, CountValues, SizeValues, LatencyValues, ByteValues, StreamingValues, ++

\* The metric of a report of b, if the report tells it.
Telling(b, info, mark, name) ==
  {m \in b.metrics :
     /\ m.name = name /\ m.mark = mark
     /\ MetricDue(m, info) /\ MetricValues(info)[name] # NotSent
     /\ mark = "CONSUMER" => info.api_key # ""
     /\ mark = "PRODUCER_BY_CONSUMER" => info.check_response_info.consumer_project_id # ""}

\* The values that an operation sends of a metric.
ValuesIn(metrics, mark, name) ==
  {metrics[m] : m \in {n \in DOMAIN metrics : n.name = name /\ n.mark = mark}}

\* The values of a report are those of its one or two operations.
LEMMA ValuesOfOperations ==
  ASSUME NEW q, NEW mark, NEW name
  PROVE /\ DOMAIN q = {1} => Values(q, mark, name) = ValuesIn(q[1].metrics, mark, name)
        /\ DOMAIN q = {1, 2} => Values(q, mark, name) = ValuesIn(q[1].metrics, mark, name)
                                                          \cup ValuesIn(q[2].metrics, mark, name)
BY DEF Values, ValuesIn

\* Those of an operation with some of the metrics.
LEMMA ValuesSent ==
  ASSUME NEW metrics, NEW info, NEW mark, NEW name
  PROVE ValuesIn(MetricsSent(metrics, info), mark, name) =
          {MetricValues(info)[name] : m \in {n \in metrics : /\ n.name = name /\ n.mark = mark
                                                            /\ MetricDue(n, info)
                                                            /\ MetricValues(info)[name] # NotSent}}
<1> DEFINE values == MetricValues(info)
           D == {n \in metrics : MetricDue(n, info) /\ values[n.name] # NotSent}
<1>1. DOMAIN MetricsSent(metrics, info) = D /\ \A m \in D : MetricsSent(metrics, info)[m] = values[m.name]
  BY Zenon DEF MetricsSent
<1>2. ValuesIn(MetricsSent(metrics, info), mark, name) =
        {MetricsSent(metrics, info)[m] : m \in {n \in D : n.name = name /\ n.mark = mark}}
  BY Zenon, <1>1 DEF ValuesIn
<1> HIDE DEF values
<1>3. \A m \in {n \in D : n.name = name /\ n.mark = mark} : MetricsSent(metrics, info)[m] = values[name]
  BY Zenon, <1>1
<1>4. ValuesIn(MetricsSent(metrics, info), mark, name) =
        {values[name] : m \in {n \in D : n.name = name /\ n.mark = mark}}
  BY Zenon, <1>2, <1>3
<1>5. {n \in D : n.name = name /\ n.mark = mark} =
        {n \in metrics : /\ n.name = name /\ n.mark = mark
                         /\ MetricDue(n, info) /\ values[name] # NotSent}
  BY Zenon
<1> QED BY Zenon, <1>4, <1>5 DEF values

\* The first operation tells what is due to the producer and the consumer, the second
\* what is due to the producer by consumer.
LEMMA ReportValues ==
  ASSUME NEW b, NEW info, Named(info), NEW mark, NEW name
  PROVE Values(FillReportRequest(b, info), mark, name) =
          {MetricValues(info)[name] : m \in Telling(b, info, mark, name)}
<1> DEFINE report == FillReportRequest(b, info)
           Main == MainMetrics(b, info)
           By == ByConsumerMetrics(b, info)
           project == info.check_response_info.consumer_project_id
           Due(n) == /\ n.name = name /\ n.mark = mark
                     /\ MetricDue(n, info) /\ MetricValues(info)[name] # NotSent
           Same(M) == {MetricValues(info)[name] : m \in {n \in M : Due(n)}}
<1>1. /\ MainOperation(b, info).metrics = MetricsSent(Main, info)
      /\ ByConsumerOperation(b, info).metrics = MetricsSent(By, info)
  BY Zenon DEF MainOperation, ByConsumerOperation, OperationOf
<1>2. \A M : ValuesIn(MetricsSent(M, info), mark, name) = Same(M)
  BY ValuesSent
<1>3. CASE project = ""
  <2>1. report = <<MainOperation(b, info)>> \o <<>>
    BY Zenon, <1>3 DEF FillReportRequest, OnlyIf
  <2>2. DOMAIN report = {1} /\ report[1] = MainOperation(b, info)
    BY Zenon, <2>1, OneOperation
  <2>3. Values(report, mark, name) = ValuesIn(report[1].metrics, mark, name)
    BY Zenon, <2>2, ValuesOfOperations
  <2>4. Values(report, mark, name) = Same(Main)
    BY Zenon, <1>1, <1>2, <2>2, <2>3
  <2>5. {n \in Main : Due(n)} = Telling(b, info, mark, name)
    BY Zenon, <1>3 DEF MainMetrics, IfNamed, Telling
  <2> QED BY Zenon, <2>4, <2>5
<1>4. CASE project # ""
  <2>1. report = <<MainOperation(b, info)>> \o <<ByConsumerOperation(b, info)>>
    BY Zenon, <1>4 DEF FillReportRequest, OnlyIf
  <2>2. DOMAIN report = {1, 2} /\ report[1] = MainOperation(b, info) /\ report[2] = ByConsumerOperation(b, info)
    BY <2>1, TwoOperations
  <2>3. Values(report, mark, name) = ValuesIn(report[1].metrics, mark, name)
                                       \cup ValuesIn(report[2].metrics, mark, name)
    BY Zenon, <2>2, ValuesOfOperations
  <2>4. Values(report, mark, name) = Same(Main) \cup Same(By)
    BY Zenon, <1>1, <1>2, <2>2, <2>3
  <2>5. {n \in Main : Due(n)} \cup {n \in By : Due(n)} = Telling(b, info, mark, name)
    BY Zenon, <1>4 DEF MainMetrics, ByConsumerMetrics, IfNamed, Telling
  <2> QED BY Zenon, <2>4, <2>5
<1> QED BY Zenon, <1>3, <1>4

\* The rows of the table that the properties are about.
LEMMA Table ==
  ASSUME NEW m \in supported_metrics
  PROVE /\ m.mark \in EachParty
        /\ m.name = "request_count" =>
             /\ m \in RequestCountMetrics
             /\ m.mark = "PRODUCER_BY_CONSUMER" => m.tag = "FINAL"
             /\ m.mark # "PRODUCER_BY_CONSUMER" => m.tag = "START"
        /\ m.name \in {"request_bytes", "response_bytes"} => m.tag = "INTERMEDIATE"
        /\ m.name \in {"total_latencies", "backend_latencies", "request_overhead_latencies"} =>
             m \in LatencyMetrics
<1> USE DEF Metrics, EachParty, TwoParties
<1>1. CASE m \in RequestCountMetrics
  BY Zenon, <1>1 DEF RequestCountMetrics
<1>2. CASE m \in SizeMetrics
  BY Zenon, <1>2 DEF SizeMetrics
<1>3. CASE m \in ByteMetrics
  BY Zenon, <1>3 DEF ByteMetrics
<1>4. CASE m \in ErrorMetrics
  BY Zenon, <1>4 DEF ErrorMetrics
<1>5. CASE m \in LatencyMetrics
  BY Zenon, <1>5 DEF LatencyMetrics
<1>6. CASE m \in StreamingMetrics
  BY Zenon, <1>6 DEF StreamingMetrics
<1> QED BY Zenon, <1>1, <1>2, <1>3, <1>4, <1>5, <1>6 DEF supported_metrics

\* A report counts the request for the producer and the consumer if it is the first,
\* for the producer by consumer if it is the final one.
Counts(info, mark) ==
  /\ mark # "PRODUCER_BY_CONSUMER" => info.is_first_report
  /\ mark = "CONSUMER" => info.api_key # ""
  /\ mark = "PRODUCER_BY_CONSUMER" =>
       info.is_final_report /\ info.check_response_info.consumer_project_id # ""

\* What a report tells of the request count.
LEMMA CountTold ==
  ASSUME NEW b, b.metrics \subseteq supported_metrics, NEW info, Named(info), NEW mark
  PROVE Values(FillReportRequest(b, info), mark, "request_count") # {} <=>
          Counts(info, mark) /\ \E m \in b.metrics : m.name = "request_count" /\ m.mark = mark
<1>1. MetricValues(info)["request_count"] # NotSent
  BY ValueOfMetric DEF NotSent
<1>2. Values(FillReportRequest(b, info), mark, "request_count") # {} <=>
        Telling(b, info, mark, "request_count") # {}
  <2>1. Values(FillReportRequest(b, info), mark, "request_count") =
          {MetricValues(info)["request_count"] : m \in Telling(b, info, mark, "request_count")}
    BY ReportValues
  <2> QED BY Zenon, <2>1
<1>3. ASSUME NEW m \in b.metrics, m.name = "request_count", m.mark = mark
      PROVE MetricDue(m, info) <=> /\ mark # "PRODUCER_BY_CONSUMER" => info.is_first_report
                                   /\ mark = "PRODUCER_BY_CONSUMER" => info.is_final_report
  BY Zenon, <1>3, Table DEF MetricDue
<1>4. ASSUME NEW m \in b.metrics
      PROVE m \in Telling(b, info, mark, "request_count") <=>
              m.name = "request_count" /\ m.mark = mark /\ Counts(info, mark)
  BY Zenon, <1>1, <1>3 DEF Telling, Counts
<1>5. Telling(b, info, mark, "request_count") \subseteq b.metrics
  BY Zenon DEF Telling
<1> QED BY Zenon, <1>2, <1>4, <1>5

\* There is somebody to send the metrics of a mark to.
Addressed(info, mark) ==
  /\ mark = "CONSUMER" => info.api_key # ""
  /\ mark = "PRODUCER_BY_CONSUMER" => info.check_response_info.consumer_project_id # ""

LatencyNames == {"total_latencies", "backend_latencies", "request_overhead_latencies"}

\* What a final report tells of a latency.
LEMMA LatencyTold ==
  ASSUME NEW b, LatencyMetrics \subseteq b.metrics, NEW info, Named(info), info.is_final_report = TRUE,
         NEW mark \in EachParty, NEW name \in LatencyNames
  PROVE Values(FillReportRequest(b, info), mark, name) =
          IF Addressed(info, mark) /\ MetricValues(info)[name] # NotSent
          THEN {MetricValues(info)[name]} ELSE {}
<1>1. PICK m : m = [name |-> name, mark |-> mark, tag |-> "FINAL", value_type |-> "DISTRIBUTION"]
  BY Zenon
<1>2. m \in LatencyMetrics
  BY Zenon, <1>1 DEF LatencyMetrics, Metrics, LatencyNames
<1>3. m \in b.metrics /\ m.name = name /\ m.mark = mark /\ m.tag = "FINAL"
  BY Zenon, <1>1, <1>2
<1>4. MetricDue(m, info)
  BY Zenon, <1>3 DEF MetricDue
<1>5. Values(FillReportRequest(b, info), mark, name) =
        {MetricValues(info)[name] : n \in Telling(b, info, mark, name)}
  BY ReportValues
<1>6. CASE Addressed(info, mark) /\ MetricValues(info)[name] # NotSent
  <2>1. m \in Telling(b, info, mark, name)
    BY Zenon, <1>3, <1>4, <1>6 DEF Telling, Addressed
  <2> QED BY Zenon, <1>5, <1>6, <2>1
<1>7. CASE ~(Addressed(info, mark) /\ MetricValues(info)[name] # NotSent)
  <2>1. Telling(b, info, mark, name) = {}
    BY Zenon, <1>7 DEF Telling, Addressed
  <2> QED BY Zenon, <1>5, <1>7, <2>1
<1> QED BY Zenon, <1>6, <1>7

ByteNames == {"request_bytes", "response_bytes"}
BytesOf(info) == [request_bytes |-> info.request_bytes, response_bytes |-> info.response_bytes]

\* What a report tells of the bytes: each counter that is positive, to whom it can.
LEMMA BytesTold ==
  ASSUME NEW b, b.metrics \subseteq supported_metrics, NEW info, Named(info), NEW mark,
         NEW name \in ByteNames, BytesOf(info)[name] \in Nat
  PROVE Values(FillReportRequest(b, info), mark, name) =
          IF /\ BytesOf(info)[name] > 0 /\ Addressed(info, mark)
             /\ \E m \in b.metrics : m.name = name /\ m.mark = mark
          THEN {BytesOf(info)[name]} ELSE {}
<1>1. PICK x \in Nat : x = BytesOf(info)[name]
  BY Zenon
<1>2. MetricValues(info)[name] = IF x > 0 THEN x ELSE NotSent
  <2>1. CASE name = "request_bytes"
    BY Zenon, <1>1, <2>1, ValueOfMetric DEF BytesOf, IfPositive
  <2>2. CASE name = "response_bytes"
    BY Zenon, <1>1, <2>2, ValueOfMetric DEF BytesOf, IfPositive
  <2> QED BY Zenon, <2>1, <2>2 DEF ByteNames
<1>3. MetricValues(info)[name] # NotSent <=> x > 0
  BY <1>2 DEF NotSent
<1>4. ASSUME NEW m \in b.metrics, m.name = name PROVE MetricDue(m, info)
  BY Zenon, <1>4, Table DEF MetricDue, ByteNames
<1>5. Values(FillReportRequest(b, info), mark, name) =
        {MetricValues(info)[name] : n \in Telling(b, info, mark, name)}
  BY ReportValues
<1>6. CASE x > 0 /\ Addressed(info, mark) /\ \E m \in b.metrics : m.name = name /\ m.mark = mark
  <2>1. Telling(b, info, mark, name) # {}
    BY Zenon, <1>3, <1>4, <1>6 DEF Telling, Addressed
  <2> QED BY Zenon, <1>1, <1>2, <1>5, <1>6, <2>1
<1>7. CASE ~(x > 0 /\ Addressed(info, mark) /\ \E m \in b.metrics : m.name = name /\ m.mark = mark)
  <2>1. Telling(b, info, mark, name) = {}
    BY Zenon, <1>3, <1>7 DEF Telling, Addressed
  <2> QED BY Zenon, <1>1, <1>5, <1>7, <2>1
<1> QED BY Zenon, <1>1, <1>6, <1>7

-----------------------------------------------------------------------------
(* What a report tells of the consumer *)

\* The operations of a report.
LEMMA Operations ==
  ASSUME NEW b, NEW info, NEW r, r = FillReportRequest(b, info)
  PROVE /\ r[1] = MainOperation(b, info)
        /\ \A j \in 1..Len(r) : r[j] = MainOperation(b, info) \/ r[j] = ByConsumerOperation(b, info)
<1>1. CASE info.check_response_info.consumer_project_id = ""
  <2>1. r = <<MainOperation(b, info)>> \o <<>>
    BY Zenon, <1>1 DEF FillReportRequest, OnlyIf
  <2>2. Len(r) = 1 /\ r[1] = MainOperation(b, info)
    BY Zenon, <2>1, OneOperation
  <2> QED BY <2>2
<1>2. CASE info.check_response_info.consumer_project_id # ""
  <2>1. r = <<MainOperation(b, info)>> \o <<ByConsumerOperation(b, info)>>
    BY Zenon, <1>2 DEF FillReportRequest, OnlyIf
  <2>2. Len(r) = 2 /\ r[1] = MainOperation(b, info) /\ r[2] = ByConsumerOperation(b, info)
    BY <2>1, TwoOperations
  <2> QED BY <2>2
<1> QED BY Zenon, <1>1, <1>2

\* Both operations name the consumer of the key.
LEMMA ConsumerOfOperations ==
  ASSUME NEW b, NEW info
  PROVE /\ MainOperation(b, info).consumer_id = ConsumerOfKey(info.api_key)
        /\ ByConsumerOperation(b, info).consumer_id = ConsumerOfKey(info.api_key)
BY Zenon DEF MainOperation, ByConsumerOperation, OperationOf

\* A sequence of two that is continued keeps its first element.
LEMMA FirstOfText ==
  ASSUME NEW x, NEW y, NEW z, NEW q, q = <<x, y>> \o Text(z)
  PROVE q[1] = x
<1>1. <<x, y>> \in Seq({x, y, z}) /\ Len(<<x, y>>) = 2 /\ <<x, y>>[1] = x
  <2>1. \A S : \A a, b \in S : <<a, b>> \in Seq(S) /\ Len(<<a, b>>) = 2 /\ <<a, b>>[1] = a
    OBVIOUS
  <2>2. x \in {x, y, z} /\ y \in {x, y, z}
    BY Zenon
  <2> QED BY Zenon, <2>1, <2>2
<1>2. <<>> \in Seq({x, y, z}) /\ <<z>> \in Seq({x, y, z}) /\ Len(<<>>) = 0 /\ Len(<<z>>) = 1
  OBVIOUS
<1>3. CASE q = <<x, y>> \o <<>>
  BY <1>1, <1>2, <1>3
<1>4. CASE q = <<x, y>> \o <<z>>
  BY <1>1, <1>2, <1>4
<1> QED BY Zenon, <1>3, <1>4 DEF Text

\* What an operation of a report without a key says of the consumer.
LEMMA NoKeyNoConsumer ==
  ASSUME NEW b, b.metrics \subseteq supported_metrics, NEW info, info.api_key = ""
  PROVE NamesNoConsumer(MainOperation(b, info)) /\ NamesNoConsumer(ByConsumerOperation(b, info))
<1> DEFINE main == MainOperation(b, info)
           other == ByConsumerOperation(b, info)
<1>1. main.consumer_id = <<>> /\ other.consumer_id = <<>>
  BY Zenon, ConsumerOfOperations DEF ConsumerOfKey, OnlyIf
<1>2. LabelValues(info)["credential_id"] = CredentialId(info)
  BY Zenon DEF LabelValues, ++
<1>3. ASSUME CredentialId(info) # <<>> PROVE CredentialId(info)[1] # "apikey"
  <2>1. CredentialId(info) = <<"jwtauth", info.auth_issuer>> \o Text(info.auth_audience)
    BY Zenon, <1>3 DEF CredentialId, OnlyIf
  <2>2. PICK q : q = CredentialId(info)
    BY Zenon
  <2>3. PICK y, z : y = info.auth_issuer /\ z = info.auth_audience
    BY Zenon
  <2>4. q = <<"jwtauth", y>> \o Text(z)
    BY Zenon, <2>1, <2>2, <2>3
  <2>5. q[1] = "jwtauth"
    BY Zenon, <2>4, FirstOfText
  <2> QED BY Zenon, <2>2, <2>5
<1>4. ASSUME NEW labels
      PROVE "credential_id" \in DOMAIN LabelsSent(labels, info) =>
              LabelsSent(labels, info)["credential_id"][1] # "apikey"
  BY Zenon, <1>2, <1>3 DEF LabelsSent
<1>5. /\ \A m \in DOMAIN MetricsSent(MainMetrics(b, info), info) : m.mark # "CONSUMER"
      /\ \A m \in DOMAIN MetricsSent(ByConsumerMetrics(b, info), info) : m.mark # "CONSUMER"
  BY Zenon DEF MetricsSent, MainMetrics, ByConsumerMetrics, IfNamed
<1>6. /\ main.labels = LabelsSent(IfNamed(info, b.labels \ by_consumer_only), info)
      /\ main.metrics = MetricsSent(MainMetrics(b, info), info)
      /\ main.log_entries = IF info.is_final_report THEN {FillLogEntry(info, log) : log \in b.logs} ELSE {}
  BY Zenon DEF MainOperation, OperationOf
<1>7. /\ other.labels = LabelsSent(IfNamed(info, b.labels), info)
      /\ other.metrics = MetricsSent(ByConsumerMetrics(b, info), info)
      /\ other.log_entries = {}
  BY Zenon DEF ByConsumerOperation, OperationOf
<1>8. \A log : FillLogEntry(info, log).api_key = <<>>
  BY Zenon DEF FillLogEntry, Text
<1>9. \A log \in main.log_entries : log.api_key = <<>>
  BY Zenon, <1>6, <1>8
<1>10. NamesNoConsumer(main)
  BY Zenon, <1>1, <1>4, <1>5, <1>6, <1>9 DEF NamesNoConsumer
<1>11. NamesNoConsumer(other)
  BY Zenon, <1>1, <1>4, <1>5, <1>7 DEF NamesNoConsumer
<1> QED BY Zenon, <1>10, <1>11

-----------------------------------------------------------------------------
(* The stream *)

\* The builder of every service config reports supported metrics and labels only.
LEMMA BuildersOK ==
  ASSUME NEW s \in DOMAIN Services
  PROVE builders[s].metrics \subseteq supported_metrics /\ builders[s].labels \subseteq UserLabels \cup SystemLabels
<1>1. builders[s] = LoadedBuilder(Services[s])
  BY Zenon DEF builders
<1>2. CASE Services[s] = <<>>
  BY <1>1, <1>2 DEF LoadedBuilder, DefaultRequestBuilder
<1>3. CASE Services[s] # <<>>
  <2>1. PICK logs, metrics, labels : builders[s] = RequestBuilderOf(logs, metrics, labels)
    BY Zenon, <1>1, <1>3 DEF LoadedBuilder, BuilderOf
  <2>2. builders[s].metrics = {m \in supported_metrics : [name |-> m.name, mark |-> m.mark] \in metrics}
    BY <2>1 DEF RequestBuilderOf
  <2>3. builders[s].labels = SystemLabels \cup (UserLabels \cap labels)
    BY <2>1 DEF RequestBuilderOf
  <2> QED BY Zenon, <2>2, <2>3
<1> QED BY Zenon, <1>2, <1>3

\* No time lies ahead, and nothing is known of a consumer or sent to the client before
\* it may be.
StreamOK ==
  /\ service \in DOMAIN Services /\ request \in DOMAIN Requests
  /\ phase \in {"idle", "calling", "passed", "rejected", "logged"}
  /\ checkInfo.consumer_project_id \in Projects /\ checkStatus \in {"OK", "ERROR"}
  /\ received \in 0..MaxFrames /\ sent \in 0..MaxFrames
  /\ headerSize \in {0} \cup HeaderSizes /\ finalSize \in {0} \cup HeaderSizes
  /\ clock \in Times /\ lastReported \in 0..clock
  /\ tx \in -1..clock /\ rx \in -1..clock
  /\ phase \in {"idle", "calling"} => checkInfo = NoCheckResponseInfo
  /\ phase \in {"idle", "calling", "rejected"} => sent = 0 /\ headerSize = 0
  /\ phase = "idle" => reports = <<>>

\* The first step: the answer of service control to quota, the outcomes of CallQuota.
LEMMA CallQuotaOutcome ==
  ASSUME NEW key, NEW before, CallQuota(key, before)
  PROVE /\ phase' \in {"passed", "rejected"} /\ checkStatus' \in {"OK", "ERROR"}
        /\ \/ asked' = before
           \/ asked' = before ++ [quota |-> FillAllocateQuotaRequest(QuotaRequestInfo(key))]
BY Zenon DEF CallQuota

\* Without an answer nothing is known of a consumer.
LEMMA NoCheckInfo ==
  /\ NoCheckResponseInfo.consumer_project_id = ""
  /\ NoCheckResponseInfo.is_api_key_valid /\ NoCheckResponseInfo.service_is_activated
BY Zenon DEF NoCheckResponseInfo, ConvertCheckResponse

\* A stream starts with nothing received, sent or known.
LEMMA InitStream == Init => StreamOK
<1> SUFFICES ASSUME Init PROVE StreamOK
  BY Zenon
<1>1. 0 \in 0..MaxFrames /\ 0 \in Times /\ 0 \in 0..0 /\ 0 \in 0..1 /\ Unset \in -1..0
  BY TimesAssumption DEF Times, Unset
<1> QED BY Zenon, <1>1, NoCheckInfo, NamesAssumption DEF Init, StreamOK

\* decodeHeaders keeps it, whatever the handler decides at once.
LEMMA DecodeHeadersStream == ASSUME StreamOK, DecodeHeaders PROVE StreamOK'
<1>1. phase' \in {"calling", "passed", "rejected"} /\ checkStatus' \in {"OK", "ERROR"}
  BY Zenon, CallQuotaOutcome DEF DecodeHeaders, StreamOK
<1>2. /\ UNCHANGED <<service, request, clock, checkInfo, streamVars, reports, finalSize>>
      /\ lastReported' = clock
      /\ phase = "idle"
  BY Zenon DEF DecodeHeaders
<1>3. clock \in 0..clock
  BY TimesAssumption DEF StreamOK, Times
<1> QED BY Zenon, <1>1, <1>2, <1>3 DEF StreamOK, streamVars

\* So does the answer to the check.
LEMMA OnCheckResponseStream == ASSUME StreamOK, OnCheckResponse PROVE StreamOK'
<1>1. phase' \in {"passed", "rejected"} /\ checkStatus' \in {"OK", "ERROR"}
  BY Zenon, CallQuotaOutcome DEF OnCheckResponse
<1>2. UNCHANGED <<service, request, clock, streamVars, reports, lastReported, finalSize>> /\ phase = "calling"
  BY Zenon DEF OnCheckResponse, reportVars
<1>3. checkInfo'.consumer_project_id \in Projects
  <2>1. \A error, project : ConvertCheckResponse(error, project).consumer_project_id = project
    BY Zenon DEF ConvertCheckResponse
  <2>2. \/ \E error \in CheckErrors, project \in Projects : checkInfo' = ConvertCheckResponse(error, project)
        \/ checkInfo' = NoCheckResponseInfo
    BY Zenon DEF OnCheckResponse
  <2> QED BY Zenon, <2>1, <2>2, NoCheckInfo, NamesAssumption
<1> QED BY Zenon, <1>1, <1>2, <1>3 DEF StreamOK, streamVars

\* So do all steps.
LEMMA NextStream == ASSUME StreamOK, [Next]_vars PROVE StreamOK'
<1>1. CASE DecodeHeaders
  BY Zenon, <1>1, DecodeHeadersStream
<1>2. CASE OnCheckResponse
  BY Zenon, <1>2, OnCheckResponseStream
<1>3. CASE DecodeData
  <2>1. received' \in 0..MaxFrames
    BY <1>3, TimesAssumption DEF DecodeData, StreamOK
  <2>2. lastReported' \in 0..clock
    BY <1>3, TimesAssumption DEF DecodeData, TryIntermediateReport, reportVars, StreamOK, Times
  <2>3. finalSize' = finalSize
    BY Zenon, <1>3 DEF DecodeData, TryIntermediateReport, reportVars
  <2> QED BY Zenon, <1>3, <2>1, <2>2, <2>3 DEF DecodeData, StreamOK, checkVars
<1>4. CASE EncodeData
  <2>1. sent' \in 0..MaxFrames
    BY <1>4, TimesAssumption DEF EncodeData, StreamOK
  <2>2. lastReported' \in 0..clock
    BY <1>4, TimesAssumption DEF EncodeData, TryIntermediateReport, reportVars, StreamOK, Times
  <2>3. finalSize' = finalSize
    BY Zenon, <1>4 DEF EncodeData, TryIntermediateReport, reportVars
  <2> QED BY Zenon, <1>4, <2>1, <2>2, <2>3 DEF EncodeData, StreamOK, checkVars
<1>5. CASE EncodeHeaders
  BY <1>5 DEF EncodeHeaders, StreamOK, checkVars, reportVars
<1>6. CASE UpstreamTx \/ UpstreamRx
  <2>1. clock \in -1..clock
    BY TimesAssumption DEF StreamOK, Times
  <2> QED BY Zenon, <1>6, <2>1 DEF UpstreamTx, UpstreamRx, StreamOK, checkVars, reportVars
<1>7. CASE Log
  BY Zenon, <1>7 DEF Log, StreamOK, checkVars, streamVars
<1>8. CASE Tick
  <2>1. clock' \in Times /\ lastReported \in 0..clock' /\ tx \in -1..clock' /\ rx \in -1..clock'
    BY <1>8, TimesAssumption DEF Tick, StreamOK, Times
  <2> QED BY Zenon, <1>8, <2>1 DEF Tick, StreamOK, checkVars, streamVars, reportVars
<1>9. CASE UNCHANGED vars
  BY Zenon, <1>9 DEF vars, StreamOK, checkVars, streamVars, reportVars
<1> QED BY Zenon, <1>1, <1>2, <1>3, <1>4, <1>5, <1>6, <1>7, <1>8, <1>9 DEF Next, Over

-----------------------------------------------------------------------------
(* What is loaded *)

\* A set of natural numbers has a least element. Every induction below looks at the least
\* number for which the claim fails.
LEMMA LeastNat ==
  ASSUME NEW T \in SUBSET Nat, T # {}
  PROVE \E m \in T : \A k \in T : m <= k
<1>1. PICK m \in T : \A k \in T : <<k, m>> \notin OpToRel(<, Nat)
  BY Zenon, NatLessThanWellFounded, WFMin
<1>2. \A k \in T : ~(k < m)
  BY Zenon, <1>1 DEF OpToRel
<1> QED BY <1>2

\* The first place is one of the places.
LEMMA FirstIsThere ==
  ASSUME NEW places \in SUBSET Nat, places # {}
  PROVE First(places) \in places
BY Zenon, LeastNat DEF First

LogLabels(s, name) == s.logs[First(FindLogDescriptor(s, name))].labels
MetricLabels(s, name) == s.metrics[First(FindMetricDescriptor(s, name))].labels

\* What LoadedIsJustified says, of a loader that is not done yet.
Justified(s, loaded) ==
  /\ loaded = [logs |-> loaded.logs, metrics |-> loaded.metrics, labels |-> loaded.labels]
  /\ \A name \in loaded.logs : \A l \in LogLabels(s, name) :
       IsLabelSupported(l) => \E k \in loaded.labels : k.key = l.key
  /\ \A name \in loaded.metrics : \A l \in MetricLabels(s, name) :
       IsLabelSupported(l) => \E k \in loaded.labels : k.key = l.key
  /\ \A l \in loaded.labels :
       \/ \E name \in loaded.logs : l \in LogLabels(s, name)
       \/ \E name \in loaded.metrics : l \in MetricLabels(s, name)
       \/ \E i \in DOMAIN s.monitored_resources : l \in s.monitored_resources[i].labels

\* All supported labels are added and no others, or nothing is.
AllOrNothing(descriptors, loaded, added) ==
  \/ added.ok = FALSE /\ added.loaded = loaded
  \/ \E labels :
       /\ added.ok = TRUE
       /\ added.loaded = [logs |-> loaded.logs, metrics |-> loaded.metrics, labels |-> labels]
       /\ loaded.labels \subseteq labels /\ labels \subseteq loaded.labels \cup descriptors
       /\ \A l \in descriptors : IsLabelSupported(l) => \E k \in labels : k.key = l.key

\* AddLabels adds all or nothing.
LEMMA LabelsAdded ==
  ASSUME NEW s, NEW loaded, Justified(s, loaded), NEW descriptors
  PROVE AllOrNothing(descriptors, loaded, AddLabels(descriptors, loaded))
<1> DEFINE added == AddLabels(descriptors, loaded)
<1> SUFFICES \/ added.ok = FALSE /\ added.loaded = loaded
             \/ \E labels :
                  /\ added.ok = TRUE
                  /\ added.loaded = [logs |-> loaded.logs, metrics |-> loaded.metrics, labels |-> labels]
                  /\ loaded.labels \subseteq labels /\ labels \subseteq loaded.labels \cup descriptors
                  /\ \A l \in descriptors : IsLabelSupported(l) => \E k \in labels : k.key = l.key
  BY Zenon DEF AllOrNothing
<1>1. CASE Conflicts(descriptors, loaded.labels)
  BY Zenon, <1>1 DEF AddLabels, Added
<1>2. CASE ~Conflicts(descriptors, loaded.labels)
  <2> DEFINE labels == loaded.labels
                         \cup {d \in descriptors : IsLabelSupported(d) /\ \A l \in loaded.labels : l.key # d.key}
  <2>1. loaded = [logs |-> loaded.logs, metrics |-> loaded.metrics, labels |-> loaded.labels]
    BY Zenon DEF Justified
  <2>2. Insert(descriptors, loaded) =
          [logs |-> loaded.logs, metrics |-> loaded.metrics, labels |-> labels]
    <3>1. PICK new : new = {d \in descriptors : IsLabelSupported(d) /\ \A l \in loaded.labels : l.key # d.key}
      BY Zenon
    <3>2. PICK logs, metrics, old : logs = loaded.logs /\ metrics = loaded.metrics /\ old = loaded.labels
      BY Zenon
    <3>3. Insert(descriptors, loaded) = [loaded EXCEPT !.labels = old \cup new]
      BY Zenon, <3>1, <3>2 DEF Insert
    <3>4. loaded = [logs |-> logs, metrics |-> metrics, labels |-> old]
      BY Zenon, <2>1, <3>2
    <3>5. Insert(descriptors, loaded) = [logs |-> logs, metrics |-> metrics, labels |-> old \cup new]
      BY Zenon, <3>3, <3>4
    <3> QED BY Zenon, <3>1, <3>2, <3>5
  <2>3. added.ok = TRUE /\ added.loaded = Insert(descriptors, loaded)
    BY Zenon, <1>2 DEF AddLabels, Added
  <2>4. /\ loaded.labels \subseteq labels /\ labels \subseteq loaded.labels \cup descriptors
        /\ \A l \in descriptors : IsLabelSupported(l) => \E k \in labels : k.key = l.key
    OBVIOUS
  <2> QED BY Zenon, <2>2, <2>3, <2>4
<1> QED BY Zenon, <1>1, <1>2

\* A log is loaded with its labels, or nothing is.
LEMMA LogAdded ==
  ASSUME NEW s, NEW loaded, Justified(s, loaded), NEW name
  PROVE Justified(s, AddLog(s, loaded, name))
<1> DEFINE found == FindLogDescriptor(s, name)
           added == AddLabelsOfFirst(s.logs, found, loaded)
<1>1. CASE added.ok = FALSE /\ added.loaded = loaded
  BY Zenon, <1>1 DEF AddLog
<1>2. CASE found = {}
  BY Zenon, <1>1, <1>2 DEF AddLabelsOfFirst, Added
<1>3. CASE found # {}
  <2>1. added = AddLabels(LogLabels(s, name), loaded)
    BY Zenon, <1>3 DEF AddLabelsOfFirst, LogLabels
  <2>2. ASSUME NEW labels,
               added.ok = TRUE,
               added.loaded = [logs |-> loaded.logs, metrics |-> loaded.metrics, labels |-> labels],
               loaded.labels \subseteq labels, labels \subseteq loaded.labels \cup LogLabels(s, name),
               \A l \in LogLabels(s, name) : IsLabelSupported(l) => \E k \in labels : k.key = l.key
        PROVE Justified(s, AddLog(s, loaded, name))
    <3>1. AddLog(s, loaded, name) =
            [logs |-> loaded.logs \cup {name}, metrics |-> loaded.metrics, labels |-> labels]
      BY <2>2 DEF AddLog
    <3> QED BY <2>2, <3>1 DEF Justified
  <2>3. AllOrNothing(LogLabels(s, name), loaded, added)
    BY Zenon, <2>1, LabelsAdded
  <2> QED BY Zenon, <1>1, <2>2, <2>3 DEF AllOrNothing
<1> QED BY Zenon, <1>2, <1>3

\* So is a metric that is found and supported.
LEMMA MetricAdded ==
  ASSUME NEW s, NEW loaded, Justified(s, loaded), NEW name
  PROVE Justified(s, AddMetric(s, loaded, name))
<1> DEFINE found == FindMetricDescriptor(s, name)
           added == AddLabelsOfFirst(s.metrics, found, loaded)
<1>1. CASE found = {} \/ ~IsMetricSupported(s.metrics[First(found)])
  BY Zenon, <1>1 DEF AddMetric
<1>2. CASE found # {} /\ IsMetricSupported(s.metrics[First(found)])
  <2>1. AddMetric(s, loaded, name) =
          IF added.ok THEN [added.loaded EXCEPT !.metrics = @ \cup {name}] ELSE added.loaded
    BY Zenon, <1>2 DEF AddMetric
  <2>2. added = AddLabels(MetricLabels(s, name), loaded)
    BY Zenon, <1>2 DEF AddLabelsOfFirst, MetricLabels
  <2>3. CASE added.ok = FALSE /\ added.loaded = loaded
    BY Zenon, <2>1, <2>3
  <2>4. ASSUME NEW labels,
               added.ok = TRUE,
               added.loaded = [logs |-> loaded.logs, metrics |-> loaded.metrics, labels |-> labels],
               loaded.labels \subseteq labels, labels \subseteq loaded.labels \cup MetricLabels(s, name),
               \A l \in MetricLabels(s, name) : IsLabelSupported(l) => \E k \in labels : k.key = l.key
        PROVE Justified(s, AddMetric(s, loaded, name))
    <3>1. AddMetric(s, loaded, name) =
            [logs |-> loaded.logs, metrics |-> loaded.metrics \cup {name}, labels |-> labels]
      <4>1. AddMetric(s, loaded, name) = [added.loaded EXCEPT !.metrics = @ \cup {name}]
        BY Zenon, <2>1, <2>4
      <4>2. PICK before, logs, metrics :
              before = added.loaded /\ logs = loaded.logs /\ metrics = loaded.metrics
        BY Zenon
      <4>3. before = [logs |-> logs, metrics |-> metrics, labels |-> labels]
        BY Zenon, <2>4, <4>2
      <4>4. [before EXCEPT !.metrics = @ \cup {name}] =
              [logs |-> logs, metrics |-> metrics \cup {name}, labels |-> labels]
        BY <4>3
      <4> QED BY Zenon, <4>1, <4>2, <4>4
    <3> QED BY <2>4, <3>1 DEF Justified
  <2>5. AllOrNothing(MetricLabels(s, name), loaded, added)
    BY Zenon, <2>2, LabelsAdded
  <2> QED BY Zenon, <2>3, <2>4, <2>5 DEF AllOrNothing
<1> QED BY Zenon, <1>1, <1>2

\* A monitored resource justifies its labels.
LEMMA ResourceAdded ==
  ASSUME NEW s, IsService(s), NEW loaded, Justified(s, loaded), NEW type
  PROVE Justified(s, AddMonitoredResourceLabels(s, loaded, type).loaded)
<1> DEFINE found == {i \in DOMAIN s.monitored_resources : s.monitored_resources[i].type = type}
           added == AddMonitoredResourceLabels(s, loaded, type)
<1>1. added = AddLabelsOfFirst(s.monitored_resources, found, loaded)
  BY Zenon DEF AddMonitoredResourceLabels
<1>2. CASE found = {}
  BY <1>1, <1>2 DEF AddLabelsOfFirst, Added
<1>3. CASE found # {}
  <2>1. First(found) \in DOMAIN s.monitored_resources
    <3>1. DOMAIN s.monitored_resources \subseteq Nat
      BY DEF IsService, IsSequence
    <3>2. found \in SUBSET Nat
      BY Zenon, <3>1
    <3>3. First(found) \in found
      BY Zenon, <1>3, <3>2, FirstIsThere
    <3> QED BY Zenon, <3>3
  <2>2. PICK descriptors : descriptors = s.monitored_resources[First(found)].labels
    BY Zenon
  <2>3. AllOrNothing(descriptors, loaded, added)
    BY Zenon, <1>1, <1>3, <2>2, LabelsAdded DEF AddLabelsOfFirst
  <2>4. CASE added.loaded = loaded
    BY Zenon, <2>4
  <2>5. ASSUME NEW labels,
               added.loaded = [logs |-> loaded.logs, metrics |-> loaded.metrics, labels |-> labels],
               loaded.labels \subseteq labels, labels \subseteq loaded.labels \cup descriptors
        PROVE Justified(s, added.loaded)
    <3>1. \A l \in labels : l \in loaded.labels \/ \E i \in DOMAIN s.monitored_resources : l \in s.monitored_resources[i].labels
      BY Zenon, <2>1, <2>2, <2>5
    <3>2. PICK after : after = added.loaded
      BY Zenon
    <3>3. Justified(s, after)
      BY <2>5, <3>1, <3>2 DEF Justified
    <3> QED BY Zenon, <3>2, <3>3
  <2> QED BY Zenon, <2>3, <2>4, <2>5 DEF AllOrNothing
<1> QED BY Zenon, <1>2, <1>3

\* One step of AddNames.
NamesStep(s, kind, before, names, g, n) ==
  IF n = 0 THEN before
  ELSE IF kind = "logs" THEN AddLog(s, g[n - 1], names[n])
  ELSE AddMetric(s, g[n - 1], names[n])

\* What is loaded after each step of the loop.
NamesLoaded(s, kind, before, names, f, N) ==
  f = [n \in 0..N |-> NamesStep(s, kind, before, names, f, n)]

\* The loop over the names of a destination ends.
LEMMA NamesLoop ==
  ASSUME NEW s, NEW kind, NEW before, NEW names, NEW N \in Nat
  PROVE \E g : NamesLoaded(s, kind, before, names, g, N)
<1> DEFINE Step(g, n) == NamesStep(s, kind, before, names, g, n)
           T == {k \in Nat : ~\E g : g = [n \in 0..k |-> Step(g, n)]}
<1>1. SUFFICES T = {}
  BY Zenon DEF NamesLoaded
<1>2. SUFFICES ASSUME T # {} PROVE FALSE
  BY Zenon
<1>3. PICK m \in T : \A k \in T : m <= k
  <2>1. T \in SUBSET Nat
    BY Zenon
  <2> HIDE DEF T
  <2> QED BY Zenon, <1>2, <2>1, LeastNat
<1>4. ASSUME NEW g, NEW h, NEW n \in Nat, n # 0 => g[n - 1] = h[n - 1] PROVE Step(g, n) = Step(h, n)
  BY Zenon, <1>4 DEF NamesStep
<1>5. \A g : Step(g, 0) = before
  BY Zenon DEF NamesStep
<1> HIDE DEF Step
<1>6. CASE m = 0
  <2>1. PICK g : g = [n \in 0..0 |-> before]
    BY Zenon
  <2>2. g = [n \in 0..0 |-> Step(g, n)]
    BY <1>5, <2>1
  <2> QED BY Zenon, <1>6, <2>2
<1>7. CASE m # 0
  <2>1. m - 1 \in Nat /\ m - 1 \notin T
    BY <1>3, <1>7
  <2>2. PICK g : g = [n \in 0..(m - 1) |-> Step(g, n)]
    BY Zenon, <2>1
  <2>3. PICK h : h = [n \in 0..m |-> IF n < m THEN g[n] ELSE Step(g, m)]
    BY Zenon
  <2>4. ASSUME NEW n \in 0..m PROVE h[n] = Step(h, n)
    <3>1. n # 0 => g[n - 1] = h[n - 1]
      BY <2>3
    <3>2. Step(g, n) = Step(h, n)
      BY <1>4, <3>1
    <3>3. CASE n < m
      BY <2>2, <2>3, <3>2, <3>3
    <3>4. CASE n = m
      <4>1. h[m] = Step(g, m)
        BY <2>3
      <4> QED BY Zenon, <3>2, <3>4, <4>1
    <3> QED BY <3>3, <3>4
  <2>5. h = [n \in 0..m |-> Step(h, n)]
    BY Zenon, <2>3, <2>4
  <2> QED BY Zenon, <1>3, <2>5
<1> QED BY Zenon, <1>6, <1>7

\* What it computes.
LEMMA NamesUnfold ==
  ASSUME NEW s, NEW kind, NEW before, NEW names, NEW N \in Nat, N = Len(names)
  PROVE \E f : /\ NamesLoaded(s, kind, before, names, f, N)
               /\ AddNames(s, kind, before, names) = f[N]
<1> DEFINE F == CHOOSE g : NamesLoaded(s, kind, before, names, g, N)
<1>1. \E g : NamesLoaded(s, kind, before, names, g, N)
  BY Zenon, NamesLoop
<1>2. NamesLoaded(s, kind, before, names, F, N)
  BY Zenon, <1>1
<1>3. AddNames(s, kind, before, names) = F[N]
  BY Zenon DEF AddNames, NamesStep, NamesLoaded
<1> QED BY Zenon, <1>2, <1>3

\* The logs or metrics of a destination are loaded with their labels.
LEMMA NamesAdded ==
  ASSUME NEW s, NEW kind, NEW before, Justified(s, before), NEW names, Len(names) \in Nat
  PROVE Justified(s, AddNames(s, kind, before, names))
<1>1. PICK N \in Nat : N = Len(names)
  BY Zenon
<1>2. PICK f : NamesLoaded(s, kind, before, names, f, N) /\ AddNames(s, kind, before, names) = f[N]
  BY <1>1, NamesUnfold
<1> DEFINE T == {n \in 0..N : ~Justified(s, f[n])}
<1>3. CASE T = {}
  BY <1>2, <1>3
<1>4. CASE T # {}
  <2>1. T \in SUBSET Nat
    OBVIOUS
  <2>2. PICK m \in T : \A k \in T : m <= k
    <3> HIDE DEF T
    <3> QED BY Zenon, <1>4, <2>1, LeastNat
  <2>3. m \in 0..N /\ ~Justified(s, f[m]) /\ f[m] = NamesStep(s, kind, before, names, f, m)
    BY Zenon, <1>2, <2>2 DEF NamesLoaded
  <2>4. CASE m = 0
    BY Zenon, <2>3, <2>4 DEF NamesStep
  <2>5. CASE m # 0
    <3>1. m - 1 \in 0..N /\ m - 1 \notin T
      BY <2>2, <2>3, <2>5
    <3>2. Justified(s, f[m - 1])
      BY Zenon, <3>1
    <3>3. f[m] = AddLog(s, f[m - 1], names[m]) \/ f[m] = AddMetric(s, f[m - 1], names[m])
      BY Zenon, <2>3, <2>5 DEF NamesStep
    <3> QED BY Zenon, <2>3, <3>2, <3>3, LogAdded, MetricAdded
  <2> QED BY Zenon, <2>4, <2>5
<1> QED BY Zenon, <1>3, <1>4

\* A destination keeps what is loaded justified, also one that is skipped.
LEMMA DestinationAdded ==
  ASSUME NEW s, IsService(s), NEW kind, NEW before, Justified(s, before),
         NEW destination, Len(destination.names) \in Nat
  PROVE Justified(s, AddDestination(s, kind, before, destination))
<1>1. PICK added : added = AddMonitoredResourceLabels(s, before, destination.monitored_resource)
  BY Zenon
<1>2. Justified(s, added.loaded)
  BY Zenon, <1>1, ResourceAdded
<1>3. Justified(s, AddNames(s, kind, added.loaded, destination.names))
  BY Zenon, <1>2, NamesAdded
<1> QED BY Zenon, <1>1, <1>2, <1>3 DEF AddDestination

\* One step of AddDestinations.
DestinationsStep(s, kind, before, destinations, g, n) ==
  IF n = 0 THEN before ELSE AddDestination(s, kind, g[n - 1], destinations[n])

\* What is loaded after each step of the loop.
DestinationsLoaded(s, kind, before, destinations, f, N) ==
  f = [n \in 0..N |-> DestinationsStep(s, kind, before, destinations, f, n)]

\* The loop over the destinations ends.
LEMMA DestinationsLoop ==
  ASSUME NEW s, NEW kind, NEW before, NEW destinations, NEW N \in Nat
  PROVE \E g : DestinationsLoaded(s, kind, before, destinations, g, N)
<1> DEFINE Step(g, n) == DestinationsStep(s, kind, before, destinations, g, n)
           T == {k \in Nat : ~\E g : g = [n \in 0..k |-> Step(g, n)]}
<1>1. SUFFICES T = {}
  BY Zenon DEF DestinationsLoaded
<1>2. SUFFICES ASSUME T # {} PROVE FALSE
  BY Zenon
<1>3. PICK m \in T : \A k \in T : m <= k
  <2>1. T \in SUBSET Nat
    BY Zenon
  <2> HIDE DEF T
  <2> QED BY Zenon, <1>2, <2>1, LeastNat
<1>4. ASSUME NEW g, NEW h, NEW n \in Nat, n # 0 => g[n - 1] = h[n - 1] PROVE Step(g, n) = Step(h, n)
  BY Zenon, <1>4 DEF DestinationsStep
<1>5. \A g : Step(g, 0) = before
  BY Zenon DEF DestinationsStep
<1> HIDE DEF Step
<1>6. CASE m = 0
  <2>1. PICK g : g = [n \in 0..0 |-> before]
    BY Zenon
  <2>2. g = [n \in 0..0 |-> Step(g, n)]
    BY <1>5, <2>1
  <2> QED BY Zenon, <1>6, <2>2
<1>7. CASE m # 0
  <2>1. m - 1 \in Nat /\ m - 1 \notin T
    BY <1>3, <1>7
  <2>2. PICK g : g = [n \in 0..(m - 1) |-> Step(g, n)]
    BY Zenon, <2>1
  <2>3. PICK h : h = [n \in 0..m |-> IF n < m THEN g[n] ELSE Step(g, m)]
    BY Zenon
  <2>4. ASSUME NEW n \in 0..m PROVE h[n] = Step(h, n)
    <3>1. n # 0 => g[n - 1] = h[n - 1]
      BY <2>3
    <3>2. Step(g, n) = Step(h, n)
      BY <1>4, <3>1
    <3>3. CASE n < m
      BY <2>2, <2>3, <3>2, <3>3
    <3>4. CASE n = m
      <4>1. h[m] = Step(g, m)
        BY <2>3
      <4> QED BY Zenon, <3>2, <3>4, <4>1
    <3> QED BY <3>3, <3>4
  <2>5. h = [n \in 0..m |-> Step(h, n)]
    BY Zenon, <2>3, <2>4
  <2> QED BY Zenon, <1>3, <2>5
<1> QED BY Zenon, <1>6, <1>7

\* What it computes.
LEMMA DestinationsUnfold ==
  ASSUME NEW s, NEW kind, NEW before, NEW destinations, NEW N \in Nat, N = Len(destinations)
  PROVE \E f : /\ DestinationsLoaded(s, kind, before, destinations, f, N)
               /\ AddDestinations(s, kind, before, destinations) = f[N]
<1> DEFINE F == CHOOSE g : DestinationsLoaded(s, kind, before, destinations, g, N)
<1>1. \E g : DestinationsLoaded(s, kind, before, destinations, g, N)
  BY Zenon, DestinationsLoop
<1>2. DestinationsLoaded(s, kind, before, destinations, F, N)
  BY Zenon, <1>1
<1>3. AddDestinations(s, kind, before, destinations) = F[N]
  BY Zenon DEF AddDestinations, DestinationsStep, DestinationsLoaded
<1> QED BY Zenon, <1>2, <1>3

\* All destinations of one kind keep what is loaded justified.
LEMMA DestinationsAdded ==
  ASSUME NEW s, IsService(s), NEW kind, NEW before, Justified(s, before),
         NEW destinations, AreDestinations(destinations)
  PROVE Justified(s, AddDestinations(s, kind, before, destinations))
<1>1. PICK N \in Nat : N = Len(destinations) /\ DOMAIN destinations = 1..N
  BY Zenon DEF AreDestinations, IsSequence
<1>2. PICK f : /\ DestinationsLoaded(s, kind, before, destinations, f, N)
               /\ AddDestinations(s, kind, before, destinations) = f[N]
  BY <1>1, DestinationsUnfold
<1> DEFINE T == {n \in 0..N : ~Justified(s, f[n])}
<1>3. CASE T = {}
  BY <1>2, <1>3
<1>4. CASE T # {}
  <2>1. T \in SUBSET Nat
    OBVIOUS
  <2>2. PICK m \in T : \A k \in T : m <= k
    <3> HIDE DEF T
    <3> QED BY Zenon, <1>4, <2>1, LeastNat
  <2>3. m \in 0..N /\ ~Justified(s, f[m]) /\ f[m] = DestinationsStep(s, kind, before, destinations, f, m)
    BY Zenon, <1>2, <2>2 DEF DestinationsLoaded
  <2>4. CASE m = 0
    BY Zenon, <2>3, <2>4 DEF DestinationsStep
  <2>5. CASE m # 0
    <3>1. m - 1 \in 0..N /\ m - 1 \notin T /\ m \in DOMAIN destinations
      BY <1>1, <2>2, <2>3, <2>5
    <3>2. Justified(s, f[m - 1]) /\ Len(destinations[m].names) \in Nat
      BY Zenon, <3>1 DEF AreDestinations, IsSequence
    <3>3. f[m] = AddDestination(s, kind, f[m - 1], destinations[m])
      BY Zenon, <2>3, <2>5 DEF DestinationsStep
    <3> QED BY Zenon, <2>3, <3>2, <3>3, DestinationAdded
  <2> QED BY Zenon, <2>4, <2>5
<1> QED BY Zenon, <1>3, <1>4

\* Everything that Load loads is justified.
LEMMA LoadJustified ==
  ASSUME NEW s, IsService(s)
  PROVE Justified(s, Load(s))
<1>1. Justified(s, Nothing)
  BY Zenon DEF Justified, Nothing
<1>2. /\ AreDestinations(s.logging)
      /\ AreDestinations(s.producer_destinations) /\ AreDestinations(s.consumer_destinations)
  BY Zenon DEF IsService
<1>3. PICK logged : logged = AddDestinations(s, "logs", Nothing, s.logging)
  BY Zenon
<1>4. PICK produced : produced = AddDestinations(s, "metrics", logged, s.producer_destinations)
  BY Zenon
<1>5. Justified(s, logged)
  BY Zenon, <1>1, <1>2, <1>3, DestinationsAdded
<1>6. Justified(s, produced)
  BY Zenon, <1>2, <1>4, <1>5, DestinationsAdded
<1>7. Justified(s, AddDestinations(s, "metrics", produced, s.consumer_destinations))
  BY Zenon, <1>2, <1>6, DestinationsAdded
<1> QED BY Zenon, <1>3, <1>4, <1>7 DEF Load


\* What every report knows when it is sent.
Knows(info) ==
  /\ Named(info) /\ info.operation_name = rq.operation
  /\ info.api_key = ReportKey /\ info.check_response_info = checkInfo
  /\ info.is_first_report = isFirst

\* What an intermediate report adds.
Adds(info, in, out) ==
  /\ Knows(info) /\ info.is_final_report = FALSE /\ info.auth_issuer = ""
  /\ info.request_bytes = 1 + in /\ info.response_bytes = out + headerSize

\* The report that IntermediateReport makes adds just that.
LEMMA IntermediateFields ==
  ASSUME StreamOK, NEW in, NEW out
  PROVE Adds(IntermediateReport(in, out), in, out)
<1>0. PICK info : info = IntermediateReport(in, out)
  BY Zenon
<1>1. rq.operation # ""
  BY Zenon, NamesAssumption DEF StreamOK, rq
<1>2. /\ info.operation_id = "uuid" /\ info.operation_name = rq.operation
      /\ info.api_key = ReportKey /\ info.check_response_info = checkInfo
      /\ info.is_first_report = isFirst
      /\ info.is_final_report = FALSE
      /\ info.request_bytes = 1 + in /\ info.response_bytes = out + headerSize
      /\ info.auth_issuer = ""
  BY Zenon, <1>0 DEF IntermediateReport, PreparedReport
<1>3. Adds(info, in, out)
  BY Zenon, <1>1, <1>2 DEF Adds, Knows, Named
<1> QED BY Zenon, <1>0, <1>3

\* What the final one adds.
LEMMA FinalFields ==
  ASSUME StreamOK, NEW code, NEW complete, NEW h, NEW t, NEW info,
         info = FinalReport(code, complete, h, t)
  PROVE Knows(info) /\ info.is_final_report = TRUE
<1>1. rq.operation # ""
  BY Zenon, NamesAssumption DEF StreamOK, rq
<1>2. /\ info.operation_id = "uuid" /\ info.operation_name = rq.operation
      /\ info.api_key = ReportKey /\ info.check_response_info = checkInfo
      /\ info.is_first_report = isFirst
      /\ info.is_final_report = TRUE
  BY Zenon DEF FinalReport, PreparedReport
<1> QED BY Zenon, <1>1, <1>2 DEF Knows, Named

\* The steps that send a report, and what all others keep of the reports and of what
\* they depend on.
Sends(info) == Knows(info) /\ reports' = Append(reports, FillReportRequest(builder, info))

\* tryIntermediateReport, when it is time.
Intermediate(info) ==
  /\ Sends(info) /\ phase \in {"calling", "passed"} /\ isFirst' = FALSE
  /\ UNCHANGED <<service, request, phase, clock, checkVars, headerSize, tx, rx>>
  /\ lastReported' = clock /\ ToMs(clock - lastReported) >= MinInterval
  /\ info.is_final_report = FALSE /\ info.auth_issuer = ""
  /\ info.request_bytes = 1 + received' /\ info.response_bytes = sent + headerSize
  /\ received' \in {received, received + 1} /\ sent' \in {sent, sent + 1}

\* log.
Final(info) ==
  /\ Sends(info) /\ phase \in {"passed", "rejected"} /\ phase' = "logged"
  /\ UNCHANGED <<service, request, clock, checkVars, streamVars, isFirst, lastReported>>
  /\ info.is_final_report = TRUE
  /\ \E complete \in {clock, Unset} : info.latency = FillLatency(complete)
  /\ info.request_bytes = 1 + received
  /\ finalSize' \in {0} \cup HeaderSizes /\ (headerSize # 0 => finalSize' # 0)
  /\ info.response_bytes \in Nat /\ info.response_bytes >= sent + finalSize'

\* Any other step.
Silent ==
  /\ UNCHANGED <<service, request, reports, isFirst, finalSize>>
  /\ (phase = "logged") <=> (phase' = "logged")
  /\ reports = <<>> \/ (apiKey' = apiKey /\ lastReported' = lastReported)
  /\ phase \in {"idle", "calling"} \/ UNCHANGED checkInfo
  /\ received' \in {received, received + 1} /\ sent' \in {sent, sent + 1}
  /\ \/ headerSize' = headerSize
     \/ phase # "logged" /\ headerSize = 0 /\ headerSize' \in HeaderSizes

\* Every step is one of the three.
LEMMA StepKinds ==
  ASSUME StreamOK, [Next]_vars
  PROVE Silent \/ \E info : Intermediate(info) \/ Final(info)
<1>1. CASE DecodeData
  <2>1. CASE UNCHANGED reportVars
    BY Zenon, <1>1, <2>1 DEF DecodeData, Silent, reportVars, checkVars
  <2>2. CASE ~UNCHANGED reportVars
    <3>0. PICK in : in = received + 1
      BY Zenon
    <3>1. PICK info : info = IntermediateReport(in, sent)
      BY Zenon
    <3>2. Adds(info, in, sent)
      BY Zenon, <3>1, IntermediateFields
    <3>3. /\ reports' = Append(reports, FillReportRequest(builder, info))
          /\ lastReported' = clock /\ isFirst' = FALSE /\ ToMs(clock - lastReported) >= MinInterval
      BY Zenon, <1>1, <2>2, <3>0, <3>1 DEF DecodeData, TryIntermediateReport, SendReport
    <3>4. /\ phase \in {"calling", "passed"} /\ received' = in /\ in = received + 1 /\ sent' = sent
          /\ UNCHANGED <<service, request, phase, clock, checkVars, headerSize, tx, rx>>
      BY Zenon, <1>1, <3>0 DEF DecodeData
    <3>5. Intermediate(info)
      BY Zenon, <3>2, <3>3, <3>4 DEF Adds, Intermediate, Sends
    <3> QED BY Zenon, <3>5
  <2> QED BY Zenon, <2>1, <2>2
<1>2. CASE EncodeData
  <2>1. CASE UNCHANGED reportVars
    BY Zenon, <1>2, <2>1 DEF EncodeData, Silent, reportVars, checkVars
  <2>2. CASE ~UNCHANGED reportVars
    <3>1. PICK info : info = IntermediateReport(received, sent)
      BY Zenon
    <3>2. Adds(info, received, sent)
      BY Zenon, <3>1, IntermediateFields
    <3>3. /\ reports' = Append(reports, FillReportRequest(builder, info))
          /\ lastReported' = clock /\ isFirst' = FALSE /\ ToMs(clock - lastReported) >= MinInterval
      BY Zenon, <1>2, <2>2, <3>1 DEF EncodeData, TryIntermediateReport, SendReport
    <3>4. /\ phase = "passed" /\ received' = received /\ sent' = sent + 1
          /\ UNCHANGED <<service, request, phase, clock, checkVars, headerSize, tx, rx>>
      BY Zenon, <1>2 DEF EncodeData
    <3>5. Intermediate(info)
      BY Zenon, <3>2, <3>3, <3>4 DEF Adds, Intermediate, Sends
    <3> QED BY Zenon, <3>5
  <2> QED BY Zenon, <2>1, <2>2
<1>3. CASE Log
  <2>1. PICK replied \in IF phase = "rejected" THEN BOOLEAN ELSE {headerSize # 0} :
          \E code \in EndCodes(replied), complete \in {clock, Unset},
             headers \in IF replied THEN HeaderSizes ELSE {0}, trailers \in {0, 1} :
            /\ finalSize' = headers
            /\ SendReport(FinalReport(code, complete, headers, trailers))
    BY Zenon, <1>3 DEF Log
  <2>2. PICK code \in EndCodes(replied), complete \in {clock, Unset},
             h \in IF replied THEN HeaderSizes ELSE {0}, t \in {0, 1} :
            finalSize' = h /\ SendReport(FinalReport(code, complete, h, t))
    BY Zenon, <2>1
  <2>3. PICK info : info = FinalReport(code, complete, h, t)
    BY Zenon
  <2>9. h \in {0} \cup HeaderSizes /\ (headerSize # 0 => h # 0)
    <3>1. headerSize = 0 \/ replied
      BY Zenon, <1>3, <2>1 DEF Log, StreamOK
    <3> QED BY <2>2, <3>1, SizesAssumption
  <2>4. FinalResponseBytes(h, t) \in Nat /\ FinalResponseBytes(h, t) >= sent + h
    <3>1. sent \in Nat /\ h \in Nat
      BY <2>9, TimesAssumption, SizesAssumption DEF StreamOK
    <3> QED BY <2>2, <3>1 DEF FinalResponseBytes
  <2>5. /\ Knows(info) /\ info.is_final_report = TRUE
        /\ info.request_bytes = 1 + received /\ info.response_bytes = FinalResponseBytes(h, t)
        /\ info.latency = FillLatency(complete)
    <3>1. Knows(info) /\ info.is_final_report = TRUE
      BY Zenon, <2>3, FinalFields
    <3>2. /\ info.request_bytes = 1 + received /\ info.response_bytes = FinalResponseBytes(h, t)
          /\ info.latency = FillLatency(complete)
      BY Zenon, <2>3 DEF FinalReport, PreparedReport
    <3> QED BY Zenon, <3>1, <3>2
  <2>6. /\ phase \in {"passed", "rejected"} /\ phase' = "logged"
        /\ UNCHANGED <<service, request, clock, checkVars, streamVars, isFirst, lastReported>>
    BY Zenon, <1>3 DEF Log
  <2>7. Final(info)
    BY Zenon, <2>2, <2>3, <2>4, <2>5, <2>6, <2>9 DEF SendReport, Final, Sends
  <2> QED BY Zenon, <2>7
<1>4. CASE DecodeHeaders
  <2>1. phase' # "logged"
    BY Zenon, <1>4, CallQuotaOutcome DEF DecodeHeaders
  <2> QED BY Zenon, <1>4, <2>1 DEF DecodeHeaders, StreamOK, Silent, streamVars
<1>5. CASE OnCheckResponse
  <2>1. phase' # "logged"
    BY Zenon, <1>5, CallQuotaOutcome DEF OnCheckResponse
  <2> QED BY Zenon, <1>5, <2>1 DEF OnCheckResponse, StreamOK, Silent, streamVars, reportVars
<1>6. CASE EncodeHeaders \/ UpstreamTx \/ UpstreamRx \/ Tick \/ Over \/ UNCHANGED vars
  BY Zenon, <1>6 DEF EncodeHeaders, UpstreamTx, UpstreamRx, Tick, Over, Silent, vars, streamVars,
              reportVars, checkVars
<1> QED BY Zenon, <1>1, <1>2, <1>3, <1>4, <1>5, <1>6 DEF Next

\* A report more.
LEMMA AppendReport ==
  ASSUME NEW S, reports \in Seq(S), NEW x, reports' = Append(reports, x)
  PROVE /\ reports' \in Seq(S \cup {x}) /\ Len(reports) \in Nat /\ Len(reports') = Len(reports) + 1
        /\ DOMAIN reports = 1..Len(reports) /\ DOMAIN reports' = 1..Len(reports')
        /\ \A i \in 1..Len(reports) : reports'[i] = reports[i]
        /\ reports'[Len(reports')] = x /\ reports' # <<>>
<1>1. PICK q : q = reports
  BY Zenon
<1>2. q \in Seq(S)
  BY Zenon, <1>1
<1>3. PICK p : p = Append(q, x)
  BY Zenon
<1>4. q \in Seq(S \cup {x})
  BY <1>2
<1>5. /\ p \in Seq(S \cup {x}) /\ Len(q) \in Nat /\ Len(p) = Len(q) + 1
      /\ DOMAIN q = 1..Len(q) /\ DOMAIN p = 1..Len(p)
      /\ \A i \in 1..Len(q) : p[i] = q[i]
      /\ p[Len(p)] = x /\ p # <<>>
  BY <1>3, <1>4
<1> QED BY Zenon, <1>1, <1>3, <1>5

\* Dividing by the ticks of a millisecond.
LEMMA Division ==
  ASSUME NEW t \in Nat \ {0}
  PROVE /\ \A x \in Nat : x \div t \in Nat
        /\ \A x, y \in Nat : x <= y => x \div t <= y \div t
        /\ \A x, n \in Nat : x \div t >= n => x >= n * t
        /\ \A x, n \in Nat : n * t <= x => n <= x \div t
OBVIOUS

\* The shortest time between two intermediate reports, in ticks.
Interval == MinInterval * TicksPerMs

\* Between two reports there is an interval; only the final one may come sooner.
LengthOK ==
  /\ \E S : reports \in Seq(S)
  /\ phase # "logged" => Len(reports) * Interval <= lastReported
  /\ phase = "logged" => (Len(reports) - 1) * Interval <= lastReported /\ reports # <<>>

\* The interval is a number, and not zero.
LEMMA IntervalNat == Interval \in Nat \ {0}
BY TimesAssumption DEF Interval

\* All steps keep the interval between reports.
LEMMA NextLength == ASSUME StreamOK, LengthOK, [Next]_vars PROVE LengthOK'
<1>1. PICK S : reports \in Seq(S)
  BY Zenon DEF LengthOK
<1>2. /\ Len(reports) \in Nat /\ Interval \in Nat \ {0} /\ TicksPerMs \in Nat \ {0} /\ MinInterval \in Nat
      /\ clock \in Nat /\ lastReported \in 0..clock
  BY <1>1, IntervalNat, TimesAssumption DEF StreamOK, Times
<1>3. CASE Silent
  <2>1. reports' = reports /\ (reports = <<>> \/ lastReported' = lastReported)
    BY Zenon, <1>3 DEF Silent
  <2>2. lastReported' \in Nat
    BY NextStream, TimesAssumption DEF StreamOK, Times
  <2>3. reports = <<>> => Len(reports) * Interval = 0
    BY <1>2
  <2> QED BY <1>3, <2>1, <2>2, <2>3 DEF Silent, LengthOK
<1>4. CASE \E info : Intermediate(info)
  <2>1. PICK info : Intermediate(info)
    BY Zenon, <1>4
  <2>2. clock - lastReported >= Interval
    <3>1. PICK x \in Nat : x = clock - lastReported
      BY <1>2
    <3>2. x \div TicksPerMs >= MinInterval
      BY Zenon, <2>1, <3>1 DEF Intermediate, ToMs
    <3>3. x >= MinInterval * TicksPerMs
      BY Zenon, <1>2, <3>2, Division
    <3> QED BY Zenon, <3>1, <3>3 DEF Interval
  <2>3. /\ Len(reports') = Len(reports) + 1 /\ \E T : reports' \in Seq(T)
    BY Zenon, <1>1, <2>1, AppendReport DEF Intermediate, Sends
  <2>4. Len(reports) * Interval <= lastReported /\ lastReported' = clock /\ phase' # "logged"
    BY Zenon, <2>1 DEF Intermediate, LengthOK
  <2>5. (Len(reports) + 1) * Interval = Len(reports) * Interval + Interval
    BY <1>2
  <2>6. (Len(reports) + 1) * Interval <= clock
    BY <1>2, <2>2, <2>4, <2>5
  <2> QED BY Zenon, <2>3, <2>4, <2>6 DEF LengthOK
<1>5. CASE \E info : Final(info)
  <2>1. PICK info : Final(info)
    BY Zenon, <1>5
  <2>2. /\ Len(reports') = Len(reports) + 1 /\ \E T : reports' \in Seq(T) /\ reports' # <<>>
    BY Zenon, <1>1, <2>1, AppendReport DEF Final, Sends
  <2>3. Len(reports) * Interval <= lastReported /\ lastReported' = lastReported /\ phase' = "logged"
    BY Zenon, <2>1 DEF Final, LengthOK
  <2> QED BY <1>2, <2>2, <2>3 DEF LengthOK
<1> QED BY Zenon, <1>3, <1>4, <1>5, StepKinds

\* Who has been told of the request so far.
CountOK ==
  /\ phase # "logged" => (isFirst <=> reports = <<>>)
  /\ \A i \in 1..Len(reports), mark \in EachParty :
       Values(reports[i], mark, "request_count") # {} =>
         \/ i = 1 /\ mark # "PRODUCER_BY_CONSUMER"
         \/ i = Len(reports) /\ phase = "logged" /\ mark = "PRODUCER_BY_CONSUMER"
  /\ reports # <<>> =>
       \A m \in builder.metrics : m.name = "request_count" =>
         \/ m.mark = "PRODUCER" /\ Values(reports[1], m.mark, m.name) # {}
         \/ m.mark = "CONSUMER" /\ (Values(reports[1], m.mark, m.name) # {} \/ ReportKey = "")
         \/ /\ m.mark = "PRODUCER_BY_CONSUMER"
            /\ phase = "logged" => \/ Values(reports[Len(reports)], m.mark, m.name) # {}
                                   \/ checkInfo.consumer_project_id = ""

\* A report that is sent, by Intermediate or Final.
LEMMA SendCount ==
  ASSUME StreamOK, LengthOK, CountOK, phase # "logged", NEW info, Sends(info),
         UNCHANGED <<service, checkVars>>,
         info.is_final_report <=> phase' = "logged", phase' # "logged" => isFirst' = FALSE
  PROVE CountOK'
<1>1. PICK S : reports \in Seq(S)
  BY Zenon DEF LengthOK
<1>2. PICK r : r = FillReportRequest(builder, info)
  BY Zenon
<1>3. /\ Len(reports) \in Nat /\ Len(reports') = Len(reports) + 1
      /\ \A i \in 1..Len(reports) : reports'[i] = reports[i]
      /\ reports'[Len(reports')] = r /\ reports' # <<>>
  BY Zenon, <1>1, <1>2, AppendReport DEF Sends
<1>4. reports = <<>> <=> Len(reports) = 0
  BY <1>1
<1>5. isFirst <=> Len(reports) = 0
  BY Zenon, <1>4 DEF CountOK
<1>6. ASSUME NEW mark
      PROVE Values(r, mark, "request_count") # {} <=>
              Counts(info, mark) /\ \E m \in builder.metrics : m.name = "request_count" /\ m.mark = mark
  <2>1. PICK b : b = builder
    BY Zenon
  <2>2. b.metrics \subseteq supported_metrics
    BY Zenon, <2>1, BuildersOK DEF StreamOK, builder
  <2>3. Named(info) /\ r = FillReportRequest(b, info)
    BY Zenon, <1>2, <2>1 DEF Sends, Knows
  <2> QED BY <2>1, <2>2, <2>3, CountTold
<1>7. builder' = builder /\ ReportKey' = ReportKey /\ checkInfo' = checkInfo
  BY Zenon DEF builder, ReportKey, checkVars
<1>8. phase' # "logged" => (isFirst' <=> reports' = <<>>)
  BY Zenon, <1>3
<1>9. ASSUME NEW i \in 1..Len(reports'), NEW mark \in EachParty,
             Values(reports'[i], mark, "request_count") # {}
      PROVE \/ i = 1 /\ mark # "PRODUCER_BY_CONSUMER"
            \/ i = Len(reports') /\ phase' = "logged" /\ mark = "PRODUCER_BY_CONSUMER"
  <2>1. CASE i \in 1..Len(reports)
    BY Zenon, <1>3, <1>9, <2>1 DEF CountOK
  <2>2. CASE i = Len(reports')
    <3>1. Counts(info, mark)
      BY Zenon, <1>3, <1>6, <1>9, <2>2
    <3>2. (mark # "PRODUCER_BY_CONSUMER" => isFirst) /\ (mark = "PRODUCER_BY_CONSUMER" => phase' = "logged")
      BY Zenon, <3>1 DEF Counts, Sends, Knows
    <3> QED BY <1>3, <1>5, <2>2, <3>2
  <2> QED BY <1>3, <2>1, <2>2
<1>10. ASSUME NEW m \in builder.metrics, m.name = "request_count"
       PROVE \/ m.mark = "PRODUCER" /\ Values(reports'[1], m.mark, m.name) # {}
             \/ m.mark = "CONSUMER" /\ (Values(reports'[1], m.mark, m.name) # {} \/ ReportKey = "")
             \/ /\ m.mark = "PRODUCER_BY_CONSUMER"
                /\ phase' = "logged" => \/ Values(reports'[Len(reports')], m.mark, m.name) # {}
                                        \/ checkInfo.consumer_project_id = ""
  <2>1. m.mark \in EachParty
    BY Zenon, BuildersOK, Table DEF StreamOK, builder
  <2>2. CASE m.mark = "PRODUCER_BY_CONSUMER"
    BY Zenon, <1>3, <1>6, <1>10, <2>2 DEF Counts, Sends, Knows
  <2>3. CASE m.mark # "PRODUCER_BY_CONSUMER" /\ Len(reports) = 0
    <3>1. isFirst /\ reports'[1] = r
      BY <1>3, <1>5, <2>3
    <3>2. (m.mark = "CONSUMER" /\ ReportKey = "") \/ Counts(info, m.mark)
      BY Zenon, <2>3, <3>1 DEF Counts, Sends, Knows
    <3> QED BY Zenon, <1>6, <1>10, <2>1, <2>3, <3>1, <3>2 DEF EachParty
  <2>4. CASE m.mark # "PRODUCER_BY_CONSUMER" /\ Len(reports) # 0
    <3>1. reports'[1] = reports[1] /\ reports # <<>>
      BY <1>3, <1>4, <2>4
    <3> QED BY Zenon, <1>10, <2>4, <3>1 DEF CountOK
  <2> QED BY Zenon, <2>2, <2>3, <2>4
<1> QED BY Zenon, <1>7, <1>8, <1>9, <1>10 DEF CountOK

\* All steps keep the count.
LEMMA NextCount == ASSUME StreamOK, LengthOK, CountOK, [Next]_vars PROVE CountOK'
<1>1. CASE Silent
  <2>1. /\ builder' = builder /\ UNCHANGED <<reports, isFirst>>
        /\ phase = "logged" <=> phase' = "logged"
    BY Zenon, <1>1 DEF Silent, builder
  <2>2. reports # <<>> /\ ReportKey = "" => ReportKey' = ""
    <3>1. CASE phase \in {"idle", "calling"}
      BY Zenon, <1>1, <3>1, NoCheckInfo DEF StreamOK, Silent, ReportKey
    <3>2. CASE phase \notin {"idle", "calling"}
      BY Zenon, <1>1, <3>2 DEF Silent, ReportKey
    <3> QED BY Zenon, <3>1, <3>2
  <2>3. phase = "logged" => checkInfo' = checkInfo
    BY Zenon, <1>1 DEF Silent
  <2> QED BY Zenon, <2>1, <2>2, <2>3 DEF CountOK
<1>2. CASE \E info : Intermediate(info)
  BY Zenon, <1>2, SendCount DEF Intermediate
<1>3. CASE \E info : Final(info)
  BY Zenon, <1>3, SendCount DEF Final
<1> QED BY Zenon, <1>1, <1>2, <1>3, StepKinds

\* The request was not longer at the backend than the stream has lasted.
LEMMA BackendWithinStream ==
  ASSUME StreamOK
  PROVE BackendTime \in Nat /\ ToMs(clock) \in Nat /\ BackendTime <= ToMs(clock)
<1>1. clock \in Nat /\ tx \in -1..clock /\ rx \in -1..clock /\ TicksPerMs \in Nat \ {0}
  BY TimesAssumption DEF StreamOK, Times
<1>2. ToMs(clock) \in Nat
  BY Zenon, <1>1, Division DEF ToMs
<1>3. CASE tx # Unset /\ rx # Unset /\ rx >= tx
  <2>1. PICK x \in Nat : x = rx - tx /\ x <= clock
    BY <1>1, <1>3 DEF Unset
  <2>2. x \div TicksPerMs \in Nat /\ x \div TicksPerMs <= clock \div TicksPerMs
    BY Zenon, <1>1, <2>1, Division
  <2> QED BY Zenon, <1>2, <1>3, <2>1, <2>2 DEF BackendTime, ToMs
<1>4. CASE ~(tx # Unset /\ rx # Unset /\ rx >= tx)
  BY <1>2, <1>4 DEF BackendTime
<1> QED BY Zenon, <1>3, <1>4

\* What the final report says of the latencies.
LEMMA LatencyOfReport ==
  ASSUME StreamOK, NEW info, \E complete \in {clock, Unset} : info.latency = FillLatency(complete)
  PROVE \/ /\ MetricValues(info)["total_latencies"] = NotSent
           /\ MetricValues(info)["request_overhead_latencies"] = NotSent
        \/ \E t, n \in Nat : /\ n <= t
                             /\ MetricValues(info)["total_latencies"] = t
                             /\ MetricValues(info)["backend_latencies"] = n
                             /\ MetricValues(info)["request_overhead_latencies"] = t - n
<1>1. PICK complete \in {clock, Unset} : info.latency = FillLatency(complete)
  BY Zenon
<1>2. PICK n \in Nat, t \in Nat : n = BackendTime /\ t = ToMs(clock) /\ n <= t
  BY Zenon, BackendWithinStream
<1>3. clock \in Nat
  BY TimesAssumption DEF StreamOK, Times
<1>4. CASE complete = Unset
  <2>1. info.latency.request_time_ms = -1 /\ info.latency.overhead_time_ms = -1
    BY <1>1, <1>2, <1>4 DEF FillLatency
  <2> QED BY Zenon, <2>1, ValueOfMetric DEF IfKnown, NotSent
<1>5. CASE complete = clock
  <2>1. /\ info.latency.request_time_ms = t /\ info.latency.backend_time_ms = n
        /\ info.latency.overhead_time_ms = t - n
    BY <1>1, <1>2, <1>3, <1>5 DEF FillLatency, Unset
  <2>2. t >= 0 /\ n >= 0 /\ t - n >= 0
    BY <1>2
  <2>3. /\ MetricValues(info)["total_latencies"] = t /\ MetricValues(info)["backend_latencies"] = n
        /\ MetricValues(info)["request_overhead_latencies"] = t - n
    BY Zenon, <2>1, <2>2, ValueOfMetric DEF IfKnown
  <2> QED BY Zenon, <1>2, <2>3
<1> QED BY Zenon, <1>1, <1>4, <1>5

\* All steps keep the latencies consistent.
LEMMA NextLatencies == ASSUME StreamOK, LengthOK, LatenciesAddUp, [Next]_vars PROVE LatenciesAddUp'
<1>1. CASE Silent
  BY <1>1 DEF Silent, LatenciesAddUp, LastReport, builder
<1>2. CASE \E info : Intermediate(info)
  <2>1. phase' # "logged"
    BY Zenon, <1>2 DEF Intermediate
  <2> QED BY <2>1 DEF LatenciesAddUp
<1>3. CASE \E info : Final(info)
  <2>1. PICK info : Final(info)
    BY Zenon, <1>3
  <2>2. PICK b : b = builder
    BY Zenon
  <2>3. PICK r : r = FillReportRequest(b, info)
    BY Zenon
  <2>4. LastReport' = r
    BY Zenon, <2>1, <2>2, <2>3, AppendReport DEF Final, Sends, LengthOK, LastReport
  <2>5. builder' = b
    BY Zenon, <2>1, <2>2 DEF Final, builder
  <2>6. SUFFICES ASSUME NEW mark \in EachParty, LatencyMetrics \subseteq b.metrics
        PROVE LET total == Values(r, mark, "total_latencies")
                  backend == Values(r, mark, "backend_latencies")
                  overhead == Values(r, mark, "request_overhead_latencies")
              IN /\ overhead = {t - n : t \in total, n \in backend}
                 /\ total = {o + n : o \in overhead, n \in backend}
                 /\ \A o \in overhead : o >= 0
    BY <2>4, <2>5 DEF LatenciesAddUp
  <2>7. ASSUME NEW name \in LatencyNames
        PROVE Values(r, mark, name) = IF Addressed(info, mark) /\ MetricValues(info)[name] # NotSent
                                      THEN {MetricValues(info)[name]} ELSE {}
    BY Zenon, <2>1, <2>3, <2>6, LatencyTold DEF Final, Sends, Knows
  <2>8. CASE \/ ~Addressed(info, mark)
             \/ /\ MetricValues(info)["total_latencies"] = NotSent
                /\ MetricValues(info)["request_overhead_latencies"] = NotSent
    <3>1. Values(r, mark, "total_latencies") = {} /\ Values(r, mark, "request_overhead_latencies") = {}
      BY Zenon, <2>7, <2>8 DEF LatencyNames
    <3> QED BY <3>1
  <2>9. CASE /\ Addressed(info, mark)
             /\ \E t, n \in Nat : /\ n <= t
                                  /\ MetricValues(info)["total_latencies"] = t
                                  /\ MetricValues(info)["backend_latencies"] = n
                                  /\ MetricValues(info)["request_overhead_latencies"] = t - n
    <3>1. PICK t \in Nat, n \in Nat : /\ n <= t
                                  /\ MetricValues(info)["total_latencies"] = t
                                  /\ MetricValues(info)["backend_latencies"] = n
                                  /\ MetricValues(info)["request_overhead_latencies"] = t - n
      BY Zenon, <2>9
    <3>2. t # NotSent /\ n # NotSent /\ t - n # NotSent
      BY <3>1 DEF NotSent
    <3>3. /\ Values(r, mark, "total_latencies") = {t} /\ Values(r, mark, "backend_latencies") = {n}
          /\ Values(r, mark, "request_overhead_latencies") = {t - n}
      BY Zenon, <2>7, <2>9, <3>1, <3>2 DEF LatencyNames
    <3>4. {t - n} = {x - y : x \in {t}, y \in {n}} /\ {t} = {x + y : x \in {t - n}, y \in {n}}
      <4>1. PICK d \in Nat : d = t - n
        BY <3>1
      <4>2. {t - n} = {x - y : x \in {t}, y \in {n}}
        <5>1. ASSUME NEW z \in {x - y : x \in {t}, y \in {n}} PROVE z = t - n
          <6>1. PICK x \in {t}, y \in {n} : z = x - y
            OBVIOUS
          <6> QED BY <6>1
        <5>2. t - n \in {x - y : x \in {t}, y \in {n}}
          OBVIOUS
        <5> QED BY <5>1, <5>2
      <4>3. {d + n} = {x + y : x \in {d}, y \in {n}}
        OBVIOUS
      <4>4. d + n = t
        BY <4>1
      <4> QED BY <4>1, <4>2, <4>3, <4>4
    <3>5. t - n >= 0
      BY <3>1
    <3> QED BY <3>3, <3>4, <3>5
  <2>10. \E complete \in {clock, Unset} : info.latency = FillLatency(complete)
    BY Zenon, <2>1 DEF Final
  <2> QED BY <2>8, <2>9, <2>10, LatencyOfReport
<1> QED BY Zenon, <1>1, <1>2, <1>3, StepKinds

\* The bytes of the stream, as an intermediate report would count them now.
BytesSoFar == [request_bytes |-> 1 + received, response_bytes |-> sent + headerSize]

\* No report counted more than there is now.
BytesOK ==
  \A i \in 1..Len(reports), mark \in TwoParties, name \in ByteNames :
    \A v \in Values(reports[i], mark, name) :
      /\ v \in Nat \ {0}
      /\ phase # "logged" => v <= BytesSoFar[name]
      /\ \E m \in builder.metrics : m.name = name /\ m.mark = mark

\* A report that counts at least the bytes so far, without those that were removed.
LEMMA SendBytes ==
  ASSUME StreamOK, LengthOK, BytesOK, BytesShrinkOnlyByHeaders, phase # "logged", NEW info, Sends(info),
         service' = service,
         \A name \in ByteNames : /\ BytesOf(info)[name] \in Nat /\ BytesSoFar[name] \in Nat
                                 /\ BytesSoFar[name] > 0 => BytesOf(info)[name] > 0
                                 /\ Removed(name)' \in Nat
                                 /\ BytesOf(info)[name] + Removed(name)' >= BytesSoFar[name]
                                 /\ phase' # "logged" => /\ BytesSoFar'[name] >= BytesOf(info)[name]
                                                         /\ BytesSoFar'[name] >= BytesSoFar[name]
                                 /\ BytesSoFar'[name] \in Nat
  PROVE BytesOK' /\ BytesShrinkOnlyByHeaders'
<1>1. PICK S : reports \in Seq(S)
  BY Zenon DEF LengthOK
<1>2. PICK b : b = builder
  BY Zenon
<1>3. PICK r : r = FillReportRequest(b, info)
  BY Zenon
<1>4. /\ Len(reports) \in Nat /\ Len(reports') = Len(reports) + 1
      /\ DOMAIN reports = 1..Len(reports) /\ DOMAIN reports' = 1..Len(reports')
      /\ \A i \in 1..Len(reports) : reports'[i] = reports[i]
      /\ reports'[Len(reports')] = r
  BY Zenon, <1>1, <1>2, <1>3, AppendReport DEF Sends
<1>5. b.metrics \subseteq supported_metrics /\ builder' = b
  BY Zenon, <1>2, BuildersOK DEF StreamOK, builder
<1>6. ASSUME NEW mark, NEW name \in ByteNames
      PROVE Values(r, mark, name) =
              IF /\ BytesOf(info)[name] > 0 /\ Addressed(info, mark)
                 /\ \E m \in b.metrics : m.name = name /\ m.mark = mark
              THEN {BytesOf(info)[name]} ELSE {}
  BY Zenon, <1>3, <1>5, BytesTold DEF Sends, Knows
<1>7. ASSUME NEW i \in 1..Len(reports'), NEW mark \in TwoParties, NEW name \in ByteNames,
             NEW v \in Values(reports'[i], mark, name)
      PROVE /\ v \in Nat \ {0}
            /\ phase' # "logged" => v <= BytesSoFar'[name]
            /\ \E m \in b.metrics : m.name = name /\ m.mark = mark
  <2>1. CASE i \in 1..Len(reports)
    <3>1. v \in Nat \ {0} /\ v <= BytesSoFar[name] /\ \E m \in b.metrics : m.name = name /\ m.mark = mark
      BY <1>2, <1>4, <2>1 DEF BytesOK
    <3> QED BY <3>1
  <2>2. CASE i = Len(reports')
    <3>1. v \in Values(r, mark, name)
      BY Zenon, <1>4, <2>2
    <3>2. v = BytesOf(info)[name] /\ v > 0 /\ \E m \in b.metrics : m.name = name /\ m.mark = mark
      BY <1>6, <3>1
    <3> QED BY <3>2
  <2>3. i \in 1..Len(reports) \/ i = Len(reports')
    BY <1>4
  <2> QED BY Zenon, <2>1, <2>2, <2>3
<1>8. ASSUME NEW i \in DOMAIN reports' \ {1}, NEW mark \in TwoParties, NEW name \in ByteNames,
             NEW earlier \in Values(reports'[i - 1], mark, name)
      PROVE \/ \E later \in Values(reports'[i], mark, name) :
                 later + (IF i = Len(reports') THEN Removed(name)' ELSE 0) >= earlier
            \/ mark = "CONSUMER" /\ reports'[i][1].consumer_id = <<>>
  <2>1. i \in 1..Len(reports') /\ i # 1 /\ i - 1 \in 1..Len(reports) /\ reports'[i - 1] = reports[i - 1]
    BY <1>4
  <2>2. CASE i \in 1..Len(reports)
    <3>1. i \in DOMAIN reports \ {1} /\ reports'[i] = reports[i] /\ earlier \in Values(reports[i - 1], mark, name)
      BY Zenon, <1>4, <2>1, <2>2
    <3>2. i # Len(reports') /\ Removed(name) = 0
      BY <1>4, <2>2 DEF Removed
    <3>3. \/ \E later \in Values(reports[i], mark, name) : later + 0 >= earlier
          \/ mark = "CONSUMER" /\ reports[i][1].consumer_id = <<>>
      BY Zenon, <3>1, <3>2 DEF BytesShrinkOnlyByHeaders, ByteNames
    <3> QED BY Zenon, <3>1, <3>2, <3>3
  <2>3. CASE i = Len(reports')
    <3>1. /\ earlier \in Nat \ {0} /\ earlier <= BytesSoFar[name]
          /\ \E m \in b.metrics : m.name = name /\ m.mark = mark
      BY <1>2, <2>1 DEF BytesOK
    <3>2. BytesOf(info)[name] + Removed(name)' >= earlier /\ BytesOf(info)[name] > 0
      <4>1. /\ BytesOf(info)[name] \in Nat /\ BytesSoFar[name] \in Nat /\ Removed(name)' \in Nat
            /\ BytesSoFar[name] > 0 => BytesOf(info)[name] > 0
            /\ BytesOf(info)[name] + Removed(name)' >= BytesSoFar[name]
        BY Zenon
      <4>2. PICK x, y, z : x = BytesOf(info)[name] /\ y = BytesSoFar[name] /\ z = Removed(name)'
        BY Zenon
      <4>3. /\ x \in Nat /\ y \in Nat /\ z \in Nat /\ (y > 0 => x > 0) /\ x + z >= y
            /\ earlier \in Nat \ {0} /\ earlier <= y
        BY Zenon, <3>1, <4>1, <4>2
      <4>4. x + z >= earlier /\ x > 0
        BY <4>3
      <4> QED BY Zenon, <4>2, <4>4
    <3>3. CASE Addressed(info, mark)
      <4>1. BytesOf(info)[name] \in Values(reports'[i], mark, name)
        BY Zenon, <1>4, <1>6, <2>3, <3>1, <3>2, <3>3
      <4>2. BytesOf(info)[name] + (IF i = Len(reports') THEN Removed(name)' ELSE 0) >= earlier
        BY Zenon, <2>3, <3>2
      <4> QED BY Zenon, <4>1, <4>2
    <3>4. CASE ~Addressed(info, mark)
      <4>1. mark = "CONSUMER" /\ info.api_key = ""
        BY Zenon, <3>4 DEF Addressed, TwoParties
      <4>2. r[1].consumer_id = <<>>
        <5>1. r[1] = MainOperation(b, info)
          BY Zenon, <1>3, Operations
        <5>2. MainOperation(b, info).consumer_id = ConsumerOfKey("")
          BY Zenon, <4>1, ConsumerOfOperations
        <5> QED BY Zenon, <5>1, <5>2 DEF ConsumerOfKey, OnlyIf
      <4> QED BY Zenon, <1>4, <2>3, <4>1, <4>2
    <3> QED BY Zenon, <3>3, <3>4
  <2> QED BY <1>4, <2>1, <2>2, <2>3
<1>9. BytesOK'
  BY <1>5, <1>7 DEF BytesOK
<1>10. BytesShrinkOnlyByHeaders'
  BY Zenon, <1>8 DEF BytesShrinkOnlyByHeaders, ByteNames
<1> QED BY Zenon, <1>9, <1>10

\* All steps keep the bytes of the reports in order.
LEMMA NextBytes ==
  ASSUME StreamOK, LengthOK, BytesOK, BytesShrinkOnlyByHeaders, [Next]_vars
  PROVE BytesOK' /\ BytesShrinkOnlyByHeaders'
<1>1. received \in Nat /\ sent \in Nat /\ headerSize \in Nat
  BY TimesAssumption, SizesAssumption DEF StreamOK
<1>2. CASE Silent
  <2>1. /\ builder' = builder /\ reports' = reports /\ (phase = "logged" <=> phase' = "logged")
    BY Zenon, <1>2 DEF Silent, builder
  <2>2. \A name \in ByteNames : BytesSoFar'[name] >= BytesSoFar[name] /\ BytesSoFar[name] \in Nat /\ BytesSoFar'[name] \in Nat
    <3>1. /\ received' \in {received, received + 1} /\ sent' \in {sent, sent + 1}
          /\ headerSize' = headerSize \/ (headerSize = 0 /\ headerSize' \in HeaderSizes)
      BY Zenon, <1>2 DEF Silent
    <3>2. headerSize' \in Nat /\ headerSize' >= headerSize
      <4>1. \A h \in HeaderSizes : h \in Nat
        BY Zenon, SizesAssumption
      <4>2. PICK h : h = headerSize'
        BY Zenon
      <4>3. h \in Nat /\ (h = headerSize \/ headerSize = 0)
        BY <1>1, <3>1, <4>1, <4>2
      <4>4. h >= headerSize
        BY <1>1, <4>3
      <4> QED BY Zenon, <4>2, <4>3, <4>4
    <3>3. received' \in Nat /\ received' >= received /\ sent' \in Nat /\ sent' >= sent
      BY <1>1, <3>1
    <3>4. /\ BytesSoFar.request_bytes = 1 + received /\ BytesSoFar.response_bytes = sent + headerSize
          /\ BytesSoFar'.request_bytes = 1 + received' /\ BytesSoFar'.response_bytes = sent' + headerSize'
      BY Zenon DEF BytesSoFar
    <3> QED BY <1>1, <3>2, <3>3, <3>4 DEF ByteNames
  <2>3. BytesOK'
    BY <2>1, <2>2 DEF BytesOK
  <2>4. reports' = reports /\ BytesShrinkOnlyByHeaders
    BY Zenon, <2>1
  <2>6. \A name : Removed(name)' = Removed(name)
    BY Zenon, <1>2, <2>1 DEF Silent, Removed
  <2>5. BytesShrinkOnlyByHeaders'
    <3> SUFFICES ASSUME NEW i \in DOMAIN reports \ {1}, NEW mark \in TwoParties,
                        NEW name \in {"request_bytes", "response_bytes"},
                        NEW earlier \in Values(reports[i - 1], mark, name)
                 PROVE \/ \E later \in Values(reports[i], mark, name) :
                            later + (IF i = Len(reports) THEN Removed(name) ELSE 0) >= earlier
                       \/ mark = "CONSUMER" /\ reports[i][1].consumer_id = <<>>
      BY <2>4, <2>6 DEF BytesShrinkOnlyByHeaders
    <3> QED BY Zenon, <2>4 DEF BytesShrinkOnlyByHeaders
  <2> QED BY Zenon, <2>3, <2>5
<1>3. CASE \E info : Intermediate(info)
  <2>1. PICK info : Intermediate(info)
    BY Zenon, <1>3
  <2>2. \A name \in ByteNames : /\ BytesOf(info)[name] \in Nat /\ BytesSoFar[name] \in Nat
                                /\ BytesSoFar[name] > 0 => BytesOf(info)[name] > 0
                                /\ Removed(name)' \in Nat
                                /\ BytesOf(info)[name] + Removed(name)' >= BytesSoFar[name]
                                /\ BytesSoFar'[name] >= BytesOf(info)[name]
                                /\ BytesSoFar'[name] >= BytesSoFar[name]
                                /\ BytesSoFar'[name] \in Nat
    <3>1. /\ info.request_bytes = 1 + received' /\ received' >= received /\ received' \in Nat
          /\ info.response_bytes = sent + headerSize /\ sent' >= sent /\ sent' \in Nat
          /\ headerSize' = headerSize
      <4>1. /\ info.request_bytes = 1 + received' /\ info.response_bytes = sent + headerSize
            /\ received' \in {received, received + 1} /\ sent' \in {sent, sent + 1}
            /\ headerSize' = headerSize
        BY Zenon, <2>1 DEF Intermediate
      <4>2. received' >= received /\ received' \in Nat
        BY <1>1, <4>1
      <4>3. sent' >= sent /\ sent' \in Nat
        BY <1>1, <4>1
      <4> QED BY Zenon, <4>1, <4>2, <4>3
    <3>2. BytesOf(info).request_bytes = 1 + received' /\ BytesOf(info).response_bytes = sent + headerSize
      BY Zenon, <3>1 DEF BytesOf
    <3>3. /\ BytesSoFar.request_bytes = 1 + received /\ BytesSoFar.response_bytes = sent + headerSize
          /\ BytesSoFar'.request_bytes = 1 + received' /\ BytesSoFar'.response_bytes = sent' + headerSize'
      BY Zenon DEF BytesSoFar
    <3>4. \A name : Removed(name)' = 0
      BY Zenon, <2>1 DEF Intermediate, Removed
    <3> QED BY <1>1, <3>1, <3>2, <3>3, <3>4 DEF ByteNames
  <2> QED BY Zenon, <2>1, <2>2, SendBytes DEF Intermediate
<1>4. CASE \E info : Final(info)
  <2>1. PICK info : Final(info)
    BY Zenon, <1>4
  <2>2. \A name \in ByteNames : /\ BytesOf(info)[name] \in Nat /\ BytesSoFar[name] \in Nat
                                /\ BytesSoFar[name] > 0 => BytesOf(info)[name] > 0
                                /\ Removed(name)' \in Nat
                                /\ BytesOf(info)[name] + Removed(name)' >= BytesSoFar[name]
                                /\ BytesSoFar'[name] \in Nat
    <3>1. /\ info.request_bytes = 1 + received /\ received' = received
          /\ info.response_bytes \in Nat /\ info.response_bytes >= sent + finalSize'
          /\ sent' = sent /\ headerSize' = headerSize /\ phase' = "logged"
          /\ finalSize' \in Nat /\ (headerSize # 0 => finalSize' # 0)
      BY <2>1, SizesAssumption DEF Final, streamVars
    <3>2. /\ Removed("request_bytes")' = 0
          /\ Removed("response_bytes")' = IF headerSize > finalSize' THEN headerSize - finalSize' ELSE 0
      BY Zenon, <3>1 DEF Removed
    <3>3. /\ BytesOf(info).request_bytes = 1 + received
          /\ BytesOf(info).response_bytes = info.response_bytes
          /\ BytesSoFar.request_bytes = 1 + received /\ BytesSoFar.response_bytes = sent + headerSize
          /\ BytesSoFar'.request_bytes = 1 + received /\ BytesSoFar'.response_bytes = sent + headerSize
      BY Zenon, <3>1 DEF BytesOf, BytesSoFar
    <3> QED BY <1>1, <3>1, <3>2, <3>3 DEF ByteNames
  <2> QED BY Zenon, <2>1, <2>2, SendBytes DEF Final
<1> QED BY Zenon, <1>2, <1>3, <1>4, StepKinds

\* What the handler has asked for, and for which consumer.
AskedOK ==
  /\ phase = "idle" => asked = <<>>
  /\ phase = "calling" => "quota" \notin DOMAIN asked
  /\ "check" \in DOMAIN asked =>
       apiKey # "" /\ asked["check"][1].operation.consumer_id = <<"api_key", apiKey>>
  /\ "check" \in DOMAIN asked /\ "quota" \in DOMAIN asked =>
       asked["quota"].consumer_id = <<"api_key", apiKey>>

\* The consumer of the requests.
LEMMA ConsumerAsked ==
  ASSUME StreamOK, NEW key, key # ""
  PROVE /\ FillCheckRequest(CheckRequestInfo(key))[1].operation.consumer_id = <<"api_key", key>>
        /\ FillAllocateQuotaRequest(QuotaRequestInfo(key)).consumer_id = <<"api_key", key>>
<1>1. PICK info : info = CheckRequestInfo(key)
  BY Zenon
<1>2. PICK q : q = QuotaRequestInfo(key)
  BY Zenon
<1>3. info.operation_id = "uuid" /\ info.operation_name = rq.operation /\ info.api_key = key
  BY Zenon, <1>1 DEF CheckRequestInfo, OperationInfo, ++
<1>4. q.api_key = key
  BY Zenon, <1>2 DEF QuotaRequestInfo, OperationInfo, ++
<1>5. rq.operation # ""
  BY Zenon, NamesAssumption DEF StreamOK, rq
<1>6. PICK labels : labels = CallerLabels(info)
  BY Zenon
<1>7. FillCheckRequest(info)[1].operation.consumer_id = ConsumerOfKey(key)
  <2>1. OperationOf(info, labels, <<>>, {}).consumer_id = ConsumerOfKey(key)
    BY Zenon, <1>3 DEF OperationOf
  <2>2. PICK op : op = OperationOf(info, labels, <<>>, {})
    BY Zenon
  <2>3. FillCheckRequest(info)[1].operation = op
    BY Zenon, <1>3, <1>5, <1>6, <2>2 DEF FillCheckRequest
  <2> QED BY Zenon, <2>1, <2>2, <2>3
<1>8. FillAllocateQuotaRequest(q).consumer_id = ConsumerOfKey(key)
  BY Zenon, <1>4 DEF FillAllocateQuotaRequest
<1> QED BY Zenon, <1>1, <1>2, <1>7, <1>8 DEF ConsumerOfKey, OnlyIf

\* Both outcomes of CallQuota.
LEMMA CallQuotaAsked ==
  ASSUME StreamOK, NEW key, NEW before, CallQuota(key, before), "quota" \notin DOMAIN before,
         key # "" \/ "check" \notin DOMAIN before
  PROVE /\ DOMAIN asked' \subseteq DOMAIN before \cup {"quota"}
        /\ "check" \in DOMAIN before => asked'["check"] = before["check"]
        /\ "check" \in DOMAIN before /\ "quota" \in DOMAIN asked' => asked'["quota"].consumer_id = <<"api_key", key>>
<1>1. CASE asked' = before
  BY Zenon, <1>1
<1>2. CASE asked' = before ++ [quota |-> FillAllocateQuotaRequest(QuotaRequestInfo(key))]
  <2>1. PICK q : q = FillAllocateQuotaRequest(QuotaRequestInfo(key))
    BY Zenon
  <2>2. key # "" => q.consumer_id = <<"api_key", key>>
    BY Zenon, <2>1, ConsumerAsked
  <2>3. asked' = before ++ [quota |-> q]
    BY Zenon, <1>2, <2>1
  <2>4. /\ DOMAIN asked' = DOMAIN before \cup {"quota"}
        /\ asked'["quota"] = q
        /\ "check" \in DOMAIN before => asked'["check"] = before["check"]
    BY Zenon, <2>3 DEF ++
  <2> QED BY Zenon, <2>2, <2>4
<1> QED BY Zenon, <1>1, <1>2 DEF CallQuota

\* All steps ask for the consumer of the key that was checked.
LEMMA NextAsked ==
  ASSUME StreamOK, AskedOK, [Next]_vars
  PROVE /\ AskedOK'
        /\ "check" \in DOMAIN asked /\ "quota" \in DOMAIN asked' =>
             asked'["quota"].consumer_id = asked["check"][1].operation.consumer_id
<1>1. CASE DecodeHeaders
  <2>1. PICK key : key = ExtractAPIKey
    BY Zenon
  <2>2. phase = "idle" /\ asked = <<>> /\ DOMAIN asked = {} /\ apiKey' = key
    <3>1. phase = "idle" /\ asked = <<>> /\ apiKey' = key
      BY Zenon, <1>1, <2>1 DEF DecodeHeaders, AskedOK
    <3>2. DOMAIN <<>> = {}
      OBVIOUS
    <3> QED BY Zenon, <3>1, <3>2
  <2>3. CASE CallQuota(key, asked)
    <3>1. phase' \in {"passed", "rejected"}
      BY Zenon, <2>3, CallQuotaOutcome
    <3>2. DOMAIN asked' \subseteq {"quota"}
      BY Zenon, <2>2, <2>3, CallQuotaAsked
    <3> QED BY Zenon, <2>2, <3>1, <3>2 DEF AskedOK
  <2>4. CASE phase' = "rejected" /\ UNCHANGED asked
    BY Zenon, <2>2, <2>4 DEF AskedOK
  <2>5. CASE /\ key # "" /\ phase' = "calling"
             /\ asked' = asked ++ [check |-> FillCheckRequest(CheckRequestInfo(key))]
    <3>1. PICK c : c = FillCheckRequest(CheckRequestInfo(key))
      BY Zenon
    <3>2. c[1].operation.consumer_id = <<"api_key", key>>
      BY Zenon, <2>5, <3>1, ConsumerAsked
    <3>3. asked' = asked ++ [check |-> c]
      BY Zenon, <2>5, <3>1
    <3>4. DOMAIN asked' = {"check"} /\ asked'["check"] = c
      BY Zenon, <2>2, <3>3 DEF ++
    <3> QED BY Zenon, <2>2, <2>5, <3>2, <3>4 DEF AskedOK
  <2> QED BY Zenon, <1>1, <2>1, <2>3, <2>4, <2>5 DEF DecodeHeaders
<1>2. CASE OnCheckResponse
  <2>1. phase = "calling" /\ "quota" \notin DOMAIN asked /\ apiKey' = apiKey
    BY Zenon, <1>2 DEF OnCheckResponse, AskedOK
  <2>2. PICK key, before : key = apiKey /\ before = asked
    BY Zenon
  <2>3. CASE CallQuota(key, before)
    <3>1. phase' \in {"passed", "rejected"}
      BY Zenon, <2>3, CallQuotaOutcome
    <3>2. "check" \in DOMAIN before => key # "" /\ before["check"][1].operation.consumer_id = <<"api_key", key>>
      BY Zenon, <2>2 DEF AskedOK
    <3>3. /\ DOMAIN asked' \subseteq DOMAIN before \cup {"quota"}
          /\ "check" \in DOMAIN before => asked'["check"] = before["check"]
          /\ "check" \in DOMAIN before /\ "quota" \in DOMAIN asked' => asked'["quota"].consumer_id = <<"api_key", key>>
      BY Zenon, <2>1, <2>2, <2>3, <3>2, CallQuotaAsked
    <3> QED BY Zenon, <2>1, <2>2, <3>1, <3>2, <3>3 DEF AskedOK
  <2>4. CASE phase' = "rejected" /\ UNCHANGED asked
    BY Zenon, <2>1, <2>4 DEF AskedOK
  <2> QED BY Zenon, <1>2, <2>2, <2>3, <2>4 DEF OnCheckResponse
<1>3. CASE UNCHANGED checkVars /\ (phase' = phase \/ phase' = "logged")
  BY Zenon, <1>3 DEF checkVars, AskedOK
<1>4. CASE \/ DecodeData \/ EncodeHeaders \/ EncodeData \/ UpstreamTx \/ UpstreamRx \/ Log \/ Tick
           \/ UNCHANGED vars
  <2>1. UNCHANGED checkVars /\ (phase' = phase \/ phase' = "logged")
    BY Zenon, <1>4 DEF DecodeData, EncodeHeaders, EncodeData, UpstreamTx, UpstreamRx, Log, Tick, vars
  <2> QED BY Zenon, <1>3, <2>1
<1> QED BY Zenon, <1>1, <1>2, <1>4 DEF Next, Over

\* A report names the consumer of the key, or none.
LEMMA ReportNamesConsumer ==
  ASSUME StreamOK, LengthOK, NEW info, Sends(info)
  PROVE \A j \in 1..Len(LastReport') :
          IF checkInfo.is_api_key_valid /\ checkInfo.service_is_activated /\ apiKey # ""
          THEN LastReport'[j].consumer_id = <<"api_key", apiKey>>
          ELSE NamesNoConsumer(LastReport'[j])
<1>1. PICK S : reports \in Seq(S)
  BY Zenon DEF LengthOK
<1>2. PICK b : b = builder
  BY Zenon
<1>3. PICK r : r = FillReportRequest(b, info)
  BY Zenon
<1>4. LastReport' = r
  <2>1. reports' = Append(reports, r)
    BY Zenon, <1>2, <1>3 DEF Sends
  <2>2. reports'[Len(reports')] = r
    BY Zenon, <1>1, <2>1, AppendReport
  <2> QED BY Zenon, <2>2 DEF LastReport
<1>5. b.metrics \subseteq supported_metrics
  BY Zenon, <1>2, BuildersOK DEF StreamOK, builder
<1>6. info.api_key = ReportKey
  BY Zenon DEF Sends, Knows
<1>7. SUFFICES ASSUME NEW j \in 1..Len(r)
               PROVE IF checkInfo.is_api_key_valid /\ checkInfo.service_is_activated /\ apiKey # ""
                     THEN r[j].consumer_id = <<"api_key", apiKey>>
                     ELSE NamesNoConsumer(r[j])
  BY Zenon, <1>4
<1>8. r[j] = MainOperation(b, info) \/ r[j] = ByConsumerOperation(b, info)
  BY Zenon, <1>3, Operations
<1>9. CASE checkInfo.is_api_key_valid /\ checkInfo.service_is_activated /\ apiKey # ""
  <2>1. info.api_key = apiKey /\ info.api_key # ""
    BY Zenon, <1>6, <1>9 DEF ReportKey
  <2>2. r[j].consumer_id = ConsumerOfKey(info.api_key)
    BY Zenon, <1>8, ConsumerOfOperations
  <2>3. ConsumerOfKey(info.api_key) = <<"api_key", apiKey>>
    BY Zenon, <2>1 DEF ConsumerOfKey, OnlyIf
  <2> QED BY Zenon, <1>9, <2>2, <2>3
<1>10. CASE ~(checkInfo.is_api_key_valid /\ checkInfo.service_is_activated /\ apiKey # "")
  <2>1. info.api_key = ""
    BY Zenon, <1>6, <1>10 DEF ReportKey
  <2>2. NamesNoConsumer(MainOperation(b, info)) /\ NamesNoConsumer(ByConsumerOperation(b, info))
    BY Zenon, <1>5, <2>1, NoKeyNoConsumer
  <2> QED BY Zenon, <1>8, <1>10, <2>2
<1> QED BY Zenon, <1>9, <1>10

-----------------------------------------------------------------------------
(* The theorems *)

\* The invariant.
StreamInv ==
  /\ StreamOK /\ LengthOK /\ CountOK /\ LatenciesAddUp /\ BytesOK /\ BytesShrinkOnlyByHeaders /\ AskedOK

\* It holds of a new stream,
LEMMA InitInv == Init => StreamInv
<1> SUFFICES ASSUME Init PROVE StreamInv
  BY Zenon
<1>1. reports = <<>> /\ phase = "idle" /\ asked = <<>> /\ isFirst = TRUE /\ lastReported = 0
  BY Zenon DEF Init
<1>2. reports \in Seq({}) /\ Len(reports) = 0 /\ 1..Len(reports) = {} /\ DOMAIN reports = {}
  BY <1>1
<1>3. DOMAIN asked = {}
  BY <1>1
<1>4. LengthOK
  <2>1. Len(reports) * Interval <= lastReported
    BY <1>1, <1>2, IntervalNat
  <2> QED BY Zenon, <1>1, <1>2, <2>1 DEF LengthOK
<1>5. CountOK
  BY Zenon, <1>1, <1>2 DEF CountOK
<1>6. LatenciesAddUp
  <2>1. phase # "logged"
    BY Zenon, <1>1
  <2> QED BY <2>1 DEF LatenciesAddUp
<1>7. BytesOK /\ BytesShrinkOnlyByHeaders
  BY Zenon, <1>2 DEF BytesOK, BytesShrinkOnlyByHeaders
<1>8. AskedOK
  BY Zenon, <1>1, <1>3 DEF AskedOK
<1> QED BY Zenon, <1>4, <1>5, <1>6, <1>7, <1>8, InitStream DEF StreamInv

\* every step keeps it,
LEMMA NextInv == StreamInv /\ [Next]_vars => StreamInv'
<1> SUFFICES ASSUME StreamInv, [Next]_vars PROVE StreamInv'
  BY Zenon
<1>1. StreamOK /\ LengthOK /\ CountOK /\ LatenciesAddUp /\ BytesOK /\ BytesShrinkOnlyByHeaders /\ AskedOK
  BY Zenon DEF StreamInv
<1>2. StreamOK' /\ LengthOK'
  BY Zenon, <1>1, NextStream, NextLength
<1>3. CountOK' /\ LatenciesAddUp'
  BY Zenon, <1>1, NextCount, NextLatencies
<1>4. BytesOK' /\ BytesShrinkOnlyByHeaders' /\ AskedOK'
  BY Zenon, <1>1, NextBytes, NextAsked
<1> QED BY Zenon, <1>2, <1>3, <1>4 DEF StreamInv

\* and so it always holds.
LEMMA InvAlways == Spec => []StreamInv
BY InitInv, NextInv, PTL DEF Spec

\* Every stream is well typed, and the interval bounds its reports: however many frames
\* it has, it sends at most one report per interval and the final one.
THEOREM TypeCorrect == Spec => []TypeOK
<1>1. StreamInv => TypeOK
  <2> SUFFICES ASSUME StreamOK, LengthOK PROVE TypeOK
    BY Zenon DEF StreamInv
  <2>1. PICK S : reports \in Seq(S)
    BY Zenon DEF LengthOK
  <2>2. Len(reports) \in Nat /\ clock \in 0..MaxTime /\ lastReported \in 0..clock /\ MaxTime \in Nat
    BY <2>1, TimesAssumption DEF StreamOK, Times
  <2>3. Interval \in Nat \ {0} /\ Interval = MinInterval * TicksPerMs
    BY Zenon, IntervalNat DEF Interval
  <2>4. Len(reports) <= 1 + MaxTime \div Interval
    <3>1. PICK n, k \in Nat : n = Len(reports) /\ k = MaxTime \div Interval
      BY Zenon, <2>2, <2>3, Division
    <3>2. ASSUME NEW j \in Nat, j * Interval <= lastReported PROVE j <= k
      <4>1. j * Interval <= MaxTime
        BY <2>2, <2>3, <3>2
      <4> QED BY Zenon, <2>2, <2>3, <3>1, <4>1, Division
    <3>3. CASE phase # "logged"
      BY <3>1, <3>2, <3>3 DEF LengthOK
    <3>4. CASE phase = "logged"
      <4>1. (n - 1) * Interval <= lastReported /\ reports # <<>>
        BY Zenon, <3>1, <3>4 DEF LengthOK
      <4>2. n - 1 \in Nat
        BY <2>1, <3>1, <4>1
      <4> QED BY <3>1, <3>2, <4>1, <4>2
    <3> QED BY Zenon, <3>3, <3>4
  <2>5. builder.metrics \subseteq supported_metrics /\ builder.labels \subseteq UserLabels \cup SystemLabels
    BY Zenon, BuildersOK DEF StreamOK, builder
  <2>6. lastReported \in Times /\ tx \in Times \cup {Unset} /\ rx \in Times \cup {Unset}
    BY <2>2 DEF StreamOK, Times, Unset
  <2> QED BY Zenon, <2>3, <2>4, <2>5, <2>6 DEF StreamOK, TypeOK
<1> QED BY <1>1, InvAlways, PTL

\* Of all reports of a stream, one counts the request for each party, and one does if the
\* party is known: the first for the producer and the consumer, the last for the producer
\* by consumer.
THEOREM CountedOnce == Spec => []RequestCountedOnce
<1>1. StreamInv => RequestCountedOnce
  <2> SUFFICES ASSUME LengthOK, CountOK, phase = "logged" PROVE RequestCountedOnce
    BY Zenon DEF StreamInv, RequestCountedOnce
  <2>1. PICK S : reports \in Seq(S)
    BY Zenon DEF LengthOK
  <2>2. DOMAIN reports = 1..Len(reports) /\ Len(reports) \in Nat
    BY <2>1
  <2>3. reports # <<>> /\ 1 \in DOMAIN reports /\ Len(reports) \in DOMAIN reports
    <3>1. reports # <<>>
      BY Zenon DEF LengthOK
    <3> QED BY <2>1, <3>1
  <2>4. ASSUME NEW mark \in EachParty, NEW i \in Told(mark, "request_count"),
               NEW j \in Told(mark, "request_count")
        PROVE i = j
    <3>1. ASSUME NEW k \in Told(mark, "request_count")
          PROVE \/ k = 1 /\ mark # "PRODUCER_BY_CONSUMER"
                \/ k = Len(reports) /\ mark = "PRODUCER_BY_CONSUMER"
      <4>1. k \in 1..Len(reports) /\ Values(reports[k], mark, "request_count") # {}
        BY Zenon, <2>2 DEF Told
      <4> QED BY Zenon, <4>1 DEF CountOK
    <3> QED BY Zenon, <3>1
  <2>5. ASSUME NEW m \in builder.metrics, m \in RequestCountMetrics
        PROVE \/ Told(m.mark, m.name) # {}
              \/ m.mark = "PRODUCER_BY_CONSUMER" /\ checkInfo.consumer_project_id = ""
              \/ m.mark = "CONSUMER" /\ ReportKey = ""
    <3>1. m.name = "request_count"
      BY Zenon, <2>5 DEF RequestCountMetrics, Metrics
    <3>2. \/ Values(reports[1], m.mark, m.name) # {}
          \/ Values(reports[Len(reports)], m.mark, m.name) # {}
          \/ m.mark = "PRODUCER_BY_CONSUMER" /\ checkInfo.consumer_project_id = ""
          \/ m.mark = "CONSUMER" /\ ReportKey = ""
      BY Zenon, <2>3, <2>5, <3>1 DEF CountOK
    <3> QED BY Zenon, <2>3, <3>2 DEF Told
  <2> QED BY Zenon, <2>4, <2>5 DEF RequestCountedOnce
<1> QED BY <1>1, InvAlways, PTL

\* The latencies of the final report fit together, whatever the router and the clock did.
THEOREM LatenciesFit == Spec => []LatenciesAddUp
<1>1. StreamInv => LatenciesAddUp
  BY Zenon DEF StreamInv
<1> QED BY <1>1, InvAlways, PTL

\* The byte counters that service control is told never go back, except by what other
\* filters took from the response headers after processResponseHeaders measured them.
THEOREM BytesGrow == Spec => []BytesShrinkOnlyByHeaders
<1>1. StreamInv => BytesShrinkOnlyByHeaders
  BY Zenon DEF StreamInv
<1> QED BY <1>1, InvAlways, PTL

\* Check, quota and reports name one consumer, or none once the key is known to be bad.
THEOREM OneConsumerPays == Spec => OneConsumer
<1>1. ASSUME StreamInv, [Next]_vars
      PROVE /\ "check" \in DOMAIN asked /\ "quota" \in DOMAIN asked' =>
                 asked'["quota"].consumer_id = asked["check"][1].operation.consumer_id
            /\ reports' # reports =>
                 \A j \in 1..Len(LastReport') :
                   IF checkInfo.is_api_key_valid /\ checkInfo.service_is_activated /\ apiKey # ""
                   THEN LastReport'[j].consumer_id = <<"api_key", apiKey>>
                   ELSE NamesNoConsumer(LastReport'[j])
  <2>1. StreamOK /\ LengthOK /\ AskedOK
    BY Zenon, <1>1 DEF StreamInv
  <2>2. reports' # reports => \E info : Sends(info)
    BY Zenon, <1>1, <2>1, StepKinds DEF Silent, Intermediate, Final
  <2> QED BY Zenon, <1>1, <2>1, <2>2, NextAsked, ReportNamesConsumer
<1> QED BY <1>1, InvAlways, PTL DEF Spec, OneConsumer

\* What the loader makes of any service config hangs together: metrics and logs have all of
\* their labels, and no label is left from one that was skipped.
THEOREM LoaderJustifies == Spec => []LoadedIsJustified
<1>1. StreamInv => LoadedIsJustified
  <2> SUFFICES ASSUME StreamOK PROVE LoadedIsJustified
    BY Zenon DEF StreamInv
  <2>1. service \in DOMAIN Services
    BY Zenon DEF StreamOK
  <2>2. ASSUME NEW i \in DOMAIN Services[service] PROVE IsService(Services[service][i])
    BY Zenon, <2>1, ServicesAssumption
  <2>3. ASSUME NEW s, IsService(s)
        PROVE LET loaded == Load(s)
                  metrics == {s.metrics[First(FindMetricDescriptor(s, name))] : name \in loaded.metrics}
                  logs == {s.logs[First(FindLogDescriptor(s, name))] : name \in loaded.logs}
                  keys == {l.key : l \in loaded.labels}
              IN /\ \A d \in metrics \cup logs : \A l \in d.labels : IsLabelSupported(l) => l.key \in keys
                 /\ \A l \in loaded.labels :
                      \/ \E d \in metrics \cup logs : l \in d.labels
                      \/ \E i \in DOMAIN s.monitored_resources : l \in s.monitored_resources[i].labels
    <3>1. PICK loaded : loaded = Load(s)
      BY Zenon
    <3>2. Justified(s, loaded)
      BY Zenon, <2>3, <3>1, LoadJustified
    <3> DEFINE metrics == {s.metrics[First(FindMetricDescriptor(s, name))] : name \in loaded.metrics}
               logs == {s.logs[First(FindLogDescriptor(s, name))] : name \in loaded.logs}
               keys == {l.key : l \in loaded.labels}
    <3>3. ASSUME NEW d \in metrics \cup logs, NEW l \in d.labels, IsLabelSupported(l)
          PROVE l.key \in keys
      BY Zenon, <3>2, <3>3 DEF Justified, LogLabels, MetricLabels
    <3>4. ASSUME NEW l \in loaded.labels
          PROVE \/ \E d \in metrics \cup logs : l \in d.labels
                \/ \E i \in DOMAIN s.monitored_resources : l \in s.monitored_resources[i].labels
      BY Zenon, <3>2 DEF Justified, LogLabels, MetricLabels
    <3> QED BY Zenon, <3>1, <3>3, <3>4
  <2> QED BY Zenon, <2>2, <2>3 DEF LoadedIsJustified
<1> QED BY <1>1, InvAlways, PTL

=============================================================================
