-------------------------- MODULE MCStreamReports --------------------------
(***************************************************************************)
(* StreamReports for TLC: requests with and without a key, and service     *)
(* configs that report everything, conflict in a label, or name things     *)
(* that do not exist.                                                      *)
(***************************************************************************)
EXTENDS StreamReports, TLC

Label(key) == [key |-> key, value_type |-> "STRING"]
Mistyped(key) == [key |-> key, value_type |-> "INT64"]

Descriptor(name, mark, kind, type, labels) ==
  [name |-> name, mark |-> mark, metric_kind |-> kind, value_type |-> type, labels |-> labels]

Count(mark) == [name |-> "request_count", mark |-> mark]

\* The labels of a metric and of a log conflict with those loaded before them;
\* each also has a label of its own. One metric is of a kind not supported.
Conflicting ==
  [monitored_resources |->
     <<[type |-> "api", labels |-> {Label("location"), Label("api_method")}],
       [type |-> "bad", labels |-> {Mistyped("location"), Label("api_version")}]>>,
   logs |-> <<[name |-> "endpoints_log", labels |-> {Label("referer")}],
              [name |-> "other_log", labels |-> {Label("status_code"), Mistyped("api_method")}]>>,
   metrics |->
     <<Descriptor("request_count", "PRODUCER", "DELTA", "INT64",
                  {Label("protocol"), Label("end_user"), Label("unknown")}),
       Descriptor("request_count", "CONSUMER", "DELTA", "INT64",
                  {Label("credential_id"), Mistyped("referer")}),
       Descriptor("error_count", "PRODUCER", "GAUGE", "INT64", {Label("error_type")}),
       Descriptor("request_bytes", "CONSUMER", "DELTA", "INT64", {Label("response_code")})>>,
   logging |-> <<[monitored_resource |-> "api",
                  names |-> <<"endpoints_log", "other_log", "missing_log">>]>>,
   producer_destinations |->
     <<[monitored_resource |-> "bad", names |-> <<Count("CONSUMER")>>],
       [monitored_resource |-> "missing", names |-> <<Count("CONSUMER")>>],
       [monitored_resource |-> "api",
        names |-> <<Count("PRODUCER"), [name |-> "error_count", mark |-> "PRODUCER"]>>]>>,
   consumer_destinations |->
     <<[monitored_resource |-> "api",
        names |-> <<Count("CONSUMER"), Count("PRODUCER_BY_CONSUMER"),
                    [name |-> "request_bytes", mark |-> "CONSUMER"]>>]>>]

\* The same without logs: the metric no longer conflicts.
Unlogged == [Conflicting EXCEPT !.logging = <<>>]

MCServices == [none |-> <<>>, conflicting |-> <<Conflicting>>, unlogged |-> <<Unlogged>>]

Request(locations, at, check, costs, grpc) ==
  [operation |-> "op", locations |-> locations, at |-> at, check |-> check, costs |-> costs,
   grpc |-> grpc, backend |-> "grpc", referer |-> "ref", issuer |-> "iss", audience |-> "aud"]

MCRequests ==
  [header |->
     Request(<<>>, (<<"header", "x-api-key">> :> "k" @@ <<"query", "other">> :> "o"),
             TRUE, [cost |-> 0], TRUE),
   emptyQuery |->
     Request(<<>>, (<<"query", "key">> :> "" @@ <<"header", "x-api-key">> :> "k"),
             TRUE, <<>>, TRUE),
   cookie |->
     Request(<<<<"cookie", "c1">>, <<"cookie", "c2">>>>,
             (<<"cookie", "c1">> :> "" @@ <<"cookie", "c2">> :> "k"), FALSE, [cost |-> 2], FALSE),
   keyless |-> Request(<<>>, <<>>, FALSE, <<>>, FALSE)]

=============================================================================
