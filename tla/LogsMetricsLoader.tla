------------------------- MODULE LogsMetricsLoader -------------------------
(***************************************************************************)
(* Which logs, metrics and labels of a service config are reported.  The   *)
(* loader walks through the destinations in order; what does not fit is    *)
(* skipped.  A service config is a record                                  *)
(*   monitored_resources  a sequence of [type, labels],                    *)
(*   logs                 a sequence of [name, labels],                    *)
(*   metrics              a sequence of metric descriptors                 *)
(*                        [name, mark, metric_kind, value_type, labels],   *)
(*   logging, producer_destinations, consumer_destinations                 *)
(*                        sequences of [monitored_resource, names].        *)
(* The labels of a descriptor are a set of [key, value_type].  What has    *)
(* been loaded is a record [logs, metrics, labels].                        *)
(***************************************************************************)
EXTENDS RequestBuilder

Nothing == [logs |-> {}, metrics |-> {}, labels |-> {}]

MetricName(metric) == [name |-> metric.name, mark |-> metric.mark]

\* A descriptor has a label that was loaded with another type.
Conflicts(descriptors, labels) ==
  \E d \in descriptors, l \in labels : l.key = d.key /\ l.value_type # d.value_type

\* The status of adding labels, and what is loaded then.
Added(ok, loaded) == [ok |-> ok, loaded |-> loaded]

\* What inserting the supported labels makes of the labels. A label with a key
\* already there stays as it is.
Insert(descriptors, loaded) ==
  [loaded EXCEPT !.labels =
     @ \cup {d \in descriptors : IsLabelSupported(d) /\ \A l \in @ : l.key # d.key}]

\* Mutant of AddLabels: labels are inserted before they are validated.
AddLabelsAtOnce(descriptors, loaded) ==
  Added(~Conflicts(descriptors, loaded.labels), Insert(descriptors, loaded))

\* AddLabels: all labels are validated before any is inserted.
AddLabels(descriptors, loaded) ==
  IF Conflicts(descriptors, loaded.labels) THEN Added(FALSE, loaded)
  ELSE Added(TRUE, Insert(descriptors, loaded))

\* The first of some places in a sequence.
First(places) == CHOOSE i \in places : \A j \in places : i <= j

\* The labels of the first descriptor found, if there is one.
AddLabelsOfFirst(descriptors, found, loaded) ==
  IF found = {} THEN Added(FALSE, loaded) ELSE AddLabels(descriptors[First(found)].labels, loaded)

FindLogDescriptor(service, name) == {i \in DOMAIN service.logs : service.logs[i].name = name}

\* AddLogLabels, and the log if that went well.
AddLog(service, loaded, name) ==
  LET added == AddLabelsOfFirst(service.logs, FindLogDescriptor(service, name), loaded)
  IN IF added.ok THEN [added.loaded EXCEPT !.logs = @ \cup {name}] ELSE added.loaded

FindMetricDescriptor(service, name) ==
  {i \in DOMAIN service.metrics : MetricName(service.metrics[i]) = name}

\* The labels of a metric that is found and supported, and the metric if that
\* went well.
AddMetric(service, loaded, name) ==
  LET found == FindMetricDescriptor(service, name)
      added == AddLabelsOfFirst(service.metrics, found, loaded)
  IN IF found = {} \/ ~IsMetricSupported(service.metrics[First(found)]) THEN loaded
     ELSE IF added.ok THEN [added.loaded EXCEPT !.metrics = @ \cup {name}]
     ELSE added.loaded

\* AddMonitoredResourceLabels
AddMonitoredResourceLabels(service, loaded, type) ==
  AddLabelsOfFirst(service.monitored_resources,
                   {i \in DOMAIN service.monitored_resources :
                      service.monitored_resources[i].type = type},
                   loaded)

\* The logs or the metrics of a destination, one after the other.
AddNames(service, kind, before, names) ==
  LET loaded[n \in 0..Len(names)] ==
        IF n = 0 THEN before
        ELSE IF kind = "logs" THEN AddLog(service, loaded[n - 1], names[n])
        ELSE AddMetric(service, loaded[n - 1], names[n])
  IN loaded[Len(names)]

\* A destination adds the labels of its monitored resource, then its logs or metrics.
\* It is skipped if the resource is missing or conflicts.
AddDestination(service, kind, before, destination) ==
  LET added == AddMonitoredResourceLabels(service, before, destination.monitored_resource)
  IN IF added.ok THEN AddNames(service, kind, added.loaded, destination.names) ELSE added.loaded

\* AddLoggingDestinations and AddMonitoringDestinations.
AddDestinations(service, kind, before, destinations) ==
  LET loaded[n \in 0..Len(destinations)] ==
        IF n = 0 THEN before ELSE AddDestination(service, kind, loaded[n - 1], destinations[n])
  IN loaded[Len(destinations)]

\* LoadLogsMetrics
Load(service) ==
  LET logged == AddDestinations(service, "logs", Nothing, service.logging)
      produced == AddDestinations(service, "metrics", logged, service.producer_destinations)
  IN AddDestinations(service, "metrics", produced, service.consumer_destinations)

\* The builder of a service config.
BuilderOf(service) ==
  LET loaded == Load(service)
  IN RequestBuilderOf(loaded.logs, loaded.metrics, {l.key : l \in loaded.labels})

=============================================================================
