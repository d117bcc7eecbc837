# A TLA+ development of ESPv2

ESPv2 is an API proxy: an Envoy with its own C++ filters (path matcher, service
control, backend auth, backend routing) and a Go control plane that turns a
Google service config into Envoy configuration. This directory holds TLA+
modules translated from that source, TLC runs that check them on small
instances, and TLAPS proofs of the results that hold for every size.
`PROJECT.json` maps each definition to the source lines it models.

## 1. The system and what can go wrong in it

| Part | State | Operations | What is hard |
|---|---|---|---|
| `HttpCallImpl`, `HttpCallFactory` (`http_call.cc`) | per call: `request_`, `retries_`, `request_count_`, `cancelled`; per factory: `active_calls_`, `destruct_mode_` | `createHttpCall`, `call`, `onSuccess`, `onFailure`, `cancel`, the destructor | callbacks inside `send()`, retries inside callbacks, cancellation of an attempt that is being replaced, objects that delete themselves |
| Service control filter and handler (`filter.cc`, `handler_impl.cc`) | `state_`, `stopped_`, `handler_`, `require_ctx_`, `cancel_fn_`, `check_status_`, first and last report | the filter callbacks, `callCheck`, `callQuota`, `callReport`, `tryIntermediateReport`, `onDestroy` | a check that answers inside the call, later, or through cancellation; other filters' replies; data while waiting; null handler |
| `ClientCache` (`client_cache.cc`) | three factories, the client library with its held-back reports and timer | `callCheck`, `callQuota`, `callReport`, destruction | order of destruction, `network_fail_open` |
| Service control call (`service_control_call_impl.cc`) | per worker thread: two tokens and a `ClientCache`, in a thread-local slot; on the main thread: the token sources | `callCheck`, `callQuota`, `callReport`, token updates, removal of the slot | tokens and the start of the listener reach the threads by separate posts; calls and reports outlive the filter config |
| Token subscribers (`token_subscriber.cc`) | active request, refresh timer, init target | `refresh`, `onSuccess`, `onFailure`, destructor | every path must leave a request or a timer; start-up waits for it |
| Path matcher (`src/api_proxy/path_matcher`) | trie of path nodes | `Register`, `Lookup`, template parser, variable bindings | priority and backtracking, duplicates, custom verbs |
| Path matcher, backend auth, backend routing filters | filter state of the stream | `decodeHeaders` | agreement with the routes the control plane generates |
| `RequestBuilder` (`request_builder.cc`) | none | fill and convert requests and answers | first, intermediate and final metrics of a stream; the consumer each of them names |
| Logs and metrics loader (`logs_metrics_loader.cc`) | the sets being loaded | `Load` | a destination that fails half way |
| Config manager (`src/go/configmanager`) | current rollout and config ids, snapshot cache | start, tick of the rollout loop | failures between the steps of an update, rollouts that change meanwhile |
| Service info, config generator (`src/go/configinfo`, `configgenerator`) | the tables built from one service config | one pass at each update | precedence of rules, order of routes, CORS methods |
| Metadata fetcher (`src/go/metadata`) | cached token and its expiry | `FetchAccessToken`, ... | expiry, concurrent callers |
| GCS runner (`src/go/gcsrunner`) | the Envoy process, signals, timeout | fetch, transform, start, terminate | signals racing the exit of Envoy |
| Start scripts, flags, bootstrap | none | | pure configuration |

The request path composes them: the path matcher filter names the operation; the
service control filter looks up its requirement, asks for a check through
`ClientCache`, which makes an `HttpCall` with the worker's current token; the
answer lets the request go on to backend auth and routing; the end of the stream
reports it. The control plane replaces the whole configuration through the
snapshot cache.

## 2. Plan

Done: the calls (`HttpCall`, with the contract they implement), one stream
through the service control filter (`ServiceControlFilter`), what is reported of
it (`StreamReports`), the threads with their tokens and client caches
(`ServiceControlCall`), the token refresh loops (`TokenSubscriber`), the path
matcher (`PathMatcher`) and the filters that use it (`RequestFilters`), the
rollout loop (`ConfigManager`); proofs of the safety of all eight (section 5).

Next, if the development is continued: service info as a pure function of the
service config, and its tables as the input of `RequestFilters`.

## 3. Modules

### CallContract and HttpCall

`CallContract` is what the owner of a call relies on: a call is asked for, waits,
and is answered once; closing answers what waits. `HttpCall` is the code: one
action per callback of the AsyncClient (`OnAnswer`), per operation of the owner
(`Call`, `Cancel`), the destructor (`DestroyFactory`) and the publication of a
token (`SetToken`). All handlers run on one thread, so an action is a whole
handler with the retries made inside it. `MakeOneCall` has one disjunct per way
it can end: no token, `k` attempts fail inside `send()` and then one goes in
flight, or all fail. `object` is the life of the C++ object, `inflight` what the
AsyncClient (external) still holds.

### ServiceControlFilter

One stream, with the handler and the part of `ClientCache` it calls. Init ranges
over every kind of operation (requirement or none, `skip_service_control`,
`allow_without_api_key`, metric costs), request (API key, gRPC) and
`network_fail_open`. Each filter callback is an action with the whole of what it
calls: `DecodeHeaders` runs the check, which may decide at once; `CheckAnswered`
is the late answer; `OnDestroy` cancels, which runs the done function inside it;
`Log` sends the final report. `ReplyByOther` is a local reply of another filter,
possibly before this filter has seen the request. A frame of data may be empty
(`FrameLengths`), which reports nothing. The connection manager of
Envoy is external: a complete response is followed by the destruction of the
stream.

### ConfigManager

The Go process: `NewConfigManager` for each of the three ways to start, a tick of
the rollout loop (`CheckAnswered`, `CheckFails`) and `updateSnapshot`
(`UpdateSnapshot`, `UpdateSnapshotFails`). One goroutine does all of it, but the
Service Management server publishes rollouts between its calls, so the selection
of a config and its fetch are two actions. A rollout is its traffic percentages,
in thirds, so that a config can have most, some, half as much or no traffic.
`snapshotFrom` remembers from which rollout the snapshot was selected.

### TokenSubscriber

Subscribers on the main thread, each with its request (`deadline`), refresh timer
and the life left in its token. `Needs` chains the IAM subscriber to the
subscriber of the access token it sends. Time is in seconds and counts down.
`Refresh` is the whole of `refresh()`: the request goes out, or it cannot be
prepared or fails inside `send()`, which schedules a retry.

### PathMatcher

Templates, the trie and the search. A node of the trie is named by its keys from
the root; `wildcard_` is therefore a property of its last key. `ParseItem` is what
the parser does with a segment or a variable, `Parsed` its loop. `Register` has a
disjunct per result of the code: inserted, duplicate, invalid. `LookupPath` is the
recursive search, as a function of how many parts are left: for each of these
numbers it has the result of every node, so the recursion of the code over a
child and the rest of the path is a look into the result for one part less. The
reference (`Fits`, `Ranks`, `BestMatches`) says which template is most specific
without any trie: part by part a literal comes before `*` and `*` before `**`.
Of the templates that name the same node the first one stays (`FirstStays`, part of
`LookupFindsBest`): `Register` returns false for the others, and the tests of
`path_matcher_test.cc` expect that. The comment at `path_matcher.h:116`, that a
duplicate "replaces the existing method", is out of date; the model has the code.

Two limits of the code show in the module. `PostProcessVariables` counts the end of
a variable from the back only if it holds `**` itself. A variable over constants
behind a `**` (as in `/{x=**}/{y=b}`) keeps indices from the front and binds other
parts when `**` takes more than one; no doc or test says what it should bind, so
`BindingsAreMatchedParts` leaves the values of these variables open
(`BehindWildcard`). And `ParseVerb` takes `:*` and `:**` for a verb where the grammar
in `http_template.cc` has a literal; behind `**` the search would treat it as a
wildcard. `RulesAssumption` excludes that template.

### RequestBuilder, LogsMetricsLoader and StreamReports

The first two are pure: `RequestBuilder` has what a check, quota or report
request holds, metric by metric (`MetricsSent`, from the tables of supported
metrics with their tags START, INTERMEDIATE and FINAL) and label by label, and
what is read from the answers; `LogsMetricsLoader` has what `Load` selects from a
service config, with the labels that conflict and the names that do not exist.
Its two loops, over the destinations and over the names of one, are recursive
functions (`AddDestinations`, `AddNames`).
`StreamReports` runs one stream over them: loading the builder, the API key found
in the request, the check and the quota request, frames in both directions,
intermediate reports, the clock of the first and last byte, the final report.
It keeps everything that was sent, since its properties are about sums over the
reports of a stream. Where `ServiceControlFilter` has which call is made when,
this has what is in it. The response headers have one size in `encodeHeaders`, which
the intermediate reports count, and possibly another in `log`, after the other
filters (`HeaderSizes`); the final report counts that and the trailers.

### ServiceControlCall

The threads. The main thread fetches tokens (`Fetch`) and posts closures; each
worker runs its own in order (`RunPosted`): make the cache, set a token, start to
listen, remove the cache. `mode` is the way the filter config names to get a
token: one subscriber for both services, one generator per service, the IAM pair,
or none. On a worker `CallCheck`, `CallReport` and `TimerFires` are the calls of
`ClientCache` with the flush timer of the client library (external), `CallEnds`
and `CallRetries` the end of an attempt (the details are those of `HttpCall`).
`RemoveCache` begins the destructor and `DestroyMember` destroys one member at a
time, the last declared one first (`Members`): the client flushes what it holds
back, each factory cancels its calls, and the tokens of the object around the cache
go last. `members` counts those that are left. A worker does nothing else meanwhile;
the steps show what each member still finds when it is its turn.

An IAM token whose access token is not a remote one is refused by the constructor
with an exception. There is no filter then, so it is not a `mode`.

### RequestFilters

The path matcher, backend auth and backend routing filters with one worker. It
extends `PathMatcher`, whose trie is that of the path matcher's filter config. The
configs of the three filters are derived from the same methods, as the config
generator does (`ExtractPathParameters`, `RoutedOperations`, `Subscribers`).
`LoadRule` registers the rules one by one and may refuse one, and with it the
config; `BuildMatcher` is the end of the constructor, after which the listener
waits for its subscribers.
`PathMatcherDecodeHeaders` names the operation and extracts the parameters,
`BackendDecodeHeaders` is the other two filters. Between the two the service
control filter may hold the request back, so tokens arrive there.

`VariableBindingsToQueryParameters` joins names and values with `=` and `&` and
escapes nothing. A value may have a `&` in it, which is no separator in a path but
is one in a query. `Ampersands` says into which texts such a value falls apart;
a text that the filters did not begin with a name is a parameter with no name.
`BackendSeesParametersOnce` says that the backend gets each parameter of the path
once if all values are whole (`WholeValues`: none has a `&`, and no variable stands
behind a `**`), and what else it says of the request holds for all paths. No doc or
test says what other values should become.

## 4. Runs

* `http_call` checks two calls with two retries. Two calls are enough for
  the set `active_calls_` to have a member that the destructor or another
  callback must not disturb; two retries for a retry after a retry.
* `http_call_mixed` drops the assumption that inline failures are not mixed with
  attempts in flight: `cancel()` then leaves an attempt behind.
* `filter` checks one stream with two frames each way, a report interval of two
  ticks and four ticks: two intermediate reports and one that comes too early.
* `filter_destroy` and `filter_protocol` each refute one statement of the
  interfaces; see the findings in `PROJECT.json`.
* `config_manager` publishes up to three rollouts over two good configs and one
  from which nothing can be generated: enough to move to a bad config and back.
  Up to one fetch fails; `Converges` excuses it, and `config_manager_fetch_fails`
  shows that it must: one failed fetch and the new rollout is not served.
  A failed check of the rollouts clears the current ids, which makes the next tick
  fetch again; `AlwaysServing` holds through it.
* `token_subscriber` has the pair of an access token and the IAM token that needs
  it, with the request timeout, retry delay and buffer of the source, one expiry
  inside the buffer and one beyond it.
* `path_matcher` tries every sequence of three registrations out of fourteen
  rules whose templates overlap, and every request of a set that reaches
  backtracking from a literal, `*` and `**`, verbs and empty segments. Three are
  enough for a literal, a `*` and a `**` branch to compete.
  Empty segments inside a path are kept, and match `*`, as the code has it.
* `stream_reports` has four requests (key in a header, in a query that is empty,
  in the second of two cookies, none) and three builders: the default one, one
  loaded from a service config whose labels conflict and which names a missing
  log, resource and metric, and the same config without the log that causes the
  conflict. The headers have two sizes, so that they may shrink, stay or grow before
  the final report. One frame each way and four ticks, two to a millisecond, give an
  intermediate report before and after the check and rounded latencies.
* `service_control_call` has two workers, which is enough for one to be ahead of
  the other, two tokens of each source, so that a retry may carry a newer one,
  one report per worker and one retry of a check. `UsersGoFirst` relates what may
  still be used (calls by their factory, held-back reports and the timer by the
  client, which uses all other members) to the members that are left.
* `request_filters` has eight service configs, one without any method, two that
  are refused (a duplicate and an invalid template), with constant, appended and unchanged
  addresses, shared and separate audiences, and requests with and without a
  method override, with no query, an empty one and some parameters, on paths
  that match no template, one or two, some with a `&` in a part.

Fairness: `HttpCall` assumes that the AsyncClient answers each attempt (every
request carries a timeout); `ServiceControlFilter` assumes what `HttpCall`
shows, that a waiting check is answered. `ConfigManager` assumes that the ticker
ticks, that calls end, and that a server asked again and again sometimes answers
(strong fairness of `CheckAnswered`). `TokenSubscriber` assumes that time passes,
that timers fire, and the same of its servers. `ServiceControlCall` assumes that
dispatchers run what is posted, that destructors end, that timers fire, that calls end, and that each
source gets a first token, which is what `TokenSubscriber` shows. Nothing else is
assumed fair; `StreamReports`, `RequestFilters` and `PathMatcher` have safety
properties only.

## 5. Proofs

Everything below is proved for every value of the constants, under the named
assumptions of the modules only (bounds and times are natural numbers, repeated
fields are sequences and the like). Where a run checks the property, it does so on the instance of section 4.

**HttpCallProofs**: for any set of calls and any number of retries, the type
invariant, `AnsweredOnce`, `AttemptsConserved`, `ActiveCallsExact`,
`DestructorFinishesAll` and the safety part of the refinement of `CallContract`;
and, when inline failures are not mixed with attempts in flight,
`RequestTracksAttempt` and `NothingInFlightAfterDone`. The inductive invariant
adds that an object not yet created is fresh and that a live one was not
cancelled: without the first a call could start with answers, without the second
the destructor could skip a live call.

**ServiceControlFilterProofs**: for a stream of any length, the type invariant,
`DecidedOnce`, `CancelFnExact`, `NothingPassesUnchecked`, `NoNullDereference`,
`BadKeyNeverUsed` and `FirstAndFinalReport`. The invariant (`StateOK`,
`HandlerOK`) says for each value of `state_` what it implies of the check, the
cancel function, the handler, the decision and what went on; the properties are
not inductive one by one, because each callback relies on `state_` to know the
others. `KeyOK` adds that a key found unusable leaves the stream answered, so that
no quota call can follow; `ReportsOK` that `is_first_report_` says whether a
report was sent, and that only `log` sends the final one.

**ConfigManagerProofs**: for any configs, traffic and number of rollouts and
failures, the type invariant, `AlwaysServing`, `SnapshotHasMostTraffic` and
`NeverBackwards`. The selection and the fetch of a config are two steps, so the
invariant carries the selection between them: `SelectionSound` (the selected
config has most traffic of its rollout), `SnapshotBehind` (the snapshot is not
newer than the selection) and `FreshStart`.

**TokenSubscriberProofs**: for any chain of subscribers and any expiries, the type
invariant, `OneLoop` and `NoGapBetweenTokens`. The second needs the assumption
that the request timeout is within the refresh buffer (both are 5 s in
`token_subscriber.cc`) and the invariant `Margin`: while the timer runs the token
has the buffer left beyond it, and while a request runs at least what the request
cannot use of the buffer.

**ServiceControlCallProofs**: for any number of
workers, tokens, reports and retries, `TokenBeforeTraffic`, `RightToken` and
`UsersGoFirst`. The argument is about the queues of
posted closures. `Ordered` says where a closure may stand: the one that makes the
cache first, the one that removes it last, and one that starts the listener only
behind a token for each service, or with those tokens already set (`Arrives`).
`TokensFit` says that every token set, waiting or sent is of the source
configured for its service. `Standing` says which members exist in each state of the
cache, that a call has its factory below that mark (`Place`), and that reports and
the timer need all members: the flush of the client makes a call while all the
factories are there, and each factory takes its calls along. The lemmas follow the two ends of a queue: what
posting appends (`MainThreadKeeps`), what running the head removes (`Shifts`).

**StreamReportsProofs**: for any service configs and
requests, any report interval and any number of frames and ticks, the type
invariant, `RequestCountedOnce`, `LatenciesAddUp`, `BytesShrinkOnlyByHeaders`,
`OneConsumer` and `LoadedIsJustified`. `NamesAssumption` says that an operation
has a name and that a check may name no project; `ServicesAssumption` that the
repeated fields of a service config are sequences.

The first part has what the operators compute: which operations a report has
and whom each addresses, which value a metric has in it, what `Load` loads. The
second part is about the stream. `StepKinds` sorts the steps into those that send
nothing, an intermediate or the final report, so that each part of the invariant
has three cases and not one per action:

* `StreamOK`: no time lies ahead of the clock, and nothing is known of a consumer
  before the check has answered. The latencies of a report are differences of
  these times; without an order they could be negative.
* `LengthOK`: there is an interval between two reports. It bounds their number,
  which the type invariant states.
* `CountOK`: `is_first_report_` says whether there is a report; the request is
  counted for the producer and the consumer in the first report only, for the
  producer by consumer in the final one only. The answer of a check can come
  between two reports and take the key away, but never add one, so a consumer that
  the first report left out stays left out.
* `BytesOK`: no report counted more bytes than there are now, so the next one does
  not count fewer. The final report may, by what the response headers have lost
  since `encodeHeaders`, and by no more.
* `AskedOK`: the check and the quota request name the consumer of the key found in
  the request, as the reports do.

`LoadedIsJustified` is an induction over the loops of the loader. The induction
theorems of the library have an operator as parameter, so the proofs go through a
least counterexample instead: `LeastNat` gives the first round at which
`Justified` fails, and the step of the round before contradicts it. The same
argument shows that the recursive functions exist (`NamesLoop`,
`DestinationsLoop`). What makes it work is that `AddLabels` adds all of the labels
of a log or metric or nothing (`AllOrNothing`).

**PathMatcherProofs**: for any templates, requests, HTTP methods and number of
registrations, `LookupFindsBest` and `BindingsAreMatchedParts`. The assumptions say
that a segment or verb is text without `/` and a verb is not empty (and no wildcard
behind `**`, see section 3), and that a path is split at its slashes.

* `TrieInv` is inductive (`TrieIsRight`): each method is at the node of its
  template's keys, all nodes above it exist, a node holds nothing else, and
  `custom_verbs_` are the verbs of the registered templates. Without the nodes above,
  a search could not get to a method; without the last, an old template's path could
  be split in another way than the reference does.
* `SearchFinds` is an induction over the number of parts left, by a least
  counterexample as above. It says of every node that the search from it finds the
  best of the methods below it that fit the rest of the path (its candidates).
  `CandidateDown`, `CandidateStay` and `CandidateUp` are the three ways in which
  candidates of a node and of the next part are related: through a child, by staying
  in `**`, and back. `BetterStep` says that the first difference of two rankings
  decides, which is the order in which the code tries the children: `SearchStep`.
  `SearchEnd` is the base case with its look at a `**` child.
* The search at the root with all parts is `LookupIsBest`; `BetterOneWay` makes the
  best match unique. `RegisteredFirst` is the step that keeps `FirstStays`.
* `TemplateParsedRight` is an induction over the items of a template: the variables'
  ranges are those of their segments. `VariableFacts` and `BindingIsMatched` compare
  the arithmetic of `PostProcessVariables` and `ExtractBindingsFromPath` with the
  parts that `Position` lays on these segments, for `**` that takes several parts,
  one or none, with and without a verb.

**RequestFiltersProofs**: for any service configs, requests and number of tokens,
`BackendSeesParametersOnce`, `TokenOfItsAudience` and `NoMissingTokens`. The
assumptions are those of `PathMatcher` for the rules and paths, that parameters and
rules are sequences, that a value with a `&` falls into more than one text, and that the access token's subscriber is not one of an
audience. `FiltersInv` is inductive (`FiltersAreRight`):

* `ConfigInv`: the rules registered are the first ones of the service, and before all
  are, nothing is posted or served. With `TrieInv`, whose lemmas are used again for
  `LoadRule`, it says that a method found is one of the service's rules.
* `TokensInv`: what is posted for an audience and what is in its slot is a token of
  that audience.
* `ReadyInv`: in the worker's queue the first token of each audience stands before the
  closure that lets it listen (`ListenLast`), or is set already (`Arrives`). `PostOne`
  follows the end of the queue, `RunPostedRight` its head.
* `StreamInv`: what is known of the request in each phase: it was answered 404 and
  nothing matches, or the operation is that of the best method and the parameters
  are right where routing will replace the path (`ParametersRight`). `JoinLoop` and
  `JoinedTexts` follow the loop that joins them: for whole values each binding
  becomes one text (`TextsOfBinding`), in their order. The configs
  meet here: a template with variables on a constant address has its operation in
  `path_params_operations_`, and one without adds none (`QueryParamsRight`), so what
  backend routing sends is right (`RoutedRight`).

Only model-checked: liveness (`EveryCallAnswered`, `HeldRequestResumes`, `Converges`,
`BecomesReady`, `TokenRenewed`, `WorkersCatchUp`, `ReportsFlushed`) and the fairness
part of `ImplementsContract`, which are beyond the prover. Every safety property of a
passing run has a theorem.

## 6. What is not modelled

* The contents of headers, tokens and logs, the texts of messages, JSON and
  protobuf encoding, statistics; the buckets of the distributions in reports.
* Envoy, the AsyncClient and the service control client library beyond what the
  code relies on. The client library's caches answer at once or by a call, and
  its aggregation of reports is that it may hold them back; its destructor
  flushes them, and the factories, destroyed after it, cancel those calls.
* Removing a filter config while token closures wait for a worker. The closures
  refer to the removed object; whether a worker can still run them is decided by
  Envoy's slots and listeners. `Close` has only the closings at which none waits.
* An access token from a service account file for backend auth: the config
  parser does not support it, so `TokenOfItsAudience` leaves that case out.
* Service info and the rest of the config generator: one pass over the service
  config that fills tables, with no state after it. `RequestFilters` starts from
  such tables and has the rules of the three filters; the routes are for Envoy's
  own matching, which is not in the repository.
* The metadata fetcher: HTTP calls with a cached token, used by the one goroutine
  of `ConfigManager`, which has only whether a call fails.
* The GCS runner: a launcher that waits once, for an exit, a signal or a timeout.
* Flags, bootstrap, Go utilities and start scripts: configuration without state.
