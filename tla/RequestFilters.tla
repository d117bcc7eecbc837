--------------------------- MODULE RequestFilters ---------------------------
(***************************************************************************)
(* A request on its way through the filters that decide where it goes: the *)
(* path matcher filter names its operation, backend auth gives it a token  *)
(* for the operation's backend, backend routing rewrites its path.  The    *)
(* three filters share nothing but the filter state of the stream, and     *)
(* each has a config of its own that the control plane derives from the    *)
(* same methods.  The trie is that of PathMatcher.                         *)
(*                                                                         *)
(* Between the path matcher and backend auth the request may be held back  *)
(* (ServiceControlFilter), so tokens arrive in between.  One worker, to    *)
(* which the main thread posts tokens in order (ServiceControlCall has     *)
(* several).                                                               *)
(*                                                                         *)
(* A path is a sequence of segments as in PathMatcher.  A query is present *)
(* if there is a "?", and has a sequence of parameters, the texts between  *)
(* "&": [name, value] where the filters wrote the name and "=", otherwise  *)
(* all of the text is the value and the name is empty.                     *)
(***************************************************************************)
EXTENDS PathMatcher

CONSTANTS
  ServiceInfos,  \* named methods of service configs, with the proxy's options
  HttpRequests,  \* [method, override, path, query]
  Ampersands,    \* the values with a "&" in them, each with the texts between
  NoOverride,    \* no x-http-method-override header
  NoAudience,    \* the empty jwt_audience
  AccessToken,   \* the subscriber of the access token
  MaxTokens      \* bound on the tokens fetched for each audience

\* The rules of a service are a repeated field. The subscriber of the access token
\* is none of those of the audiences.
ASSUME ServiceInfosAssumption ==
  \A i \in DOMAIN ServiceInfos :
    /\ ServiceInfos[i].rules \in Seq(Rules)
    /\ \A o \in DOMAIN ServiceInfos[i].backend :
         ServiceInfos[i].backend[o].audience # AccessToken

\* Paths are split as in PathMatcher; without "?" there are no parameters.
ASSUME HttpRequestsAssumption ==
  \A rq \in HttpRequests :
    /\ rq.path \in Requests
    /\ IsSequence(rq.query.params)
    /\ ~rq.query.present => rq.query.params = <<>>

ASSUME AmpersandsAssumption ==
  \A value \in DOMAIN Ampersands : IsSequence(Ampersands[value]) /\ Len(Ampersands[value]) > 1

ASSUME TokenBoundAssumption == MaxTokens \in Nat

VARIABLES
  info,          \* name of the service info the configs are made from
  config,        \* the listener's filter configs: "loading", "loaded", "refused"
  fetched,       \* how many tokens each subscriber has handed to its callback
  posted,        \* closures posted to the worker
  listening,     \* the worker serves requests
  token,         \* token_ of each audience on the worker
  stream         \* the request the worker is busy with, or the last one

filterVars == <<info, vars, config, fetched, posted, listening, token, stream>>

serviceInfo == ServiceInfos[info]
rules == serviceInfo.rules
backend == serviceInfo.backend

NoToken == [audience |-> NoAudience, n |-> 0]
NoStream == [phase |-> "none"]

-----------------------------------------------------------------------------
(* The configs that the control plane makes of the methods *)

HasPathParameter(template) == \E i \in DOMAIN template.items : template.items[i].field # NoField

\* makePathMatcherFilter sets extract_path_parameters rule by rule, the filter
\* config keeps it by operation.
ExtractPathParameters(rule) ==
  /\ rule.operation \in DOMAIN backend
  /\ backend[rule.operation].translation = "CONSTANT_ADDRESS"
  /\ HasPathParameter(rule.template)
path_params_operations ==
  {rules[i].operation : i \in {j \in DOMAIN rules : ExtractPathParameters(rules[j])}}

\* makeBackendRoutingFilter: the operations with a rule.
RoutedOperations == {o \in DOMAIN backend : backend[o].translation # "UNSPECIFIED"}

\* makeBackendAuthFilter and FilterConfigParserImpl. With an access token it does
\* not support the parser stops before the rules.
operation_map ==
  [o \in {o \in DOMAIN backend : serviceInfo.credentials # "iam_secret" /\ backend[o].audience # NoAudience}
     |-> backend[o].audience]
audience_map == {operation_map[o] : o \in DOMAIN operation_map}

\* The subscribers: one for each audience, and one for the access token that the
\* IAM server wants. Without id_token_info there is none.
Subscribers ==
  CASE serviceInfo.credentials = "imds" -> audience_map
    [] serviceInfo.credentials = "iam" /\ audience_map # {} -> audience_map \cup {AccessToken}
    [] OTHER -> {}

Ready == {s \in Subscribers : fetched[s] > 0}

\* The server lets the worker listen when the last subscriber is ready.
ListenIf(ready) == IF Subscribers \subseteq ready THEN <<[op |-> "listen"]>> ELSE <<>>

-----------------------------------------------------------------------------
(* The main thread *)

FiltersInit ==
  /\ info \in DOMAIN ServiceInfos
  /\ Init
  /\ config = "loading"
  /\ fetched = [s \in Subscribers |-> 0]
  /\ posted = <<>> /\ listening = FALSE
  /\ token = [a \in audience_map |-> NoToken]
  /\ stream = NoStream

\* A step of the constructor of the path matcher's FilterConfig: a rule is
\* registered, or refused with an exception.
LoadRule ==
  LET rule == rules[Len(calls) + 1]
  IN /\ config = "loading"
     /\ Len(calls) < Len(rules)
     /\ calls' = Append(calls, rule)
     /\ \/ RegisterNew(rule) /\ UNCHANGED config
        \/ (RegisterDuplicate(rule) \/ RegisterInvalid(rule)) /\ config' = "refused"
     /\ UNCHANGED <<info, fetched, posted, listening, token, stream>>

\* The end of the constructor: the path matcher is built. The listener is complete,
\* and waits for its subscribers.
BuildMatcher ==
  /\ config = "loading"
  /\ Len(calls) = Len(rules)
  /\ config' = "loaded"
  /\ posted' = ListenIf({})
  /\ UNCHANGED <<info, vars, fetched, listening, token, stream>>

\* The closure of AudienceContext's callback; the access token stays here.
Publish(s, n) ==
  IF s = AccessToken THEN <<>>
  ELSE <<[op |-> "token", token |-> [audience |-> s, n |-> n]]>>

\* ready() when this is the subscriber's first token.
ReadyWith(s) == IF s \in Ready THEN <<>> ELSE ListenIf(Ready \cup {s})

\* Mutant of HandleSuccess: the target is ready before the callback runs.
HandleSuccessReadyFirst(s, n) == ReadyWith(s) \o Publish(s, n)

HandleSuccess(s, n) == Publish(s, n) \o ReadyWith(s)

\* A subscriber has a new token.
Fetch(s) ==
  /\ config = "loaded"
  /\ fetched[s] < MaxTokens
  /\ serviceInfo.credentials = "iam" /\ s # AccessToken => fetched[AccessToken] > 0
  /\ fetched' = [fetched EXCEPT ![s] = @ + 1]
  /\ posted' = posted \o HandleSuccess(s, fetched[s] + 1)
  /\ UNCHANGED <<info, vars, config, listening, token, stream>>

\* Mutant of SetToken: one slot for all audiences.
SetTokenOfAll(new_token) == token' = [a \in audience_map |-> new_token]

SetToken(new_token) == token' = [token EXCEPT ![new_token.audience] = new_token]

\* The worker runs what was posted to it.
RunPosted ==
  /\ posted # <<>>
  /\ posted' = Tail(posted)
  /\ \/ Head(posted).op = "token" /\ SetToken(Head(posted).token) /\ UNCHANGED listening
     \/ Head(posted).op = "listen" /\ listening' = TRUE /\ UNCHANGED token
  /\ UNCHANGED <<info, vars, config, fetched, stream>>

-----------------------------------------------------------------------------
(* The path matcher filter *)

\* A name with "_" is replaced by its JSON name, if it has one.
JsonName(segment) ==
  IF segment \in serviceInfo.snake_names /\ segment \in DOMAIN serviceInfo.json_names
  THEN serviceInfo.json_names[segment] ELSE segment

JsonNames(field_path) == [j \in DOMAIN field_path |-> JsonName(field_path[j])]

\* What a binding is in the string of parameters: the value is appended as it is
\* in the path, so that one with a "&" makes more than one text.
ParameterTexts(binding) ==
  LET texts == IF binding.value \in DOMAIN Ampersands THEN Ampersands[binding.value] ELSE <<binding.value>>
  IN [k \in DOMAIN texts |-> [name |-> IF k = 1 THEN JsonNames(binding.field_path) ELSE <<>>,
                              value |-> texts[k]]]

VariableBindingsToQueryParameters(bindings) ==
  LET joined[i \in 0..Len(bindings)] ==
        IF i = 0 THEN <<>> ELSE joined[i - 1] \o ParameterTexts(bindings[i])
  IN joined[Len(bindings)]

\* kQueryParams of the filter state for the method found; empty when it is not set.
QueryParams(found, path) ==
  IF RuleOf(found).operation \notin path_params_operations THEN <<>>
  ELSE VariableBindingsToQueryParameters(
         ExtractBindingsFromPath(methods[found].variables, ExtractRequestParts(path)))

\* getRequestHTTPMethodWithOverride
MethodWithOverride(rq) == IF rq.override = NoOverride THEN rq.method ELSE rq.override

Rejected(rq, code) == stream' = [phase |-> "rejected", request |-> rq, code |-> code]

\* decodeHeaders of the path matcher filter, for a new request.
PathMatcherDecodeHeaders(rq) ==
  LET found == Lookup(MethodWithOverride(rq), rq.path) IN
  /\ listening
  /\ stream.phase # "held"
  /\ \/ found = NoData /\ Rejected(rq, 404)
     \/ /\ found # NoData
        /\ stream' = [phase |-> "held", request |-> rq,
                      operation |-> RuleOf(found).operation,
                      query_params |-> QueryParams(found, rq.path)]
  /\ UNCHANGED <<info, vars, config, fetched, posted, listening, token>>

-----------------------------------------------------------------------------
(* Backend auth and backend routing *)

\* Mutant of ConstantAddressQuery: a query the request has is all there is.
ConstantAddressQueryKept(query, query_params) ==
  IF query.present THEN query ELSE [present |-> query_params # <<>>, params |-> query_params]

\* The query after a constant address: the request's own, then the path's.
ConstantAddressQuery(query, query_params) ==
  [present |-> query.present \/ query_params # <<>>, params |-> query.params \o query_params]

\* decodeHeaders of backend routing: the path header it leaves.
Routed(rq, operation, query_params) ==
  IF operation \notin RoutedOperations THEN [path |-> rq.path, query |-> rq.query]
  ELSE IF backend[operation].translation = "CONSTANT_ADDRESS"
  THEN [path |-> backend[operation].uri, query |-> ConstantAddressQuery(rq.query, query_params)]
  ELSE [path |-> backend[operation].uri \o rq.path, query |-> rq.query]

\* The request leaves the filters. NoToken: the client's authorization header, if
\* any, is left alone.
Forwarded(authorization) ==
  stream' = [phase |-> "forwarded", request |-> stream.request, operation |-> stream.operation,
             authorization |-> authorization,
             sent |-> Routed(stream.request, stream.operation, stream.query_params)]

\* The filters in between let the request go on, and decodeHeaders of backend auth
\* and backend routing run one after the other.
BackendDecodeHeaders ==
  /\ stream.phase = "held"
  /\ \/ stream.operation \notin DOMAIN operation_map /\ Forwarded(NoToken)
     \/ /\ stream.operation \in DOMAIN operation_map
        /\ LET jwt_token == token[operation_map[stream.operation]] IN
           \/ jwt_token = NoToken /\ Rejected(stream.request, 500)
           \/ jwt_token # NoToken /\ Forwarded(jwt_token)
  /\ UNCHANGED <<info, vars, config, fetched, posted, listening, token>>

\* Envoy keeps running without a listener that was refused.
Refused == config = "refused" /\ UNCHANGED filterVars

FiltersNext ==
  \/ LoadRule \/ BuildMatcher \/ RunPosted \/ BackendDecodeHeaders \/ Refused
  \/ \E s \in Subscribers : Fetch(s)
  \/ \E rq \in HttpRequests : PathMatcherDecodeHeaders(rq)

FiltersSpec == FiltersInit /\ [][FiltersNext]_filterVars

-----------------------------------------------------------------------------
(* Properties *)

\* The rules of the request's best template by the definition without a trie.
BestRules(rq) ==
  {RuleOf(d) : d \in BestMatches(MethodWithOverride(rq), Parts(rq.path))}

\* The parameters of a path that a template matches, one for each variable.
PathParameters(template, path) ==
  LET variables == Parsed(template).variables
  IN [k \in DOMAIN variables |->
        [name |-> JsonNames(variables[k].field_path),
         value |-> MatchedParts(template, variables[k], Parts(path))]]

\* Each variable has the parts that it matched (see BindingsAreMatchedParts), and
\* none of them has a "&" in it.
WholeValues(template, path) ==
  LET variables == Parsed(template).variables
  IN \A k \in DOMAIN variables :
       /\ ~BehindWildcard(template, variables[k])
       /\ MatchedParts(template, variables[k], Parts(path)) \notin DOMAIN Ampersands

\* What is sent has the path and the query of the request, behind the address.
PathKept(rq, address, sent) == sent = [path |-> address \o rq.path, query |-> rq.query]

\* The address is all of the path, and what comes of the path is behind the query's
\* parameters: exactly those of the path, unless a value has a "&" in it.
PathReplaced(rq, address, sent, template) ==
  LET added == SubSeq(sent.query.params, Len(rq.query.params) + 1, Len(sent.query.params))
  IN /\ sent.path = address
     /\ sent.query.params = rq.query.params \o added
     /\ sent.query.present <=> rq.query.present \/ added # <<>>
     /\ WholeValues(template, rq.path) => added = PathParameters(template, rq.path)

\* Three configs agree about every request: it is answered 404 exactly when no
\* template matches; otherwise the backend gets it at the address of the best
\* template's operation and sees each parameter exactly once, those of the path
\* still in the path or, where the address is constant, in the query. (A "&" in the
\* value of a variable is not escaped: from such a path the backend sees more.)
BackendSeesParametersOnce ==
  /\ stream.phase = "rejected" => (stream.code = 404 <=> BestRules(stream.request) = {})
  /\ stream.phase = "forwarded" =>
       \E rule \in BestRules(stream.request) :
         IF rule.operation \notin RoutedOperations THEN PathKept(stream.request, <<>>, stream.sent)
         ELSE LET to == backend[rule.operation]
              IN IF to.translation = "CONSTANT_ADDRESS"
                 THEN PathReplaced(stream.request, to.uri, stream.sent, rule.template)
                 ELSE PathKept(stream.request, to.uri, stream.sent)

\* A forwarded request carries a token exactly when the backend of its operation
\* asks for one, and then one that was fetched for that backend's audience,
\* whatever tokens arrived while the request was held back. (The parser does not
\* support an access token from a service account file.)
TokenOfItsAudience ==
  stream.phase = "forwarded" /\ serviceInfo.credentials # "iam_secret" =>
    \E rule \in BestRules(stream.request) :
      stream.authorization.audience =
        IF rule.operation \in DOMAIN backend THEN backend[rule.operation].audience ELSE NoAudience

\* With subscribers no request is answered "missing tokens": the worker gets the
\* first token of every audience before it is told to listen.
NoMissingTokens ==
  serviceInfo.credentials \in {"imds", "iam"} /\ stream.phase = "rejected" => stream.code # 500

=============================================================================
