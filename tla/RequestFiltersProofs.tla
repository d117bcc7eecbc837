------------------------ MODULE RequestFiltersProofs ------------------------
(***************************************************************************)
(* Proofs about RequestFilters, for every service, any requests and any    *)
(* number of tokens.  The trie is right by the lemmas of PathMatcherProofs *)
(* as long as rules are registered, and does not change after that.        *)
(***************************************************************************)
EXTENDS RequestFilters, PathMatcherProofs

-----------------------------------------------------------------------------
(* The inductive invariant *)

\* The rules are registered in order, and nothing happens before the end of that.
ConfigInv ==
  /\ info \in DOMAIN ServiceInfos
  /\ Len(calls) <= Len(rules)
  /\ \A c \in 1..Len(calls) : calls[c] = rules[c]
  /\ config # "loaded" => posted = <<>> /\ ~listening /\ stream = NoStream

Closure == [op : {"listen"}] \cup [op : {"token"}, token : [audience : audience_map, n : Nat]]

\* A slot has a token of its audience or none.
TokensInv ==
  /\ fetched \in [Subscribers -> Nat]
  /\ posted \in Seq(Closure)
  /\ DOMAIN token = audience_map
  /\ \A a \in audience_map : token[a] = NoToken \/ token[a].audience = a

\* The worker has a token of the audience, or gets one by the first i closures.
Arrives(closures, a, i) ==
  \/ token[a] # NoToken
  \/ \E j \in 1..i : closures[j].op = "token" /\ closures[j].token.audience = a

\* The first token of each audience is before the closure that lets the worker
\* listen.
ListenLast(closures) ==
  \A i \in 1..Len(closures) :
    closures[i].op = "listen" => \A a \in audience_map : Arrives(closures, a, i)

ReadyInv ==
  serviceInfo.credentials \in {"imds", "iam"} =>
    /\ \A a \in audience_map : fetched[a] > 0 => Arrives(posted, a, Len(posted))
    /\ ListenLast(posted)
    /\ listening => \A a \in audience_map : token[a] # NoToken

\* The methods that match a request best.
BestOf(rq) == BestMatches(MethodWithOverride(rq), Parts(rq.path))

\* The parameters from the path are right where routing replaces the path.
ParametersRight(params, rule, path) ==
  /\ IsSequence(params)
  /\ rule.operation \in DOMAIN backend /\ backend[rule.operation].translation = "CONSTANT_ADDRESS"
       /\ WholeValues(rule.template, path)
       => params = PathParameters(rule.template, path)

\* So is what is sent, and the token.
SentRight(rq, rule, sent) ==
  IF rule.operation \notin RoutedOperations THEN PathKept(rq, <<>>, sent)
  ELSE LET to == backend[rule.operation]
       IN IF to.translation = "CONSTANT_ADDRESS"
          THEN PathReplaced(rq, to.uri, sent, rule.template)
          ELSE PathKept(rq, to.uri, sent)

AuthorizationRight(authorization, operation) ==
  IF operation \in DOMAIN operation_map THEN authorization.audience = operation_map[operation]
  ELSE authorization = NoToken

\* What the worker knows of a request that matches, in each phase.
Held(rq, rule) ==
  /\ stream.phase = "held"
  /\ stream = [phase |-> "held", request |-> rq, operation |-> rule.operation,
               query_params |-> stream.query_params]
  /\ ParametersRight(stream.query_params, rule, rq.path)

Answered(rq) ==
  /\ stream = [phase |-> "rejected", request |-> rq, code |-> 500]
  /\ serviceInfo.credentials \notin {"imds", "iam"}

Sent(rq, rule) ==
  /\ stream.phase = "forwarded"
  /\ stream = [phase |-> "forwarded", request |-> rq, operation |-> rule.operation,
               authorization |-> stream.authorization, sent |-> stream.sent]
  /\ AuthorizationRight(stream.authorization, rule.operation)
  /\ SentRight(rq, rule, stream.sent)

NotFound(rq) == BestOf(rq) = {} /\ stream = [phase |-> "rejected", request |-> rq, code |-> 404]

StreamInv ==
  \/ stream = NoStream
  \/ /\ listening
     /\ \E rq \in HttpRequests :
          \/ NotFound(rq)
          \/ \E d \in BestOf(rq) : Held(rq, RuleOf(d)) \/ Answered(rq) \/ Sent(rq, RuleOf(d))

FiltersInv == ConfigInv /\ TrieInv /\ TokensInv /\ ReadyInv /\ StreamInv

-----------------------------------------------------------------------------
(* What does not change *)

\* The configs depend on the service info only.
LEMMA SameService ==
  ASSUME info' = info
  PROVE /\ serviceInfo' = serviceInfo /\ rules' = rules /\ backend' = backend
        /\ operation_map' = operation_map /\ audience_map' = audience_map
        /\ Subscribers' = Subscribers /\ RoutedOperations' = RoutedOperations
        /\ \A f : JsonNames(f)' = JsonNames(f)
<1>1. serviceInfo' = serviceInfo
  BY Zenon DEF serviceInfo
<1>2. rules' = rules /\ backend' = backend
  BY Zenon, <1>1 DEF rules, backend
<1>3. operation_map' = operation_map
  BY Zenon, <1>1, <1>2 DEF operation_map
<1>4. audience_map' = audience_map
  BY Zenon, <1>3 DEF audience_map
<1>5. Subscribers' = Subscribers
  BY Zenon, <1>1, <1>4 DEF Subscribers
<1>6. RoutedOperations' = RoutedOperations
  BY Zenon, <1>2 DEF RoutedOperations
<1>7. \A f : JsonName(f)' = JsonName(f)
  BY Zenon, <1>1 DEF JsonName
<1>8. \A f : JsonNames(f)' = JsonNames(f)
  BY Zenon, <1>7 DEF JsonNames
<1> QED BY Zenon, <1>1, <1>2, <1>3, <1>4, <1>5, <1>6, <1>8

\* What matches a request depends on the registered rules only.
LEMMA SameMatcher ==
  ASSUME UNCHANGED vars
  PROVE /\ TrieInv => TrieInv'
        /\ calls' = calls /\ methods' = methods
        /\ \A d : RuleOf(d)' = RuleOf(d)
        /\ \A path : Parts(path)' = Parts(path)
        /\ \A rq : BestOf(rq)' = BestOf(rq)
<1>1. trie' = trie /\ custom_verbs' = custom_verbs /\ methods' = methods /\ calls' = calls
  BY Zenon DEF vars
<1>2. \A d : RuleOf(d)' = RuleOf(d)
  BY Zenon, <1>1 DEF RuleOf
<1>3. TrieInv => TrieInv'
  BY Zenon, TrieStays
<1>4. {RuleOf(d)'.template.verb : d \in DOMAIN methods} = {RuleOf(d).template.verb : d \in DOMAIN methods}
  BY Zenon, <1>2
<1>5. \A path : Parts(path)' = Parts(path)
  BY Zenon, <1>1, <1>4 DEF Parts
<1>6. \A m, parts : Matches(m, parts)' = Matches(m, parts)
  BY Zenon, <1>1, <1>2 DEF Matches
<1>7. \A d, parts : RanksOf(d, parts)' = RanksOf(d, parts)
  BY Zenon, <1>2 DEF RanksOf
<1>8. \A m, parts : BestMatches(m, parts)' = BestMatches(m, parts)
  BY Zenon, <1>6, <1>7 DEF BestMatches
<1>9. \A rq : BestOf(rq)' = BestOf(rq)
  BY Zenon, <1>5, <1>8 DEF BestOf, MethodWithOverride
<1> QED BY Zenon, <1>1, <1>2, <1>3, <1>5, <1>9

-----------------------------------------------------------------------------
(* Parameters *)

\* The variables of a template are a sequence, empty if no item is a variable.
LEMMA VariablesOfRule ==
  ASSUME NEW rule \in Rules
  PROVE /\ \E n \in Nat : DOMAIN Parsed(rule.template).variables = 1..n
        /\ ~HasPathParameter(rule.template) => DOMAIN Parsed(rule.template).variables = {}
<1>1. PICK t : t = rule.template
  BY Zenon
<1>2. PICK variables : variables = Parsed(t).variables
  BY Zenon
<1>3. ParsedRight(Fields(t), Parsed(t))
  BY Zenon, <1>1, RuleItems, TemplateParsedRight
<1>4. variables \in Seq(Variable(Fields(t)))
  BY Zenon, <1>2, <1>3 DEF ParsedRight
<1>5. Len(variables) \in Nat /\ DOMAIN variables = 1..Len(variables)
  BY <1>4
<1>6. ASSUME ~HasPathParameter(t) PROVE DOMAIN variables = {}
  <2>1. Fields(t) = {}
    BY Zenon, <1>1, <1>6, RuleItems DEF Fields, HasPathParameter
  <2>2. \A k \in 1..Len(variables) : variables[k] \in Variable(Fields(t))
    BY <1>4
  <2>3. \A v \in Variable({}) : FALSE
    BY Zenon DEF Variable
  <2> QED BY Zenon, <1>5, <2>1, <2>2, <2>3
<1> QED BY Zenon, <1>1, <1>2, <1>5, <1>6

\* What the search finds is what matches best.
LEMMA FoundIsBest ==
  ASSUME TrieInv, NEW rq \in HttpRequests, NEW d, d = Lookup(MethodWithOverride(rq), rq.path)
  PROVE IF d = NoData THEN BestOf(rq) = {} ELSE BestOf(rq) = {d}
<1>1. rq.path \in Requests
  BY Zenon, HttpRequestsAssumption
<1>2. BestOf(rq) = {d} \ {NoData}
  BY Zenon, <1>1, LookupIsBest DEF BestOf
<1> QED BY Zenon, <1>2

\* A function on the first numbers is a sequence.
LEMMA FunctionIsSequence ==
  ASSUME NEW f, NEW n \in Nat, f = [k \in 1..n |-> f[k]]
  PROVE IsSequence(f)
BY DEF IsSequence

\* Two sequences behind one another.
LEMMA BehindOneAnother ==
  ASSUME NEW q, NEW p, IsSequence(q), IsSequence(p)
  PROVE /\ IsSequence(q \o p) /\ Len(q) \in Nat /\ Len(p) \in Nat
        /\ DOMAIN (q \o p) = 1..(Len(q) + Len(p)) /\ Len(q \o p) = Len(q) + Len(p)
        /\ \A i \in 1..Len(q) : (q \o p)[i] = q[i]
        /\ \A i \in 1..Len(p) : (q \o p)[Len(q) + i] = p[i]
<1>1. PICK S : S = {q[i] : i \in DOMAIN q} \cup {p[i] : i \in DOMAIN p}
  BY Zenon
<1>2. q \in Seq({q[i] : i \in DOMAIN q}) /\ p \in Seq({p[i] : i \in DOMAIN p})
  BY Zenon DEF IsSequence
<1>3. ASSUME NEW A, NEW B, NEW x \in Seq(A), \A e \in A : e \in B PROVE x \in Seq(B)
  BY <1>3
<1>4. q \in Seq(S) /\ p \in Seq(S)
  BY Zenon, <1>1, <1>2, <1>3
<1>5. PICK both \in Seq(S) : both = q \o p
  <2>1. q \o p \in Seq(S)
    BY <1>4
  <2> QED BY Zenon, <2>1
<1>6. /\ Len(q) \in Nat /\ Len(p) \in Nat /\ Len(both) = Len(q) + Len(p) /\ DOMAIN both = 1..Len(both)
      /\ \A i \in 1..Len(q) : both[i] = q[i]
      /\ \A i \in 1..Len(p) : both[Len(q) + i] = p[i]
  BY <1>4, <1>5
<1>7. both = [i \in 1..Len(both) |-> both[i]] /\ Len(both) \in Nat
  <2>1. ASSUME NEW B, NEW x \in Seq(B) PROVE x = [i \in 1..Len(x) |-> x[i]] /\ Len(x) \in Nat
    OBVIOUS
  <2> QED BY Zenon, <1>5, <2>1
<1>8. IsSequence(both)
  BY Zenon, <1>7, FunctionIsSequence
<1> QED BY Zenon, <1>5, <1>6, <1>8

\* What VariableBindingsToQueryParameters has after each binding.
JoinStep(bindings, f, i) == IF i = 0 THEN <<>> ELSE f[i - 1] \o ParameterTexts(bindings[i])

JoinsTo(bindings, f, N) == f = [i \in 0..N |-> JoinStep(bindings, f, i)]

\* The loop gets to the last binding.
LEMMA JoinLoop ==
  ASSUME NEW bindings, NEW N \in Nat
  PROVE \E g : JoinsTo(bindings, g, N)
<1> DEFINE Step(g, n) == JoinStep(bindings, g, n)
           T == {k \in Nat : ~\E g : g = [n \in 0..k |-> Step(g, n)]}
<1>1. SUFFICES T = {}
  BY Zenon DEF JoinsTo
<1>2. SUFFICES ASSUME T # {} PROVE FALSE
  BY Zenon
<1>3. PICK m \in T : \A k \in T : m <= k
  <2>1. T \in SUBSET Nat
    BY Zenon
  <2> HIDE DEF T
  <2> QED BY Zenon, <1>2, <2>1, LeastNumber
<1>4. ASSUME NEW g, NEW h, NEW n \in Nat, n # 0 => g[n - 1] = h[n - 1] PROVE Step(g, n) = Step(h, n)
  BY Zenon, <1>4 DEF JoinStep
<1>5. \A g : Step(g, 0) = <<>>
  BY Zenon DEF JoinStep
<1> HIDE DEF Step
<1>6. CASE m = 0
  <2>1. PICK g : g = [n \in 0..0 |-> <<>>]
    BY Zenon
  <2>2. g = [n \in 0..0 |-> Step(g, n)]
    BY <1>5, <2>1
  <2> QED BY Zenon, <1>6, <2>2
<1>7. CASE m # 0
  <2>1. m - 1 \in Nat /\ m - 1 \notin T
    BY <1>3, <1>7
  <2>2. PICK g : g = [n \in 0..(m - 1) |-> Step(g, n)]
    BY Zenon, <2>1
  <2>3. PICK h : h = [n \in 0..m |-> IF n < m THEN g[n] ELSE Step(g, m)]
    BY Zenon
  <2>4. ASSUME NEW n \in 0..m PROVE h[n] = Step(h, n)
    <3>1. n # 0 => g[n - 1] = h[n - 1]
      BY <2>3
    <3>2. Step(g, n) = Step(h, n)
      BY <1>4, <3>1
    <3>3. CASE n < m
      BY <2>2, <2>3, <3>2, <3>3
    <3>4. CASE n = m
      <4>1. h[m] = Step(g, m)
        BY <2>3
      <4> QED BY Zenon, <3>2, <3>4, <4>1
    <3> QED BY <3>3, <3>4
  <2>5. h = [n \in 0..m |-> Step(h, n)]
    BY Zenon, <2>3, <2>4
  <2> QED BY Zenon, <1>3, <2>5
<1> QED BY Zenon, <1>6, <1>7

\* The parameter a binding is when its value is one text.
Parameter(binding) == [name |-> JsonNames(binding.field_path), value |-> binding.value]

\* The texts of a binding are a sequence; without "&" it is one text.
LEMMA TextsOfBinding ==
  ASSUME NEW binding
  PROVE /\ IsSequence(ParameterTexts(binding))
        /\ binding.value \notin DOMAIN Ampersands =>
             Len(ParameterTexts(binding)) = 1 /\ ParameterTexts(binding)[1] = Parameter(binding)
<1>1. PICK value, name, texts :
        /\ value = binding.value /\ name = JsonNames(binding.field_path)
        /\ texts = IF value \in DOMAIN Ampersands THEN Ampersands[value] ELSE <<value>>
  BY Zenon
<1>2. PICK all : all = [k \in DOMAIN texts |-> [name |-> IF k = 1 THEN name ELSE <<>>, value |-> texts[k]]]
  BY Zenon
<1>3. ParameterTexts(binding) = all
  BY Zenon, <1>1, <1>2 DEF ParameterTexts
<1>4. PICK n \in Nat : DOMAIN texts = 1..n
  <2>1. CASE value \in DOMAIN Ampersands
    <3>1. texts \in Seq({texts[i] : i \in DOMAIN texts})
      BY Zenon, <1>1, <2>1, AmpersandsAssumption DEF IsSequence
    <3> QED BY <3>1
  <2>2. CASE value \notin DOMAIN Ampersands
    <3>1. DOMAIN texts = 1..1
      BY <1>1, <2>2
    <3> QED BY Zenon, <3>1, 1 \in Nat
  <2> QED BY Zenon, <2>1, <2>2
<1>5. all = [k \in 1..n |-> all[k]]
  BY Zenon, <1>2, <1>4
<1>6. IsSequence(all)
  BY Zenon, <1>5, FunctionIsSequence
<1>7. ASSUME value \notin DOMAIN Ampersands PROVE Len(all) = 1 /\ all[1] = Parameter(binding)
  <2>1. texts = <<value>>
    BY Zenon, <1>1, <1>7
  <2>2. DOMAIN texts = 1..1 /\ texts[1] = value
    BY <2>1
  <2>3. all = [k \in 1..1 |-> all[k]] /\ all[1] = [name |-> name, value |-> value]
    BY <1>2, <2>2
  <2>4. Len(all) = 1
    BY <2>3
  <2> QED BY Zenon, <1>1, <2>3, <2>4 DEF Parameter
<1> QED BY Zenon, <1>1, <1>3, <1>6, <1>7

\* The parameters are a sequence; as long as no value has "&" they are one for each
\* binding.
LEMMA JoinedTexts ==
  ASSUME NEW bindings, NEW N \in Nat, Len(bindings) = N,
         NEW params, params = VariableBindingsToQueryParameters(bindings)
  PROVE /\ IsSequence(params)
        /\ (\A k \in 1..N : bindings[k].value \notin DOMAIN Ampersands) =>
             params = [k \in 1..N |-> Parameter(bindings[k])]
<1>1. PICK f : JoinsTo(bindings, f, N) /\ params = f[N]
  <2> DEFINE F == CHOOSE g : JoinsTo(bindings, g, N)
  <2>1. JoinsTo(bindings, F, N)
    BY Zenon, JoinLoop
  <2>2. params = F[N]
    BY Zenon DEF VariableBindingsToQueryParameters, JoinsTo, JoinStep
  <2> QED BY Zenon, <2>1, <2>2
<1>2. f[0] = <<>> /\ \A i \in 1..N : f[i] = f[i - 1] \o ParameterTexts(bindings[i])
  <2>1. f = [i \in 0..N |-> JoinStep(bindings, f, i)]
    BY Zenon, <1>1 DEF JoinsTo
  <2>2. 0 \in 0..N /\ \A i \in 1..N : i \in 0..N /\ i # 0
    OBVIOUS
  <2>3. \A i \in 0..N : f[i] = JoinStep(bindings, f, i)
    BY Zenon, <2>1
  <2> QED BY Zenon, <2>2, <2>3 DEF JoinStep
<1> DEFINE Plain == \A k \in 1..N : bindings[k].value \notin DOMAIN Ampersands
           Right(i) == /\ IsSequence(f[i])
                       /\ Plain => /\ Len(f[i]) = i
                                   /\ \A k \in 1..i : f[i][k] = Parameter(bindings[k])
           T == {i \in 0..N : ~Right(i)}
<1>3. Right(0)
  <2>1. IsSequence(<<>>) /\ Len(<<>>) = 0
    BY DEF IsSequence
  <2>2. \A k \in 1..0 : FALSE
    OBVIOUS
  <2> QED BY Zenon, <1>2, <2>1, <2>2
<1>4. ASSUME NEW i \in 1..N, Right(i - 1) PROVE Right(i)
  <2>1. PICK before, more, now :
          before = f[i - 1] /\ more = ParameterTexts(bindings[i]) /\ now = before \o more /\ now = f[i]
    BY Zenon, <1>2
  <2>2. IsSequence(before) /\ IsSequence(more)
    BY Zenon, <1>4, <2>1, TextsOfBinding
  <2>3. /\ IsSequence(now) /\ Len(now) = Len(before) + Len(more)
        /\ \A k \in 1..Len(before) : now[k] = before[k]
        /\ \A k \in 1..Len(more) : now[Len(before) + k] = more[k]
    <3>1. /\ IsSequence(before \o more) /\ Len(before \o more) = Len(before) + Len(more)
          /\ \A k \in 1..Len(before) : (before \o more)[k] = before[k]
          /\ \A k \in 1..Len(more) : (before \o more)[Len(before) + k] = more[k]
      BY <2>2, BehindOneAnother
    <3> QED BY Zenon, <2>1, <3>1
  <2>4. ASSUME Plain PROVE Len(now) = i /\ \A k \in 1..i : now[k] = Parameter(bindings[k])
    <3>1. Len(more) = 1 /\ more[1] = Parameter(bindings[i])
      BY Zenon, <2>1, <2>4, TextsOfBinding
    <3>2. Len(before) = i - 1 /\ \A k \in 1..(i - 1) : before[k] = Parameter(bindings[k])
      BY Zenon, <1>4, <2>1, <2>4
    <3>3. (i - 1) + 1 = i /\ 1 \in 1..1
      OBVIOUS
    <3>4. now[i] = Parameter(bindings[i]) /\ Len(now) = i
      <4>1. Len(now) = Len(before) + Len(more)
        BY Zenon, <2>3
      <4>2. now[Len(before) + 1] = more[1]
        BY Zenon, <2>3, <3>1, <3>3
      <4>3. Len(before) + 1 = i
        BY Zenon, <3>2, <3>3
      <4> QED BY Zenon, <3>1, <4>1, <4>2, <4>3
    <3>5. \A k \in 1..(i - 1) : now[k] = Parameter(bindings[k])
      BY Zenon, <2>3, <3>2
    <3>6. \A k \in 1..i : k \in 1..(i - 1) \/ k = i
      OBVIOUS
    <3> QED BY Zenon, <3>4, <3>5, <3>6
  <2> QED BY Zenon, <2>1, <2>3, <2>4
<1> HIDE DEF Right
<1>5. T = {}
  <2>1. SUFFICES ASSUME T # {} PROVE FALSE
    BY Zenon
  <2>2. PICK m \in T : \A k \in T : m <= k
    <3>1. T \in SUBSET Nat
      OBVIOUS
    <3> HIDE DEF T
    <3> QED BY Zenon, <2>1, <3>1, LeastNumber
  <2>3. m # 0 /\ m \in 0..N /\ ~Right(m)
    BY Zenon, <1>3, <2>2
  <2>4. m - 1 \in 0..N /\ m \in 1..N /\ ~(m <= m - 1)
    BY <2>3
  <2>5. Right(m - 1)
    BY Zenon, <2>2, <2>4
  <2> QED BY Zenon, <1>4, <2>3, <2>4, <2>5
<1>6. Right(N)
  <2>1. N \in 0..N
    OBVIOUS
  <2> QED BY Zenon, <1>5, <2>1
<1>7. ASSUME Plain PROVE params = [k \in 1..N |-> Parameter(bindings[k])]
  <2>1. IsSequence(params) /\ Len(params) = N /\ \A k \in 1..N : params[k] = Parameter(bindings[k])
    BY Zenon, <1>1, <1>6, <1>7 DEF Right
  <2>2. params \in Seq({params[k] : k \in DOMAIN params})
    BY Zenon, <2>1 DEF IsSequence
  <2>3. params = [k \in 1..N |-> params[k]]
    BY <2>1, <2>2
  <2> QED BY Zenon, <2>1, <2>3
<1> QED BY Zenon, <1>1, <1>6, <1>7 DEF Right

\* The filter state has the parameters of the path for every operation whose path
\* is replaced, though the path matcher's config has them by operation and routing
\* by rule.
LEMMA QueryParamsRight ==
  ASSUME TrieInv, NEW rq \in HttpRequests, NEW d, d = Lookup(MethodWithOverride(rq), rq.path), d # NoData,
         NEW rule, rule = RuleOf(d), NEW i \in DOMAIN rules, rule = rules[i], rule \in Rules
  PROVE ParametersRight(QueryParams(d, rq.path), rule, rq.path)
<1>1. PICK path \in Requests : path = rq.path
  BY Zenon, HttpRequestsAssumption
<1>2. PICK variables, bindings :
        /\ variables = Parsed(rule.template).variables
        /\ bindings = ExtractBindingsFromPath(methods[d].variables, ExtractRequestParts(path))
  BY Zenon
<1>3. /\ DOMAIN bindings = DOMAIN variables
      /\ \A k \in DOMAIN variables :
           /\ bindings[k].field_path = variables[k].field_path
           /\ ~BehindWildcard(rule.template, variables[k]) =>
                bindings[k].value = MatchedParts(rule.template, variables[k], Parts(path))
  <2>1. BindingsRight(d, path)
    BY Zenon, <1>1, BindingsOfRequest
  <2> QED BY Zenon, <1>2, <2>1 DEF BindingsRight
<1>4. PICK n \in Nat : DOMAIN variables = 1..n
  BY Zenon, <1>2, VariablesOfRule
<1>5. CASE rule.operation \in path_params_operations
  <2>1. PICK params : params = VariableBindingsToQueryParameters(bindings)
    BY Zenon
  <2>2. QueryParams(d, rq.path) = params
    BY Zenon, <1>1, <1>2, <1>5, <2>1 DEF QueryParams
  <2>3. bindings = [k \in 1..n |-> bindings[k]]
    BY Zenon, <1>2, <1>3, <1>4 DEF ExtractBindingsFromPath
  <2>4. Len(bindings) = n
    BY <2>3
  <2>5. /\ IsSequence(params)
        /\ (\A k \in 1..n : bindings[k].value \notin DOMAIN Ampersands) =>
             params = [k \in 1..n |-> Parameter(bindings[k])]
    BY Zenon, <2>1, <2>4, JoinedTexts
  <2>6. ASSUME WholeValues(rule.template, path) PROVE params = PathParameters(rule.template, path)
    <3>1. \A k \in 1..n : /\ bindings[k].value = MatchedParts(rule.template, variables[k], Parts(path))
                           /\ bindings[k].value \notin DOMAIN Ampersands
      <4>1. \A k \in DOMAIN variables :
              /\ ~BehindWildcard(rule.template, variables[k])
              /\ MatchedParts(rule.template, variables[k], Parts(path)) \notin DOMAIN Ampersands
        BY Zenon, <1>2, <2>6 DEF WholeValues
      <4> QED BY Zenon, <1>3, <1>4, <4>1
    <3>2. \A k \in 1..n : Parameter(bindings[k]) =
            [name |-> JsonNames(variables[k].field_path),
             value |-> MatchedParts(rule.template, variables[k], Parts(path))]
      BY Zenon, <1>3, <1>4, <3>1 DEF Parameter
    <3> QED BY Zenon, <1>2, <1>4, <2>5, <3>1, <3>2 DEF PathParameters
  <2> QED BY Zenon, <1>1, <2>2, <2>5, <2>6 DEF ParametersRight
<1>6. CASE rule.operation \notin path_params_operations
  <2>1. QueryParams(d, rq.path) = <<>>
    BY Zenon, <1>6 DEF QueryParams
  <2>2. IsSequence(<<>>)
    BY DEF IsSequence
  <2>3. ASSUME rule.operation \in DOMAIN backend,
               backend[rule.operation].translation = "CONSTANT_ADDRESS"
        PROVE <<>> = PathParameters(rule.template, path)
    <3>1. ~ExtractPathParameters(rule)
      BY Zenon, <1>6 DEF path_params_operations
    <3>2. DOMAIN variables = {}
      BY Zenon, <1>2, <2>3, <3>1, VariablesOfRule DEF ExtractPathParameters
    <3>3. PICK params : params = PathParameters(rule.template, path)
      BY Zenon
    <3>4. params = [k \in {} |-> params[k]]
      BY Zenon, <1>2, <3>2, <3>3 DEF PathParameters
    <3>5. params = <<>>
      BY <3>4
    <3> QED BY Zenon, <3>3, <3>5
  <2> QED BY Zenon, <1>1, <2>1, <2>2, <2>3 DEF ParametersRight
<1> QED BY Zenon, <1>5, <1>6

\* What was appended to a sequence.
LEMMA AppendedPart ==
  ASSUME NEW q, NEW p, IsSequence(q), IsSequence(p)
  PROVE SubSeq(q \o p, Len(q) + 1, Len(q \o p)) = p
<1>1. PICK S : S = {q[i] : i \in DOMAIN q} \cup {p[i] : i \in DOMAIN p}
  BY Zenon
<1>2. q \in Seq({q[i] : i \in DOMAIN q}) /\ p \in Seq({p[i] : i \in DOMAIN p})
  BY Zenon DEF IsSequence
<1>3. ASSUME NEW A, NEW B, NEW x \in Seq(A), \A e \in A : e \in B PROVE x \in Seq(B)
  BY <1>3
<1>4. q \in Seq(S) /\ p \in Seq(S)
  BY Zenon, <1>1, <1>2, <1>3
<1> HIDE DEF IsSequence
<1>5. PICK both \in Seq(S), a \in Nat, b \in Nat :
        /\ both = q \o p /\ a = Len(q) /\ b = Len(p) /\ Len(both) = a + b
        /\ \A i \in 1..b : both[a + i] = p[i]
  <2>1. q \o p \in Seq(S) /\ Len(q) \in Nat /\ Len(p) \in Nat
    BY <1>4
  <2>2. Len(q \o p) = Len(q) + Len(p)
    BY <1>4
  <2>3. \A i \in 1..Len(p) : (q \o p)[Len(q) + i] = p[i]
    BY <1>4
  <2> QED BY Zenon, <2>1, <2>2, <2>3
<1>6. SubSeq(both, a + 1, a + b) = p
  <2>1. PICK part : part = SubSeq(both, a + 1, a + b)
    BY Zenon
  <2>2. part \in Seq(S) /\ Len(part) = b
    BY <1>5, <2>1
  <2>3. \A i \in 1..b : part[i] = both[a + i]
    BY <1>5, <2>1
  <2>4. \A i \in 1..b : part[i] = p[i]
    BY Zenon, <1>5, <2>3
  <2> QED BY Zenon, <1>4, <1>5, <2>1, <2>2, <2>4, SameElements
<1> QED BY Zenon, <1>5, <1>6

\* Routing sends what the property asks for.
LEMMA RoutedRight ==
  ASSUME NEW rq \in HttpRequests, NEW rule, NEW params, ParametersRight(params, rule, rq.path)
  PROVE SentRight(rq, rule, Routed(rq, rule.operation, params))
<1>1. PICK operation, sent : operation = rule.operation /\ sent = Routed(rq, rule.operation, params)
  BY Zenon
<1>2. CASE operation \notin RoutedOperations
  <2>1. sent = [path |-> rq.path, query |-> rq.query]
    BY Zenon, <1>1, <1>2 DEF Routed
  <2>2. <<>> \o rq.path = rq.path
    <3>1. PICK path \in Seq(Seq(STRING) \ {<<>>}) : path = rq.path
      BY Zenon, HttpRequestsAssumption, RequestsAssumption
    <3>2. <<>> \o path = path
      OBVIOUS
    <3> QED BY Zenon, <3>1, <3>2
  <2> QED BY Zenon, <1>1, <1>2, <2>1, <2>2 DEF SentRight, PathKept
<1>3. CASE operation \in RoutedOperations /\ backend[operation].translation # "CONSTANT_ADDRESS"
  <2>1. sent = [path |-> backend[operation].uri \o rq.path, query |-> rq.query]
    BY Zenon, <1>1, <1>3 DEF Routed
  <2> QED BY Zenon, <1>1, <1>3, <2>1 DEF SentRight, PathKept
<1>4. CASE operation \in RoutedOperations /\ backend[operation].translation = "CONSTANT_ADDRESS"
  <2>1. PICK q, uri : q = rq.query.params /\ uri = backend[operation].uri
    BY Zenon
  <2>2. sent = [path |-> uri, query |-> [present |-> rq.query.present \/ params # <<>>, params |-> q \o params]]
    BY Zenon, <1>1, <1>4, <2>1 DEF Routed, ConstantAddressQuery
  <2>3. PICK query : query = sent.query
    BY Zenon
  <2>4. query = [present |-> rq.query.present \/ params # <<>>, params |-> q \o params] /\ sent.path = uri
    BY <2>2, <2>3
  <2>5. query.params = q \o params /\ (query.present <=> rq.query.present \/ params # <<>>)
    BY Zenon, <2>4
  <2>6. IsSequence(q) /\ IsSequence(params)
    BY Zenon, <2>1, HttpRequestsAssumption DEF ParametersRight
  <2>7. SubSeq(query.params, Len(q) + 1, Len(query.params)) = params
    BY Zenon, <2>5, <2>6, AppendedPart
  <2>8. WholeValues(rule.template, rq.path) => params = PathParameters(rule.template, rq.path)
    BY Zenon, <1>1, <1>4 DEF ParametersRight, RoutedOperations
  <2>9. PathReplaced(rq, uri, sent, rule.template)
    BY Zenon, <2>1, <2>3, <2>4, <2>5, <2>7, <2>8 DEF PathReplaced
  <2> QED BY Zenon, <1>1, <1>4, <2>1, <2>9 DEF SentRight
<1> QED BY Zenon, <1>2, <1>3, <1>4

-----------------------------------------------------------------------------
(* Steps that leave a part of the invariant alone *)

\* What is right for a request stays right.
LEMMA SameRight ==
  ASSUME info' = info, UNCHANGED vars
  PROVE /\ \A params, rule, path : ParametersRight(params, rule, path) => ParametersRight(params, rule, path)'
        /\ \A rq, rule, sent : SentRight(rq, rule, sent) => SentRight(rq, rule, sent)'
        /\ \A x, operation : AuthorizationRight(x, operation) => AuthorizationRight(x, operation)'
<1>1. /\ backend' = backend /\ operation_map' = operation_map /\ RoutedOperations' = RoutedOperations
      /\ \A f : JsonNames(f)' = JsonNames(f)
  BY Zenon, SameService
<1>2. \A path : Parts(path)' = Parts(path)
  BY Zenon, SameMatcher
<1>3. \A template, path :
        /\ PathParameters(template, path)' = PathParameters(template, path)
        /\ WholeValues(template, path)' <=> WholeValues(template, path)
  BY Zenon, <1>1, <1>2 DEF PathParameters, WholeValues
<1>4. \A params, rule, path : ParametersRight(params, rule, path) => ParametersRight(params, rule, path)'
  BY Zenon, <1>1, <1>3 DEF ParametersRight
<1>5. ASSUME NEW rq, NEW uri, NEW sent, NEW template, PathReplaced(rq, uri, sent, template)
      PROVE PathReplaced(rq, uri, sent, template)'
  <2>1. PICK added : added = SubSeq(sent.query.params, Len(rq.query.params) + 1, Len(sent.query.params))
    BY Zenon
  <2>2. WholeValues(template, rq.path) => added = PathParameters(template, rq.path)
    BY Zenon, <1>5, <2>1 DEF PathReplaced
  <2>3. WholeValues(template, rq.path)' => added = PathParameters(template, rq.path)'
    BY Zenon, <1>3, <2>2
  <2> QED BY Zenon, <1>5, <2>1, <2>3 DEF PathReplaced
<1>6. \A rq, uri, sent : PathKept(rq, uri, sent)' <=> PathKept(rq, uri, sent)
  BY Zenon DEF PathKept
<1>7. \A rq, rule, sent : SentRight(rq, rule, sent) => SentRight(rq, rule, sent)'
  BY Zenon, <1>1, <1>5, <1>6 DEF SentRight
<1>8. \A x, operation : AuthorizationRight(x, operation) => AuthorizationRight(x, operation)'
  BY Zenon, <1>1 DEF AuthorizationRight, NoToken
<1> QED BY Zenon, <1>4, <1>7, <1>8

\* The request is not touched.
LEMMA StreamStays ==
  ASSUME StreamInv, info' = info, UNCHANGED vars, stream' = stream, listening => listening'
  PROVE StreamInv'
<1>1. CASE stream = NoStream
  BY Zenon, <1>1 DEF StreamInv, NoStream
<1>2. CASE stream # NoStream
  <2>1. PICK rq \in HttpRequests :
          \/ NotFound(rq)
          \/ \E d \in BestOf(rq) : Held(rq, RuleOf(d)) \/ Answered(rq) \/ Sent(rq, RuleOf(d))
    BY Zenon, <1>2 DEF StreamInv
  <2>2. listening'
    BY Zenon, <1>2 DEF StreamInv
  <2>3. BestOf(rq)' = BestOf(rq) /\ \A d : RuleOf(d)' = RuleOf(d)
    BY Zenon, SameMatcher
  <2>4. serviceInfo' = serviceInfo
    BY Zenon, SameService
  <2>5. CASE NotFound(rq)
    <3>1. NotFound(rq)'
      BY Zenon, <2>3, <2>5 DEF NotFound
    <3> QED BY Zenon, <2>2, <3>1 DEF StreamInv
  <2>6. ASSUME NEW d \in BestOf(rq), Held(rq, RuleOf(d)) \/ Answered(rq) \/ Sent(rq, RuleOf(d))
        PROVE StreamInv'
    <3>1. PICK rule : rule = RuleOf(d) /\ rule = RuleOf(d)'
      BY Zenon, <2>3
    <3>2. Held(rq, rule) => Held(rq, rule)'
      BY Zenon, SameRight DEF Held
    <3>3. Answered(rq) => Answered(rq)'
      BY Zenon, <2>4 DEF Answered
    <3>4. Sent(rq, rule) => Sent(rq, rule)'
      BY Zenon, SameRight DEF Sent
    <3>5. d \in BestOf(rq)'
      BY Zenon, <2>3
    <3>6. Held(rq, rule)' \/ Answered(rq)' \/ Sent(rq, rule)'
      BY Zenon, <2>6, <3>1, <3>2, <3>3, <3>4
    <3> QED BY Zenon, <2>2, <3>1, <3>5, <3>6 DEF StreamInv
  <2> QED BY Zenon, <2>1, <2>5, <2>6
<1> QED BY Zenon, <1>1, <1>2

\* The tokens are not touched.
LEMMA TokensStay ==
  ASSUME TokensInv, info' = info, UNCHANGED <<fetched, posted, token>>
  PROVE TokensInv' /\ (ReadyInv /\ listening' = listening => ReadyInv')
<1>1. fetched' = fetched /\ posted' = posted /\ token' = token
  OBVIOUS
<1>2. serviceInfo' = serviceInfo /\ audience_map' = audience_map /\ Subscribers' = Subscribers
  BY Zenon, SameService
<1>3. Closure' = Closure
  BY Zenon, <1>2 DEF Closure
<1>4. TokensInv'
  BY Zenon, <1>1, <1>2, <1>3 DEF TokensInv, NoToken
<1>5. \A q, a, i : Arrives(q, a, i)' <=> Arrives(q, a, i)
  BY Zenon, <1>1 DEF Arrives, NoToken
<1>6. \A q : ListenLast(q) => ListenLast(q)'
  BY Zenon, <1>2, <1>5 DEF ListenLast
<1>7. \A a : Arrives(posted, a, Len(posted))' <=> Arrives(posted, a, Len(posted))
  BY Zenon, <1>1 DEF Arrives, NoToken
<1>8. ListenLast(posted) => ListenLast(posted)'
  BY Zenon, <1>1, <1>6
<1>9. ASSUME ReadyInv, listening' = listening PROVE ReadyInv'
  BY Zenon, <1>1, <1>2, <1>7, <1>8, <1>9 DEF ReadyInv, NoToken
<1> QED BY Zenon, <1>4, <1>9

\* The configs are not touched.
LEMMA ConfigStays ==
  ASSUME ConfigInv, info' = info, UNCHANGED vars, config = "loaded", config' = config
  PROVE ConfigInv'
<1>1. rules' = rules
  BY Zenon, SameService
<1>2. calls' = calls
  BY Zenon DEF vars
<1> QED BY Zenon, <1>1, <1>2 DEF ConfigInv

-----------------------------------------------------------------------------
(* The start, and the filter configs *)

\* Every audience has a name and a subscriber of its own.
LEMMA Audiences ==
  ASSUME info \in DOMAIN ServiceInfos
  PROVE /\ \A a \in audience_map : a # NoAudience /\ a # AccessToken
        /\ serviceInfo.credentials \in {"imds", "iam"} => \A a \in audience_map : a \in Subscribers
<1>1. ASSUME NEW a \in audience_map PROVE a # NoAudience /\ a # AccessToken
  <2>1. PICK o \in DOMAIN operation_map : a = operation_map[o]
    BY Zenon DEF audience_map
  <2>2. o \in DOMAIN backend /\ backend[o].audience # NoAudience /\ operation_map[o] = backend[o].audience
    BY Zenon, <2>1 DEF operation_map
  <2>3. backend[o].audience # AccessToken
    BY Zenon, <2>2, ServiceInfosAssumption DEF backend, serviceInfo
  <2> QED BY Zenon, <2>1, <2>2, <2>3
<1>2. ASSUME serviceInfo.credentials = "imds" PROVE Subscribers = audience_map
  BY <1>2 DEF Subscribers
<1>3. ASSUME serviceInfo.credentials = "iam", audience_map # {}
      PROVE Subscribers = audience_map \cup {AccessToken}
  BY <1>3 DEF Subscribers
<1> QED BY Zenon, <1>1, <1>2, <1>3

\* Where everything starts.
LEMMA InitFilters == FiltersInit => FiltersInv
<1> SUFFICES ASSUME FiltersInit PROVE FiltersInv
  OBVIOUS
<1>1. /\ info \in DOMAIN ServiceInfos /\ Init /\ config = "loading"
      /\ fetched = [s \in Subscribers |-> 0] /\ posted = <<>> /\ listening = FALSE
      /\ token = [a \in audience_map |-> NoToken] /\ stream = NoStream
  BY Zenon DEF FiltersInit
<1>2. TrieInv
  BY Zenon, <1>1, InitTrie
<1>3. ConfigInv
  <2>1. rules \in Seq(Rules)
    BY Zenon, <1>1, ServiceInfosAssumption DEF rules, serviceInfo
  <2>2. Len(rules) \in Nat
    BY <2>1
  <2>3. calls = <<>>
    BY Zenon, <1>1 DEF Init
  <2>4. Len(calls) <= Len(rules) /\ \A c \in 1..Len(calls) : FALSE
    BY <2>2, <2>3
  <2> QED BY Zenon, <1>1, <2>4 DEF ConfigInv
<1>4. <<>> \in Seq(Closure) /\ Len(<<>>) = 0 /\ (\A i \in 1..0 : FALSE) /\ 0 \in Nat /\ ~(0 > 0)
  OBVIOUS
<1>5. TokensInv
  <2>1. fetched \in [Subscribers -> Nat]
    BY Zenon, <1>1, <1>4
  <2>2. DOMAIN token = audience_map /\ \A a \in audience_map : token[a] = NoToken
    BY Zenon, <1>1
  <2> QED BY Zenon, <1>1, <1>4, <2>1, <2>2 DEF TokensInv
<1>6. ReadyInv
  <2>1. serviceInfo.credentials \in {"imds", "iam"} => \A a \in audience_map : fetched[a] = 0
    BY Zenon, <1>1, Audiences
  <2> QED BY Zenon, <1>1, <1>4, <2>1 DEF ReadyInv, ListenLast
<1>7. StreamInv
  BY Zenon, <1>1 DEF StreamInv
<1> QED BY Zenon, <1>2, <1>3, <1>5, <1>6, <1>7 DEF FiltersInv

\* A rule is registered, in its place; the listener does not start with a rule
\* that was refused.
LEMMA LoadRuleRight == FiltersInv /\ LoadRule => FiltersInv'
<1> SUFFICES ASSUME FiltersInv, LoadRule PROVE FiltersInv'
  OBVIOUS
<1>1. ConfigInv /\ TrieInv /\ TokensInv /\ ReadyInv /\ StreamInv
  BY Zenon DEF FiltersInv
<1>2. PICK rule : /\ rule = rules[Len(calls) + 1] /\ calls' = Append(calls, rule)
                  /\ RegisterNew(rule) \/ RegisterDuplicate(rule) \/ RegisterInvalid(rule)
  BY Zenon DEF LoadRule
<1>3. /\ config = "loading" /\ Len(calls) < Len(rules) /\ config' \in {"loading", "refused"}
      /\ UNCHANGED <<info, fetched, posted, listening, token, stream>>
  BY Zenon DEF LoadRule
<1>4. rules \in Seq(Rules) /\ calls \in Seq(Rules)
  BY Zenon, <1>1, ServiceInfosAssumption DEF rules, serviceInfo, ConfigInv, TrieInv, MethodsInv
<1>5. rule \in Rules
  BY <1>2, <1>3, <1>4
<1>6. TrieInv'
  BY Zenon, <1>1, <1>2, <1>5, NewKeepsTrie, DuplicateKeepsTrie, InvalidKeepsTrie
<1>7. rules' = rules /\ info' = info
  BY Zenon, <1>3, SameService
<1>8. ConfigInv'
  <2>1. \A c \in 1..Len(calls) : calls[c] = rules[c]
    BY Zenon, <1>1 DEF ConfigInv
  <2>2. Len(calls') <= Len(rules)
    BY <1>2, <1>3, <1>4, <1>5
  <2>3. \A c \in 1..Len(calls') : calls'[c] = rules[c]
    BY <1>2, <1>4, <1>5, <2>1
  <2>4. config # "loaded" /\ config' # "loaded"
    BY Zenon, <1>3
  <2> QED BY Zenon, <1>1, <1>3, <1>7, <2>2, <2>3, <2>4 DEF ConfigInv, NoStream
<1>9. TokensInv' /\ ReadyInv'
  BY Zenon, <1>1, <1>3, TokensStay
<1>10. StreamInv'
  <2>1. stream' = NoStream
    BY Zenon, <1>1, <1>3 DEF ConfigInv
  <2> QED BY Zenon, <2>1 DEF StreamInv, NoStream
<1> QED BY Zenon, <1>6, <1>8, <1>9, <1>10 DEF FiltersInv


-----------------------------------------------------------------------------
(* Tokens *)

\* A closure is posted behind the others. If it lets the worker listen, the tokens
\* are there or before it.
LEMMA PostOne ==
  ASSUME NEW q \in Seq(Closure), NEW c \in Closure, ListenLast(q),
         c.op = "listen" => \A a \in audience_map : Arrives(q, a, Len(q)),
         NEW more, more = Append(q, c)
  PROVE /\ more \in Seq(Closure) /\ ListenLast(more)
        /\ \A a : Arrives(q, a, Len(q)) => Arrives(more, a, Len(more))
        /\ \A a : c.op = "token" /\ c.token.audience = a => Arrives(more, a, Len(more))
<1>1. PICK n \in Nat : n = Len(q) /\ Len(more) = n + 1
  OBVIOUS
<1>2. more \in Seq(Closure) /\ more[n + 1] = c /\ \A i \in 1..n : more[i] = q[i]
  BY <1>1
<1>3. \A i \in 1..n : \A j \in 1..i : j \in 1..n
  OBVIOUS
<1>4. \A i \in 1..n : \A a : Arrives(q, a, i) => Arrives(more, a, i)
  BY Zenon, <1>2, <1>3 DEF Arrives
<1>5. n + 1 \in 1..(n + 1) /\ \A j \in 1..n : j \in 1..(n + 1)
  OBVIOUS
<1>6. \A a : Arrives(q, a, n) => Arrives(more, a, n + 1)
  BY Zenon, <1>2, <1>5 DEF Arrives
<1>7. \A a : c.op = "token" /\ c.token.audience = a => Arrives(more, a, n + 1)
  BY Zenon, <1>2, <1>5 DEF Arrives
<1>8. ListenLast(more)
  <2>1. SUFFICES ASSUME NEW i \in 1..(n + 1), more[i].op = "listen", NEW a \in audience_map
                 PROVE Arrives(more, a, i)
    BY Zenon, <1>1 DEF ListenLast
  <2>2. CASE i \in 1..n
    BY Zenon, <1>1, <1>2, <1>4, <2>1, <2>2 DEF ListenLast
  <2>3. CASE i = n + 1
    BY Zenon, <1>1, <1>2, <1>6, <2>1, <2>3
  <2>4. i \in 1..n \/ i = n + 1
    OBVIOUS
  <2> QED BY Zenon, <2>2, <2>3, <2>4
<1> QED BY Zenon, <1>1, <1>2, <1>6, <1>7, <1>8

\* The closures: a token of an audience, and the one that lets the worker listen.
LEMMA Closures ==
  /\ [op |-> "listen"] \in Closure /\ [op |-> "listen"].op = "listen"
  /\ \A a \in audience_map, n \in Nat :
       LET c == [op |-> "token", token |-> [audience |-> a, n |-> n]]
       IN c \in Closure /\ c.op = "token" /\ c.token.audience = a
<1>1. [op |-> "listen"] \in Closure /\ [op |-> "listen"].op = "listen"
  BY Zenon DEF Closure
<1>2. ASSUME NEW a \in audience_map, NEW n \in Nat
      PROVE LET c == [op |-> "token", token |-> [audience |-> a, n |-> n]]
            IN c \in Closure /\ c.op = "token" /\ c.token.audience = a
  BY Zenon DEF Closure
<1> QED BY Zenon, <1>1, <1>2

\* The invariant of the tokens after closures were posted.
LEMMA Posted ==
  ASSUME TokensInv, ReadyInv, info' = info, token' = token, listening' = listening,
         fetched' \in [Subscribers -> Nat], posted' \in Seq(Closure),
         serviceInfo.credentials \in {"imds", "iam"} =>
           /\ ListenLast(posted')
           /\ \A a \in audience_map : fetched'[a] > 0 => Arrives(posted', a, Len(posted'))
  PROVE TokensInv' /\ ReadyInv'
<1>1. serviceInfo' = serviceInfo /\ audience_map' = audience_map /\ Subscribers' = Subscribers
  BY Zenon, SameService
<1>2. Closure' = Closure
  BY Zenon, <1>1 DEF Closure
<1>3. TokensInv'
  BY Zenon, <1>1, <1>2 DEF TokensInv, NoToken
<1>4. \A q, a, i : Arrives(q, a, i)' <=> Arrives(q, a, i)
  BY Zenon DEF Arrives, NoToken
<1>5. PICK q : q = posted'
  BY Zenon
<1>6. \A a : Arrives(q, a, Len(q)) => Arrives(q, a, Len(q))'
  BY Zenon, <1>4
<1>7. ListenLast(q) => ListenLast(q)'
  BY Zenon, <1>1, <1>4 DEF ListenLast
<1>8. ReadyInv'
  BY Zenon, <1>1, <1>5, <1>6, <1>7 DEF ReadyInv, NoToken
<1> QED BY Zenon, <1>3, <1>8

\* The listener is complete.
LEMMA BuildMatcherRight == FiltersInv /\ BuildMatcher => FiltersInv'
<1> SUFFICES ASSUME FiltersInv, BuildMatcher PROVE FiltersInv'
  OBVIOUS
<1>1. ConfigInv /\ TrieInv /\ TokensInv /\ ReadyInv /\ StreamInv
  BY Zenon DEF FiltersInv
<1>2. /\ config = "loading" /\ config' = "loaded" /\ posted' = ListenIf({})
      /\ UNCHANGED <<info, vars, fetched, listening, token, stream>>
  BY Zenon DEF BuildMatcher
<1>3. posted = <<>> /\ info' = info /\ token' = token /\ fetched' = fetched
  BY Zenon, <1>1, <1>2 DEF ConfigInv
<1>4. TrieInv' /\ StreamInv'
  BY Zenon, <1>1, <1>2, SameMatcher, StreamStays
<1>5. ConfigInv'
  <2>1. rules' = rules /\ calls' = calls
    BY Zenon, <1>2, SameService DEF vars
  <2> QED BY Zenon, <1>1, <1>2, <2>1 DEF ConfigInv
<1>6. fetched' \in [Subscribers -> Nat] /\ posted \in Seq(Closure)
  BY Zenon, <1>1, <1>3 DEF TokensInv
<1>7. PICK q, none, c : q = posted' /\ none = posted /\ c = [op |-> "listen"]
  BY Zenon
<1>8. c \in Closure /\ c.op = "listen"
  BY Zenon, <1>7, Closures
<1>9. q = none \/ (Subscribers = {} /\ q = Append(none, c))
  <2>1. Append(<<>>, c) = <<c>>
    OBVIOUS
  <2> QED BY Zenon, <1>2, <1>3, <1>7, <2>1 DEF ListenIf
<1>10. /\ q \in Seq(Closure)
       /\ serviceInfo.credentials \in {"imds", "iam"} =>
            /\ ListenLast(q)
            /\ \A a \in audience_map : fetched'[a] > 0 => Arrives(q, a, Len(q))
  <2>1. CASE q = none
    BY Zenon, <1>1, <1>3, <1>6, <1>7, <2>1 DEF ReadyInv
  <2>2. CASE Subscribers = {} /\ q = Append(none, c)
    <3>1. q \in Seq(Closure)
      BY <1>6, <1>7, <1>8, <2>2
    <3>2. ASSUME serviceInfo.credentials \in {"imds", "iam"}
          PROVE ListenLast(q) /\ audience_map = {}
      <4>1. audience_map = {}
        BY Zenon, <1>1, <2>2, <3>2, Audiences DEF ConfigInv
      <4> QED BY Zenon, <4>1 DEF ListenLast
    <3> QED BY Zenon, <3>1, <3>2
  <2> QED BY Zenon, <1>9, <2>1, <2>2
<1>11. TokensInv' /\ ReadyInv'
  BY Zenon, <1>1, <1>2, <1>6, <1>7, <1>10, Posted
<1> QED BY Zenon, <1>4, <1>5, <1>11 DEF FiltersInv


\* Where the credentials come from IMDS or IAM, the audiences have their tokens
\* before the last subscriber is ready.
LEMMA FetchRight ==
  ASSUME FiltersInv, NEW s \in Subscribers, Fetch(s)
  PROVE FiltersInv'
<1>1. ConfigInv /\ TrieInv /\ TokensInv /\ ReadyInv /\ StreamInv
  BY Zenon DEF FiltersInv
<1>2. /\ config = "loaded" /\ fetched' = [fetched EXCEPT ![s] = fetched[s] + 1]
      /\ posted' = posted \o (Publish(s, fetched[s] + 1) \o ReadyWith(s))
      /\ info' = info /\ UNCHANGED vars /\ config' = config /\ listening' = listening
      /\ token' = token /\ stream' = stream
  BY Zenon DEF Fetch, HandleSuccess
<1>3. fetched \in [Subscribers -> Nat] /\ posted \in Seq(Closure)
  BY Zenon, <1>1 DEF TokensInv
<1>4. PICK n \in Nat : n = fetched[s] + 1 /\ n > 0
  BY <1>3
<1>5. /\ fetched' \in [Subscribers -> Nat]
      /\ \A a \in Subscribers : a # s => fetched'[a] = fetched[a]
  BY <1>2, <1>3, <1>4
<1>6. PICK q, publish, ready, listen, tok :
        /\ q = posted /\ publish = Publish(s, n) /\ ready = ReadyWith(s)
        /\ listen = [op |-> "listen"]
        /\ tok = [op |-> "token", token |-> [audience |-> s, n |-> n]]
  BY Zenon
<1>7. q \in Seq(Closure) /\ listen \in Closure /\ listen.op = "listen"
  BY Zenon, <1>3, <1>6, Closures
<1>8. s \in audience_map => tok \in Closure /\ tok.op = "token" /\ tok.token.audience = s
  BY Zenon, <1>4, <1>6, Closures
<1>9. /\ s = AccessToken => publish = <<>>
      /\ s # AccessToken => publish = <<tok>>
  BY Zenon, <1>6 DEF Publish
<1>10. serviceInfo.credentials \in {"imds", "iam"} /\ (s = AccessToken \/ s \in audience_map)
  <2>1. CASE serviceInfo.credentials = "imds"
    <3>1. Subscribers = audience_map
      BY <2>1 DEF Subscribers
    <3> QED BY Zenon, <2>1, <3>1
  <2>2. CASE serviceInfo.credentials = "iam" /\ audience_map # {}
    <3>1. Subscribers = audience_map \cup {AccessToken}
      BY <2>2 DEF Subscribers
    <3> QED BY Zenon, <2>2, <3>1
  <2>3. CASE serviceInfo.credentials # "imds" /\ ~(serviceInfo.credentials = "iam" /\ audience_map # {})
    <3>1. Subscribers = {}
      BY <2>3 DEF Subscribers
    <3> QED BY Zenon, <3>1
  <2> QED BY Zenon, <2>1, <2>2, <2>3
<1>11. \A a \in audience_map : a \in Subscribers /\ a # AccessToken
  BY Zenon, <1>1, <1>10, Audiences DEF ConfigInv
<1>12. ListenLast(q) /\ \A a \in audience_map : fetched[a] > 0 => Arrives(q, a, Len(q))
  BY Zenon, <1>1, <1>6, <1>10 DEF ReadyInv
<1>13. PICK r : r = q \o publish
  BY Zenon
<1>14. /\ r \in Seq(Closure) /\ ListenLast(r)
       /\ \A a \in audience_map : fetched[a] > 0 \/ a = s => Arrives(r, a, Len(r))
  <2>1. CASE s = AccessToken
    <3>1. r = q
      BY <1>7, <1>9, <1>13, <2>1
    <3> QED BY Zenon, <1>7, <1>11, <1>12, <2>1, <3>1
  <2>2. CASE s # AccessToken
    <3>1. s \in audience_map
      BY Zenon, <1>10, <2>2
    <3>2. r = Append(q, tok)
      <4>1. tok \in Closure /\ r = q \o <<tok>>
        BY Zenon, <1>8, <1>9, <1>13, <2>2, <3>1
      <4> QED BY <1>7, <4>1
    <3>3. tok.op # "listen"
      BY <1>8, <3>1
    <3>4. /\ r \in Seq(Closure) /\ ListenLast(r)
          /\ \A a : Arrives(q, a, Len(q)) => Arrives(r, a, Len(r))
          /\ \A a : tok.op = "token" /\ tok.token.audience = a => Arrives(r, a, Len(r))
      BY Zenon, <1>7, <1>8, <1>12, <3>1, <3>2, <3>3, PostOne
    <3> QED BY Zenon, <1>8, <1>12, <3>1, <3>4
  <2> QED BY Zenon, <2>1, <2>2
<1>15. ready = <<>> \/ (ready = <<listen>> /\ Subscribers \subseteq Ready \cup {s})
  BY Zenon, <1>6 DEF ReadyWith, ListenIf
<1>16. PICK p : p = posted'
  BY Zenon
<1>17. p = r \o ready
  <2>1. ready \in Seq(Closure) /\ publish \in Seq(Closure)
    <3>1. <<>> \in Seq(Closure) /\ <<listen>> \in Seq(Closure)
      BY <1>7
    <3>2. s \in audience_map => <<tok>> \in Seq(Closure)
      BY <1>8
    <3> QED BY Zenon, <1>9, <1>10, <1>15, <3>1, <3>2
  <2>2. p = q \o (publish \o ready)
    BY Zenon, <1>2, <1>4, <1>6, <1>16
  <2>3. \A u, v, w \in Seq(Closure) : u \o (v \o w) = (u \o v) \o w
    OBVIOUS
  <2> QED BY Zenon, <1>7, <1>13, <2>1, <2>2, <2>3
<1>18. /\ p \in Seq(Closure) /\ ListenLast(p)
       /\ \A a \in audience_map : fetched[a] > 0 \/ a = s => Arrives(p, a, Len(p))
  <2>1. CASE ready = <<>>
    <3>1. p = r
      BY <1>14, <1>17, <2>1
    <3> QED BY Zenon, <1>14, <3>1
  <2>2. CASE ready = <<listen>> /\ Subscribers \subseteq Ready \cup {s}
    <3>1. p = Append(r, listen)
      BY <1>7, <1>14, <1>17, <2>2
    <3>2. \A a \in audience_map : Arrives(r, a, Len(r))
      BY Zenon, <1>11, <1>14, <2>2 DEF Ready
    <3>3. /\ p \in Seq(Closure) /\ ListenLast(p)
          /\ \A a : Arrives(r, a, Len(r)) => Arrives(p, a, Len(p))
      BY Zenon, <1>7, <1>14, <3>1, <3>2, PostOne
    <3> QED BY Zenon, <3>2, <3>3
  <2> QED BY Zenon, <1>15, <2>1, <2>2
<1>19. \A a \in audience_map : fetched'[a] > 0 => fetched[a] > 0 \/ a = s
  BY Zenon, <1>5, <1>11
<1>20. TokensInv' /\ ReadyInv'
  BY Zenon, <1>1, <1>2, <1>5, <1>16, <1>18, <1>19, Posted
<1>21. TrieInv' /\ StreamInv' /\ ConfigInv'
  BY Zenon, <1>1, <1>2, SameMatcher, StreamStays, ConfigStays
<1> QED BY Zenon, <1>20, <1>21 DEF FiltersInv


\* The worker runs the first closure.
LEMMA RunPostedRight == FiltersInv /\ RunPosted => FiltersInv'
<1> SUFFICES ASSUME FiltersInv, RunPosted PROVE FiltersInv'
  OBVIOUS
<1>1. ConfigInv /\ TrieInv /\ TokensInv /\ ReadyInv /\ StreamInv
  BY Zenon DEF FiltersInv
<1>2. /\ posted # <<>> /\ posted' = Tail(posted)
      /\ info' = info /\ UNCHANGED vars /\ config' = config
      /\ fetched' = fetched /\ stream' = stream
      /\ \/ Head(posted).op = "token" /\ SetToken(Head(posted).token) /\ listening' = listening
         \/ Head(posted).op = "listen" /\ listening' = TRUE /\ token' = token
  BY Zenon DEF RunPosted
<1>3. TrieInv' /\ StreamInv' /\ ConfigInv'
  <2>1. config = "loaded"
    BY Zenon, <1>1, <1>2 DEF ConfigInv
  <2>2. listening => listening'
    BY Zenon, <1>2
  <2> QED BY Zenon, <1>1, <1>2, <2>1, <2>2, SameMatcher, StreamStays, ConfigStays
<1>4. serviceInfo' = serviceInfo /\ audience_map' = audience_map /\ Subscribers' = Subscribers
  BY Zenon, <1>2, SameService
<1>5. PICK q, rest, c : q = posted /\ rest = posted' /\ c = Head(posted)
  BY Zenon
<1>6. q \in Seq(Closure) /\ q # <<>> /\ rest = Tail(q) /\ c = Head(q)
  BY Zenon, <1>1, <1>2, <1>5 DEF TokensInv
<1>7. PICK n \in Nat : Len(q) = n + 1 /\ Len(rest) = n
  BY <1>6
<1>8. /\ rest \in Seq(Closure) /\ c \in Closure /\ q[1] = c
      /\ \A i \in 1..n : rest[i] = q[i + 1] /\ i + 1 \in 1..(n + 1)
  BY <1>6, <1>7
<1>9. c.op = "token" => c.token.audience \in audience_map
  BY Zenon, <1>8 DEF Closure
<1>10. \A a \in audience_map : a # NoAudience /\ a # AccessToken
  BY Zenon, <1>1, Audiences DEF ConfigInv
<1>11. DOMAIN token = audience_map /\ \A a \in audience_map : token[a] = NoToken \/ token[a].audience = a
  BY Zenon, <1>1 DEF TokensInv
<1>12. PICK t : t = token'
  BY Zenon
<1>13. /\ DOMAIN t = audience_map
       /\ \A a \in audience_map :
            /\ t[a] = NoToken \/ t[a].audience = a
            /\ token[a] # NoToken => t[a] # NoToken
            /\ c.op = "token" /\ c.token.audience = a => t[a] # NoToken
  <2>1. CASE c.op = "token" /\ SetToken(c.token)
    <3>1. t = [token EXCEPT ![c.token.audience] = c.token]
      BY Zenon, <1>12, <2>1 DEF SetToken
    <3>2. /\ DOMAIN t = audience_map /\ t[c.token.audience] = c.token
          /\ \A a \in audience_map : a # c.token.audience => t[a] = token[a]
      BY Zenon, <1>9, <1>11, <2>1, <3>1
    <3>3. c.token # NoToken
      <4>1. NoToken.audience = NoAudience
        BY DEF NoToken
      <4> QED BY Zenon, <1>9, <1>10, <2>1, <4>1
    <3> QED BY Zenon, <1>11, <3>2, <3>3
  <2>2. CASE c.op = "listen" /\ token' = token
    <3>1. c.op # "token"
      BY <2>2
    <3> QED BY Zenon, <1>11, <1>12, <2>2, <3>1
  <2> QED BY Zenon, <1>2, <1>5, <2>1, <2>2
<1>14. TokensInv'
  <2>1. Closure' = Closure
    BY Zenon, <1>4 DEF Closure
  <2>2. fetched \in [Subscribers -> Nat]
    BY Zenon, <1>1 DEF TokensInv
  <2> QED BY Zenon, <1>2, <1>4, <1>5, <1>8, <1>12, <1>13, <2>1, <2>2 DEF TokensInv, NoToken
<1>15. ASSUME serviceInfo.credentials \in {"imds", "iam"}
       PROVE /\ \A a \in audience_map : fetched[a] > 0 => Arrives(rest, a, n)'
             /\ ListenLast(rest)'
             /\ listening' => \A a \in audience_map : t[a] # NoToken
  <2>1. /\ \A a \in audience_map : fetched[a] > 0 => Arrives(q, a, n + 1)
        /\ \A i \in 1..(n + 1) : q[i].op = "listen" => \A a \in audience_map : Arrives(q, a, i)
        /\ listening => \A a \in audience_map : token[a] # NoToken
    BY Zenon, <1>1, <1>5, <1>7, <1>15 DEF ReadyInv, ListenLast
  <2>2. ASSUME NEW a \in audience_map, NEW i \in 0..n, Arrives(q, a, i + 1)
        PROVE Arrives(rest, a, i)'
    <3>1. CASE token[a] # NoToken
      BY Zenon, <1>12, <1>13, <3>1 DEF Arrives, NoToken
    <3>2. CASE \E j \in 1..(i + 1) : q[j].op = "token" /\ q[j].token.audience = a
      <4>1. PICK j \in 1..(i + 1) : q[j].op = "token" /\ q[j].token.audience = a
        BY Zenon, <3>2
      <4>2. CASE j = 1
        BY Zenon, <1>8, <1>12, <1>13, <4>1, <4>2 DEF Arrives, NoToken
      <4>3. CASE j # 1
        <5>1. PICK k \in 1..i : j = k + 1 /\ k \in 1..n
          <6>1. j - 1 \in 1..i /\ j - 1 \in 1..n /\ j = (j - 1) + 1
            BY <4>3
          <6> QED BY Zenon, <6>1
        <5>2. rest[k].op = "token" /\ rest[k].token.audience = a
          BY Zenon, <1>8, <4>1, <5>1
        <5> QED BY Zenon, <5>1, <5>2 DEF Arrives
      <4> QED BY Zenon, <4>2, <4>3
    <3> QED BY Zenon, <2>2, <3>1, <3>2 DEF Arrives
  <2>3. \A a \in audience_map : fetched[a] > 0 => Arrives(rest, a, n)'
    <3>1. n \in 0..n
      OBVIOUS
    <3> QED BY Zenon, <2>1, <2>2, <3>1
  <2>4. ListenLast(rest)'
    <3>1. \A i \in 1..n : i \in 0..n
      OBVIOUS
    <3>2. ASSUME NEW i \in 1..n, rest[i].op = "listen", NEW a \in audience_map
          PROVE Arrives(rest, a, i)'
      BY Zenon, <1>8, <2>1, <2>2, <3>1, <3>2
    <3>3. Len(rest)' = n /\ audience_map' = audience_map
      BY Zenon, <1>4, <1>7
    <3> QED BY Zenon, <3>2, <3>3 DEF ListenLast
  <2>5. listening' => \A a \in audience_map : t[a] # NoToken
    <3>1. CASE c.op = "listen"
      <4>1. 1 \in 1..(n + 1)
        OBVIOUS
      <4>2. ASSUME NEW a \in audience_map PROVE t[a] # NoToken
        <5>1. Arrives(q, a, 1)
          BY Zenon, <1>8, <2>1, <3>1, <4>1
        <5>2. \A j \in 1..1 : j = 1
          OBVIOUS
        <5>3. c.op # "token"
          BY <3>1
        <5> QED BY Zenon, <1>8, <1>13, <5>1, <5>2, <5>3 DEF Arrives
      <4> QED BY Zenon, <4>2
    <3>2. CASE c.op # "listen"
      BY Zenon, <1>2, <1>5, <1>13, <2>1, <3>2
    <3> QED BY Zenon, <3>1, <3>2
  <2> QED BY Zenon, <2>3, <2>4, <2>5
<1>16. ReadyInv'
  <2>1. Len(posted') = n
    BY Zenon, <1>5, <1>7
  <2> QED BY Zenon, <1>2, <1>4, <1>5, <1>12, <1>15, <2>1 DEF ReadyInv, NoToken
<1> QED BY Zenon, <1>3, <1>14, <1>16 DEF FiltersInv


-----------------------------------------------------------------------------
(* Requests *)

\* A method that matches is that of a rule of the service.
LEMMA RuleOfService ==
  ASSUME ConfigInv, TrieInv, NEW rq, NEW d \in BestOf(rq)
  PROVE RuleOf(d) \in Rules /\ \E i \in DOMAIN rules : RuleOf(d) = rules[i]
<1>1. d \in DOMAIN methods
  BY Zenon DEF BestOf, BestMatches, Matches
<1>2. calls \in Seq(Rules) /\ methods[d].method \in DOMAIN calls
  BY Zenon, <1>1 DEF TrieInv, MethodsInv
<1>3. rules \in Seq(Rules)
  BY Zenon, ServiceInfosAssumption DEF rules, serviceInfo, ConfigInv
<1>4. Len(calls) <= Len(rules) /\ \A c \in 1..Len(calls) : calls[c] = rules[c]
  BY Zenon DEF ConfigInv
<1>5. PICK i : i = methods[d].method
  BY Zenon
<1>6. calls[i] \in Rules /\ i \in DOMAIN rules /\ calls[i] = rules[i]
  BY <1>2, <1>3, <1>4, <1>5
<1> QED BY Zenon, <1>5, <1>6 DEF RuleOf

\* What the requests do not change.
LEMMA StreamOnly ==
  ASSUME FiltersInv, UNCHANGED <<info, vars, config, fetched, posted, listening, token>>,
         listening
  PROVE /\ ConfigInv' /\ TrieInv' /\ TokensInv' /\ ReadyInv'
        /\ info' = info /\ UNCHANGED vars /\ listening'
<1>1. ConfigInv /\ TrieInv /\ TokensInv /\ ReadyInv
  BY Zenon DEF FiltersInv
<1>2. /\ info' = info /\ UNCHANGED vars /\ config' = config /\ listening' = listening
      /\ UNCHANGED <<fetched, posted, token>>
  OBVIOUS
<1>3. config = "loaded"
  BY Zenon, <1>1 DEF ConfigInv
<1>4. listening'
  BY <1>2
<1>5. ConfigInv' /\ TrieInv'
  BY Zenon, <1>1, <1>2, <1>3, SameMatcher, ConfigStays
<1>6. TokensInv' /\ ReadyInv'
  BY Zenon, <1>1, <1>2, TokensStay
<1> QED BY Zenon, <1>2, <1>4, <1>5, <1>6

\* A request is matched.
LEMMA PathMatcherDecodeHeadersRight ==
  ASSUME FiltersInv, NEW rq \in HttpRequests, PathMatcherDecodeHeaders(rq)
  PROVE FiltersInv'
<1>1. ConfigInv /\ TrieInv
  BY Zenon DEF FiltersInv
<1>2. PICK d : d = Lookup(MethodWithOverride(rq), rq.path)
  BY Zenon
<1>3. /\ listening
      /\ UNCHANGED <<info, vars, config, fetched, posted, listening, token>>
      /\ \/ d = NoData /\ stream' = [phase |-> "rejected", request |-> rq, code |-> 404]
         \/ /\ d # NoData
            /\ stream' = [phase |-> "held", request |-> rq, operation |-> RuleOf(d).operation,
                          query_params |-> QueryParams(d, rq.path)]
  BY Zenon, <1>2 DEF PathMatcherDecodeHeaders, Rejected
<1>4. /\ ConfigInv' /\ TrieInv' /\ TokensInv' /\ ReadyInv'
      /\ info' = info /\ UNCHANGED vars /\ listening'
  BY Zenon, <1>3, StreamOnly
<1>5. /\ d = NoData => BestOf(rq) = {}
      /\ d # NoData => BestOf(rq) = {d}
  BY Zenon, <1>1, <1>2, FoundIsBest
<1>6. BestOf(rq)' = BestOf(rq) /\ RuleOf(d)' = RuleOf(d)
  BY Zenon, <1>4, SameMatcher
<1>7. StreamInv'
  <2>1. CASE d = NoData
    <3>1. NotFound(rq)'
      BY Zenon, <1>3, <1>5, <1>6, <2>1 DEF NotFound
    <3> QED BY Zenon, <1>4, <3>1 DEF StreamInv
  <2>2. CASE d # NoData
    <3>1. d \in BestOf(rq) /\ d \in BestOf(rq)'
      BY Zenon, <1>5, <1>6, <2>2
    <3>2. PICK rule, params : rule = RuleOf(d) /\ params = QueryParams(d, rq.path)
      BY Zenon
    <3>3. rule \in Rules /\ \E i \in DOMAIN rules : rule = rules[i]
      BY Zenon, <1>1, <3>1, <3>2, RuleOfService
    <3>4. ParametersRight(params, rule, rq.path)
      BY Zenon, <1>1, <1>2, <2>2, <3>2, <3>3, QueryParamsRight
    <3>5. ParametersRight(params, rule, rq.path)'
      BY Zenon, <1>4, <3>4, SameRight
    <3>6. stream' = [phase |-> "held", request |-> rq, operation |-> rule.operation,
                     query_params |-> params]
      BY Zenon, <1>3, <2>2, <3>2
    <3>7. stream'.phase = "held" /\ stream'.query_params = params
      BY <3>6
    <3>8. Held(rq, rule)'
      BY Zenon, <3>5, <3>6, <3>7 DEF Held
    <3>9. rule = RuleOf(d)'
      BY Zenon, <1>6, <3>2
    <3> QED BY Zenon, <1>4, <3>1, <3>8, <3>9 DEF StreamInv
  <2> QED BY Zenon, <2>1, <2>2
<1> QED BY Zenon, <1>4, <1>7 DEF FiltersInv

\* A request that was held gets its token and its path, or the answer 500.
LEMMA BackendDecodeHeadersRight == FiltersInv /\ BackendDecodeHeaders => FiltersInv'
<1> SUFFICES ASSUME FiltersInv, BackendDecodeHeaders PROVE FiltersInv'
  OBVIOUS
<1>1. ConfigInv /\ TrieInv /\ TokensInv /\ ReadyInv /\ StreamInv
  BY Zenon DEF FiltersInv
<1>2. /\ stream.phase = "held"
      /\ UNCHANGED <<info, vars, config, fetched, posted, listening, token>>
  BY Zenon DEF BackendDecodeHeaders
<1>3. PICK rq \in HttpRequests : listening /\ \E d \in BestOf(rq) : Held(rq, RuleOf(d))
  <2>1. stream # NoStream
    BY <1>2 DEF NoStream
  <2>2. PICK rq \in HttpRequests :
          /\ listening
          /\ \/ NotFound(rq)
             \/ \E d \in BestOf(rq) : Held(rq, RuleOf(d)) \/ Answered(rq) \/ Sent(rq, RuleOf(d))
    BY Zenon, <1>1, <2>1 DEF StreamInv
  <2>3. ~NotFound(rq) /\ ~Answered(rq)
    BY <1>2 DEF NotFound, Answered
  <2>4. \A rule : ~Sent(rq, rule)
    BY <1>2 DEF Sent
  <2> QED BY Zenon, <2>2, <2>3, <2>4
<1>4. PICK d \in BestOf(rq) : Held(rq, RuleOf(d))
  BY Zenon, <1>3
<1>5. PICK rule, params : rule = RuleOf(d) /\ params = stream.query_params
  BY Zenon
<1>6. /\ stream = [phase |-> "held", request |-> rq, operation |-> rule.operation,
                   query_params |-> params]
      /\ ParametersRight(params, rule, rq.path)
  BY Zenon, <1>4, <1>5 DEF Held
<1>7. stream.request = rq /\ stream.operation = rule.operation
  BY <1>6
<1>8. /\ ConfigInv' /\ TrieInv' /\ TokensInv' /\ ReadyInv'
      /\ info' = info /\ UNCHANGED vars /\ listening'
  BY Zenon, <1>2, <1>3, StreamOnly
<1>9. d \in BestOf(rq)' /\ rule = RuleOf(d)'
  BY Zenon, <1>5, <1>8, SameMatcher
<1>10. PICK sent : sent = Routed(rq, rule.operation, params)
  BY Zenon
<1>11. SentRight(rq, rule, sent)'
  <2>1. SentRight(rq, rule, sent)
    BY Zenon, <1>6, <1>10, RoutedRight
  <2> QED BY Zenon, <1>8, <2>1, SameRight
<1>12. ASSUME NEW x, Forwarded(x), AuthorizationRight(x, rule.operation)
       PROVE StreamInv'
  <2>1. stream' = [phase |-> "forwarded", request |-> rq, operation |-> rule.operation,
                   authorization |-> x, sent |-> sent]
    BY Zenon, <1>5, <1>7, <1>10, <1>12 DEF Forwarded
  <2>2. stream'.phase = "forwarded" /\ stream'.authorization = x /\ stream'.sent = sent
    BY <2>1
  <2>3. AuthorizationRight(x, rule.operation)'
    BY Zenon, <1>8, <1>12, SameRight
  <2>4. Sent(rq, rule)'
    BY Zenon, <1>11, <2>1, <2>2, <2>3 DEF Sent
  <2> QED BY Zenon, <1>8, <1>9, <2>4 DEF StreamInv
<1>13. CASE rule.operation \notin DOMAIN operation_map /\ Forwarded(NoToken)
  <2>1. AuthorizationRight(NoToken, rule.operation)
    BY Zenon, <1>13 DEF AuthorizationRight
  <2> QED BY Zenon, <1>8, <1>12, <1>13, <2>1 DEF FiltersInv
<1>14. CASE rule.operation \in DOMAIN operation_map
  <2>1. PICK a : a = operation_map[rule.operation] /\ a \in audience_map
    BY Zenon, <1>14 DEF audience_map
  <2>2. token[a] = NoToken \/ token[a].audience = a
    BY Zenon, <1>1, <2>1 DEF TokensInv
  <2>3. CASE token[a] # NoToken /\ Forwarded(token[a])
    <3>1. AuthorizationRight(token[a], rule.operation)
      BY Zenon, <1>14, <2>1, <2>2, <2>3 DEF AuthorizationRight
    <3> QED BY Zenon, <1>8, <1>12, <2>3, <3>1 DEF FiltersInv
  <2>4. CASE token[a] = NoToken /\ Rejected(rq, 500)
    <3>1. serviceInfo.credentials \notin {"imds", "iam"}
      BY Zenon, <1>1, <1>3, <2>1, <2>4 DEF ReadyInv
    <3>2. serviceInfo' = serviceInfo
      BY Zenon, <1>8, SameService
    <3>3. Answered(rq)'
      BY Zenon, <2>4, <3>1, <3>2 DEF Answered, Rejected
    <3> QED BY Zenon, <1>8, <1>9, <3>3 DEF StreamInv, FiltersInv
  <2> QED BY Zenon, <1>7, <1>14, <2>1, <2>3, <2>4 DEF BackendDecodeHeaders
<1> QED BY Zenon, <1>7, <1>13, <1>14 DEF BackendDecodeHeaders


-----------------------------------------------------------------------------
(* The theorems *)

\* Without a step nothing changes.
LEMMA FiltersStay == FiltersInv /\ UNCHANGED filterVars => FiltersInv'
<1> SUFFICES ASSUME FiltersInv, UNCHANGED filterVars PROVE FiltersInv'
  OBVIOUS
<1>1. ConfigInv /\ TrieInv /\ TokensInv /\ ReadyInv /\ StreamInv
  BY Zenon DEF FiltersInv
<1>2. /\ info' = info /\ UNCHANGED vars /\ config' = config /\ listening' = listening
      /\ stream' = stream /\ posted' = posted /\ UNCHANGED <<fetched, posted, token>>
  BY DEF filterVars
<1>3. rules' = rules /\ calls' = calls
  BY Zenon, <1>2, SameService DEF vars
<1>4. ConfigInv'
  BY Zenon, <1>1, <1>2, <1>3 DEF ConfigInv, NoStream
<1>5. listening => listening'
  BY Zenon, <1>2
<1>6. TrieInv' /\ StreamInv'
  BY Zenon, <1>1, <1>2, <1>5, SameMatcher, StreamStays
<1>7. TokensInv' /\ ReadyInv'
  BY Zenon, <1>1, <1>2, TokensStay
<1> QED BY Zenon, <1>4, <1>6, <1>7 DEF FiltersInv

\* The inductive invariant of the filters: rules are registered before anything is
\* served, a slot has only tokens of its audience, the first of them are posted
\* before the closure that lets the worker listen, and a stream is in the phase
\* that its request asks for.
THEOREM FiltersAreRight == FiltersSpec => []FiltersInv
<1>1. FiltersInit => FiltersInv
  BY Zenon, InitFilters
<1>2. FiltersInv /\ [FiltersNext]_filterVars => FiltersInv'
  <2> SUFFICES ASSUME FiltersInv, [FiltersNext]_filterVars PROVE FiltersInv'
    OBVIOUS
  <2>1. CASE LoadRule
    BY Zenon, <2>1, LoadRuleRight
  <2>2. CASE BuildMatcher
    BY Zenon, <2>2, BuildMatcherRight
  <2>3. CASE RunPosted
    BY Zenon, <2>3, RunPostedRight
  <2>4. CASE BackendDecodeHeaders
    BY Zenon, <2>4, BackendDecodeHeadersRight
  <2>5. CASE Refused
    BY Zenon, <2>5, FiltersStay DEF Refused
  <2>6. ASSUME NEW s \in Subscribers, Fetch(s) PROVE FiltersInv'
    BY Zenon, <2>6, FetchRight
  <2>7. ASSUME NEW rq \in HttpRequests, PathMatcherDecodeHeaders(rq) PROVE FiltersInv'
    BY Zenon, <2>7, PathMatcherDecodeHeadersRight
  <2>8. CASE UNCHANGED filterVars
    BY Zenon, <2>8, FiltersStay
  <2> QED BY Zenon, <2>1, <2>2, <2>3, <2>4, <2>5, <2>6, <2>7, <2>8 DEF FiltersNext
<1> QED BY <1>1, <1>2, PTL DEF FiltersSpec

\* What the invariant says of a request that was answered or forwarded.
LEMMA OfStream ==
  ASSUME FiltersInv
  PROVE /\ stream.phase = "rejected" =>
             \E rq \in HttpRequests : NotFound(rq) \/ (BestOf(rq) # {} /\ Answered(rq))
        /\ stream.phase = "forwarded" =>
             \E rq \in HttpRequests : \E d \in BestOf(rq) : Sent(rq, RuleOf(d))
<1>1. stream.phase = "rejected" \/ stream.phase = "forwarded" =>
        stream # NoStream /\ \A rule, rq : ~Held(rq, rule)
  BY DEF NoStream, Held
<1>2. \A rule, rq : stream.phase = "rejected" => ~Sent(rq, rule)
  BY DEF Sent
<1>3. \A rq : stream.phase = "forwarded" => ~NotFound(rq) /\ ~Answered(rq)
  BY DEF NotFound, Answered
<1>4. ASSUME stream # NoStream
      PROVE \E rq \in HttpRequests :
              \/ NotFound(rq)
              \/ \E d \in BestOf(rq) : Held(rq, RuleOf(d)) \/ Answered(rq) \/ Sent(rq, RuleOf(d))
  BY Zenon, <1>4 DEF FiltersInv, StreamInv
<1>5. ASSUME stream.phase = "rejected"
      PROVE \E rq \in HttpRequests : NotFound(rq) \/ (BestOf(rq) # {} /\ Answered(rq))
  BY Zenon, <1>1, <1>2, <1>4, <1>5
<1>6. ASSUME stream.phase = "forwarded"
      PROVE \E rq \in HttpRequests : \E d \in BestOf(rq) : Sent(rq, RuleOf(d))
  BY Zenon, <1>1, <1>3, <1>4, <1>6
<1> QED BY Zenon, <1>5, <1>6

\* A request is answered 404 exactly when no template matches it; a forwarded one is
\* at the address of the best template's operation, with each parameter once.
THEOREM ParametersAlwaysOnce == FiltersSpec => []BackendSeesParametersOnce
<1>1. FiltersInv => BackendSeesParametersOnce
  <2> SUFFICES ASSUME FiltersInv PROVE BackendSeesParametersOnce
    OBVIOUS
  <2>1. \A rq : BestRules(rq) = {RuleOf(d) : d \in BestOf(rq)}
    BY Zenon DEF BestRules, BestOf
  <2>2. ASSUME stream.phase = "rejected" PROVE stream.code = 404 <=> BestRules(stream.request) = {}
    <3>1. PICK rq \in HttpRequests : NotFound(rq) \/ (BestOf(rq) # {} /\ Answered(rq))
      BY Zenon, <2>2, OfStream
    <3>2. CASE NotFound(rq)
      <4>1. stream.request = rq /\ stream.code = 404
        BY <3>2 DEF NotFound
      <4> QED BY Zenon, <2>1, <3>2, <4>1 DEF NotFound
    <3>3. CASE BestOf(rq) # {} /\ Answered(rq)
      <4>1. stream.request = rq /\ stream.code # 404
        BY <3>3 DEF Answered
      <4> QED BY Zenon, <2>1, <3>3, <4>1
    <3> QED BY Zenon, <3>1, <3>2, <3>3
  <2>3. ASSUME stream.phase = "forwarded"
        PROVE \E rule \in BestRules(stream.request) : SentRight(stream.request, rule, stream.sent)
    <3>1. PICK rq \in HttpRequests : \E d \in BestOf(rq) : Sent(rq, RuleOf(d))
      BY Zenon, <2>3, OfStream
    <3>2. PICK d \in BestOf(rq) : Sent(rq, RuleOf(d))
      BY Zenon, <3>1
    <3>3. PICK rule : rule = RuleOf(d)
      BY Zenon
    <3>4. Sent(rq, rule) /\ rule \in BestRules(rq)
      BY Zenon, <2>1, <3>2, <3>3
    <3>5. stream.request = rq
      BY <3>4 DEF Sent
    <3> QED BY Zenon, <3>4, <3>5 DEF Sent
  <2> QED BY Zenon, <2>2, <2>3 DEF BackendSeesParametersOnce, SentRight
<1> QED BY <1>1, FiltersAreRight, PTL

\* A forwarded request carries a token exactly when the backend of its operation
\* asks for one, and then one of that backend's audience.
THEOREM TokenAlwaysOfItsAudience == FiltersSpec => []TokenOfItsAudience
<1>1. FiltersInv => TokenOfItsAudience
  <2> SUFFICES ASSUME FiltersInv, stream.phase = "forwarded", serviceInfo.credentials # "iam_secret"
               PROVE \E rule \in BestRules(stream.request) :
                       stream.authorization.audience =
                         IF rule.operation \in DOMAIN backend THEN backend[rule.operation].audience
                         ELSE NoAudience
    BY Zenon DEF TokenOfItsAudience
  <2>1. PICK rq \in HttpRequests : \E d \in BestOf(rq) : Sent(rq, RuleOf(d))
    BY Zenon, OfStream
  <2>2. PICK d \in BestOf(rq) : Sent(rq, RuleOf(d))
    BY Zenon, <2>1
  <2>3. PICK rule, x : rule = RuleOf(d) /\ x = stream.authorization
    BY Zenon
  <2>4. Sent(rq, rule) /\ rule \in BestRules(rq)
    BY Zenon, <2>2, <2>3 DEF BestRules, BestOf
  <2>5. stream.request = rq
    BY <2>4 DEF Sent
  <2>6. AuthorizationRight(x, rule.operation)
    BY Zenon, <2>3, <2>4 DEF Sent
  <2>7. x.audience = IF rule.operation \in DOMAIN backend THEN backend[rule.operation].audience
                     ELSE NoAudience
    <3>1. CASE rule.operation \in DOMAIN operation_map
      <4>1. rule.operation \in DOMAIN backend
            /\ operation_map[rule.operation] = backend[rule.operation].audience
        BY Zenon, <3>1 DEF operation_map
      <4> QED BY Zenon, <2>6, <3>1, <4>1 DEF AuthorizationRight
    <3>2. CASE rule.operation \notin DOMAIN operation_map
      <4>1. x.audience = NoAudience
        <5>1. NoToken.audience = NoAudience
          BY DEF NoToken
        <5> QED BY Zenon, <2>6, <3>2, <5>1 DEF AuthorizationRight
      <4>2. rule.operation \in DOMAIN backend => backend[rule.operation].audience = NoAudience
        BY Zenon, <3>2 DEF operation_map
      <4> QED BY Zenon, <4>1, <4>2
    <3> QED BY Zenon, <3>1, <3>2
  <2> QED BY Zenon, <2>3, <2>4, <2>5, <2>7
<1> QED BY <1>1, FiltersAreRight, PTL

\* With subscribers no request is answered 500 for want of a token: the worker does
\* not listen before it has one of each audience.
THEOREM TokensNeverMissing == FiltersSpec => []NoMissingTokens
<1>1. FiltersInv => NoMissingTokens
  <2> SUFFICES ASSUME FiltersInv, serviceInfo.credentials \in {"imds", "iam"}, stream.phase = "rejected"
               PROVE stream.code # 500
    BY Zenon DEF NoMissingTokens
  <2>1. PICK rq \in HttpRequests : NotFound(rq)
    BY Zenon, OfStream DEF Answered
  <2> QED BY <2>1 DEF NotFound
<1> QED BY <1>1, FiltersAreRight, PTL

=============================================================================
