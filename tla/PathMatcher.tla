---------------------------- MODULE PathMatcher ----------------------------
(***************************************************************************)
(* The path matcher: HTTP templates are parsed and registered in a trie,   *)
(* and the method of a request is looked up in it, with the values its     *)
(* path gives to the variables of the template.                            *)
(*                                                                         *)
(* The text of a path segment is the sequence of its pieces between        *)
(* colons: "a" is <<"a">> and "a:v" is <<"a", "v">>.  A template is a      *)
(* sequence of items and a verb.  An item is a plain segment (its field is *)
(* NoField) or a variable over several segments; {x} is written {x=*}.  An *)
(* item without segments stands for text that the parser rejects.          *)
(***************************************************************************)
EXTENDS Integers, Sequences

CONSTANTS
  Rules,       \* what can be registered: records [http_method, template]
  Requests,    \* request paths, sequences of segment texts, the query removed
  Methods,     \* HTTP methods of requests
  NoField,     \* an item that is no variable
  NoVerb,      \* a template without a custom verb
  MaxRegister  \* bound on the calls of Register

ASSUME RegisterBoundAssumption == MaxRegister \in Nat

VARIABLES
  trie,          \* the nodes, each named by its keys from the root: result_map_
  custom_verbs,  \* custom_verbs_
  methods,       \* methods_
  calls          \* the rules given to Register so far

vars == <<trie, custom_verbs, methods, calls>>

kSingleParameterKey == <<"/.">>
kWildCardPathPartKey == <<"*">>
kWildCardPathKey == <<"**">>
Wildcards == {kSingleParameterKey, kWildCardPathPartKey, kWildCardPathKey}
HttpMethod_WILD_CARD == "*"
NoData == 0

-----------------------------------------------------------------------------
(* Templates *)

\* What the parser knows after an item: the segments so far, and the variables
\* with the 0-based ranges of the segments they bind to.
ParseItem(parsed, item) ==
  LET segments == parsed.segments \o item.segments
      variable == [field_path |-> item.field,
                   start_segment |-> Len(parsed.segments),
                   end_segment |-> Len(segments),
                   has_wildcard_path |-> \E i \in DOMAIN item.segments :
                                           item.segments[i] = kWildCardPathKey]
  IN [segments |-> segments,
      variables |-> IF item.field = NoField THEN parsed.variables
                    ELSE Append(parsed.variables, variable)]

NothingParsed == [segments |-> <<>>, variables |-> <<>>]

ParsedItems(items) ==
  LET parsed[i \in 0..Len(items)] ==
        IF i = 0 THEN NothingParsed ELSE ParseItem(parsed[i - 1], items[i])
  IN parsed

Parsed(t) == ParsedItems(t.items)[Len(t.items)]

\* segments_ of a parsed template
Segments(t) == Parsed(t).segments

\* ParseTemplate succeeds. "/" is a template, but a verb needs a segment.
ParseTemplate(t) ==
  /\ \A i \in DOMAIN t.items : t.items[i].segments # <<>>
  /\ t.items = <<>> => t.verb = NoVerb

\* Only constant segments after "**".
ValidateParts(segments) ==
  \A i, j \in DOMAIN segments :
    i < j /\ segments[i] = kWildCardPathKey => segments[j] \notin Wildcards

\* Mutant of EndSegment: the verb is not counted.
EndSegmentWithoutVerb(t, var) ==
  IF var.has_wildcard_path THEN var.end_segment - Len(Segments(t)) - 1 ELSE var.end_segment

\* PostProcessVariables: after "**" the end is relative to the end of the path,
\* where a verb is one more segment.
EndSegment(t, var) ==
  IF var.has_wildcard_path
  THEN var.end_segment - Len(Segments(t)) - 1 - (IF t.verb = NoVerb THEN 0 ELSE 1)
  ELSE var.end_segment

\* variables_ of a parsed template
Variables(t) ==
  LET variables == Parsed(t).variables
  IN [k \in DOMAIN variables |->
        [variables[k] EXCEPT !.end_segment = EndSegment(t, variables[k])]]

\* TransformHttpTemplate: the keys from the root to the node of a template.
PathInfo(t) == Segments(t) \o (IF t.verb = NoVerb THEN <<>> ELSE <<<<t.verb>>>>)

IsSequence(s) == s \in Seq({s[i] : i \in DOMAIN s})

\* The text of a segment holds no "/", so no segment and no verb is
\* kSingleParameterKey, and a verb is not empty (ParseLiteral). ParseVerb would
\* take ":*" and ":**"; the grammar has literal verbs only, and behind "**" it
\* matters.
ASSUME RulesAssumption ==
  \A rule \in Rules :
    LET t == rule.template IN
    /\ IsSequence(t.items)
    /\ \A i \in 1..Len(t.items) : t.items[i].segments \in Seq(Seq(STRING) \ {kSingleParameterKey})
    /\ t.verb # NoVerb => t.verb \in STRING \ {"", "/."}
    /\ (\E i \in DOMAIN Segments(t) : Segments(t)[i] = kWildCardPathKey) => t.verb \notin {"*", "**"}

\* A text between two "/" has at least one piece.
ASSUME RequestsAssumption == \A path \in Requests : path \in Seq(Seq(STRING) \ {<<>>})

-----------------------------------------------------------------------------
(* Lookup *)

Last(seq) == seq[Len(seq)]
Front(seq) == SubSeq(seq, 1, Len(seq) - 1)

\* The verb of a path: the last segment's text after its last colon.
SplitVerb(path) ==
  LET text == Last(path) IN Front(path) \o <<Front(text), <<Last(text)>>>>

HasCustomVerb(path) == path # <<>> /\ Len(Last(path)) > 1 /\ Last(Last(path)) \in custom_verbs

\* How many parts stay when the empty ones at the end are removed.
Kept(parts) ==
  CHOOSE n \in 0..Len(parts) :
    /\ n > 0 => parts[n] # <<"">>
    /\ \A i \in (n + 1)..Len(parts) : parts[i] = <<"">>

TrimEmpty(parts) == SubSeq(parts, 1, Kept(parts))

ExtractRequestParts(path) ==
  TrimEmpty(IF HasCustomVerb(path) THEN SplitVerb(path) ELSE path)

\* GetResultForHttpMethod
GetResultForHttpMethod(node, http_method) ==
  IF http_method \in DOMAIN trie[node] THEN trie[node][http_method].data
  ELSE IF HttpMethod_WILD_CARD \in DOMAIN trie[node] THEN trie[node][HttpMethod_WILD_CARD].data
  ELSE NoData

\* The first result, or the second if the first is null.
OrElse(first, second) == IF first # NoData THEN first ELSE second

\* The base case of LookupPath: the node, then its "**" child.
ResultAtEnd(node, http_method) ==
  LET child == Append(node, kWildCardPathKey)
  IN OrElse(GetResultForHttpMethod(node, http_method),
            IF child \in DOMAIN trie THEN GetResultForHttpMethod(child, http_method) ELSE NoData)

\* Mutant of WildcardKeys: "**" is tried before "*".
WildcardKeysSwapped == <<kSingleParameterKey, kWildCardPathKey, kWildCardPathPartKey>>

WildcardKeys == <<kSingleParameterKey, kWildCardPathPartKey, kWildCardPathKey>>

\* A wildcard_ node is one that was reached by the key "**".
IsWildcard(node) == node # <<>> /\ Last(node) = kWildCardPathKey

\* LookupPathFromChild: found has the results of LookupPath from current + 1.
LookupPathFromChild(found, node, key) ==
  IF Append(node, key) \in DOMAIN trie THEN found[Append(node, key)] ELSE NoData

\* LookupPath on a node before the end, for the part at current.
LookupPathOfNode(found, node, part) ==
  OrElse(LookupPathFromChild(found, node, part),
         IF IsWildcard(node) THEN found[node]
         ELSE OrElse(LookupPathFromChild(found, node, WildcardKeys[1]),
              OrElse(LookupPathFromChild(found, node, WildcardKeys[2]),
                     LookupPathFromChild(found, node, WildcardKeys[3]))))

\* LookupPath on every node, by the number of parts from current to end.
LookupPath(parts, http_method) ==
  LET found[left \in 0..Len(parts)] ==
        [node \in DOMAIN trie |->
           IF left = 0 THEN ResultAtEnd(node, http_method)
           ELSE LookupPathOfNode(found[left - 1], node, parts[Len(parts) - left + 1])]
  IN found

Lookup(http_method, path) ==
  LET parts == ExtractRequestParts(path)
  IN LookupPath(parts, http_method)[Len(parts)][<<>>]

\* The parts bound to a variable, [start_segment, end_segment) of them.
Binding(var, parts) ==
  LET end == IF var.end_segment >= 0 THEN var.end_segment ELSE Len(parts) + var.end_segment + 1
  IN [field_path |-> var.field_path, value |-> SubSeq(parts, var.start_segment + 1, end)]

\* ExtractBindingsFromPath
ExtractBindingsFromPath(variables, parts) ==
  [k \in DOMAIN variables |-> Binding(variables[k], parts)]

-----------------------------------------------------------------------------
(* Registration *)

NoResults == [m \in {} |-> NoData]

Init ==
  /\ trie = [n \in {<<>>} |-> NoResults]
  /\ custom_verbs = {}
  /\ methods = <<>>
  /\ calls = <<>>

Insertable(rule) ==
  /\ ParseTemplate(rule.template)
  /\ ValidateParts(Segments(rule.template))

\* The nodes from the root to the node of a path.
NodesOf(path) == {SubSeq(path, 1, n) : n \in 0..Len(path)}

\* LookupOrInsertNew along a path.
WithNodes(path) ==
  [n \in DOMAIN trie \cup NodesOf(path) |-> IF n \in DOMAIN trie THEN trie[n] ELSE NoResults]

SetResult(results, http_method, result) ==
  [m \in DOMAIN results \cup {http_method} |->
     IF m = http_method THEN result ELSE results[m]]

\* Register, when the template is inserted.
RegisterNew(rule) ==
  LET path == PathInfo(rule.template) IN
  /\ Insertable(rule)
  /\ rule.http_method \notin DOMAIN WithNodes(path)[path]
  /\ trie' = [WithNodes(path) EXCEPT
                ![path] = SetResult(@, rule.http_method,
                                    [data |-> Len(methods) + 1, is_multiple |-> FALSE])]
  /\ methods' = Append(methods, [method |-> Len(calls) + 1,
                                 variables |-> Variables(rule.template)])
  /\ custom_verbs' = custom_verbs \cup ({rule.template.verb} \ {NoVerb})

\* Register, when the node has a method already: it is marked and kept.
RegisterDuplicate(rule) ==
  LET path == PathInfo(rule.template) IN
  /\ Insertable(rule)
  /\ path \in DOMAIN trie
  /\ rule.http_method \in DOMAIN trie[path]
  /\ trie' = [trie EXCEPT ![path][rule.http_method].is_multiple = TRUE]
  /\ UNCHANGED <<methods, custom_verbs>>

\* Register, when the template does not parse.
RegisterInvalid(rule) ==
  /\ ~Insertable(rule)
  /\ UNCHANGED <<trie, methods, custom_verbs>>

Register(rule) ==
  /\ Len(calls) < MaxRegister
  /\ RegisterNew(rule) \/ RegisterDuplicate(rule) \/ RegisterInvalid(rule)
  /\ calls' = Append(calls, rule)

\* Build moves the trie into the PathMatcher: nothing is registered any more.
Built == Len(calls) = MaxRegister /\ UNCHANGED vars

Next == Built \/ \E rule \in Rules : Register(rule)

Spec == Init /\ [][Next]_vars

-----------------------------------------------------------------------------
(* The reference: which template matches best, without a trie *)

\* The keys of every template that can be registered.
Keys == [t \in {rule.template : rule \in Rules} |-> PathInfo(t)]

\* Where "**" is among the keys, 0 if nowhere.
Star(keys) ==
  IF \E i \in DOMAIN keys : keys[i] = kWildCardPathKey
  THEN CHOOSE i \in DOMAIN keys : keys[i] = kWildCardPathKey ELSE 0

\* The key that part i of n is laid on: before "**" they are counted from the
\* front, after it from the back, and "**" takes the rest.
Position(keys, n, i) ==
  IF Star(keys) = 0 \/ i < Star(keys) THEN i
  ELSE IF i - n + Len(keys) > Star(keys) THEN i - n + Len(keys) ELSE Star(keys)

\* A literal or "*" takes one part, "**" one or more, and also none at the end.
Fits(keys, parts) ==
  LET n == Len(parts) IN
  /\ \/ n = Len(keys)
     \/ n > Len(keys) /\ Star(keys) > 0
     \/ n = Len(keys) - 1 /\ Star(keys) = Len(keys)
  /\ \A i \in 1..n : keys[Position(keys, n, i)] \in {parts[i], kWildCardPathPartKey, kWildCardPathKey}

\* How specific the match of a part is: its literal, "*", or "**". A part after
\* the first in "**" was not looked for among the literals of its node.
Rank(keys, parts, i) ==
  LET n == Len(parts)
      key == keys[Position(keys, n, i)]
      starts == i = 1 \/ Position(keys, n, i - 1) # Position(keys, n, i)
  IN IF key = parts[i] /\ starts THEN 0 ELSE IF key = kWildCardPathPartKey THEN 1 ELSE 2

\* How specific a match is: for each part, then whether a "**" is left over,
\* then whether the method is "*". Smaller is better, the first difference
\* decides.
Ranks(keys, http_method, parts) ==
  LET n == Len(parts) IN
  [i \in 1..(n + 2) |->
     IF i <= n THEN Rank(keys, parts, i)
     ELSE IF i = n + 1 THEN (IF n < Len(keys) THEN 1 ELSE 0)
     ELSE IF http_method = HttpMethod_WILD_CARD THEN 1 ELSE 0]

Better(r, s) == \E i \in DOMAIN r : r[i] < s[i] /\ \A j \in 1..(i - 1) : r[j] = s[j]

RuleOf(d) == calls[methods[d].method]

\* The parts of a path: a text after the last colon is a part of its own if it
\* is the verb of a registered template.
Parts(path) ==
  LET verbs == {RuleOf(d).template.verb : d \in DOMAIN methods} \ {NoVerb} IN
  IF path = <<>> \/ Len(Last(path)) = 1 \/ Last(Last(path)) \notin verbs THEN TrimEmpty(path)
  ELSE Front(path) \o <<Front(Last(path)), <<Last(Last(path))>>>>

\* The registered methods that match, and the best of them.
Matches(http_method, parts) ==
  {d \in DOMAIN methods :
     /\ RuleOf(d).http_method \in {http_method, HttpMethod_WILD_CARD}
     /\ Fits(Keys[RuleOf(d).template], parts)}

RanksOf(d, parts) == Ranks(Keys[RuleOf(d).template], RuleOf(d).http_method, parts)

BestMatches(http_method, parts) ==
  LET matches == Matches(http_method, parts)
  IN {d \in matches : \A e \in matches \ {d} : Better(RanksOf(d, parts), RanksOf(e, parts))}

\* The parts laid on the segments of a parsed variable: Position never falls, so
\* they are next to each other.
MatchedParts(t, var, parts) ==
  LET matched == {n \in DOMAIN parts : Position(Keys[t], Len(parts), n)
                                         \in (var.start_segment + 1)..var.end_segment}
  IN IF matched = {} THEN <<>>
     ELSE SubSeq(parts, CHOOSE n \in matched : \A m \in matched : n <= m,
                        CHOOSE n \in matched : \A m \in matched : m <= n)

\* The variable is behind "**", where its segments have no fixed index.
BehindWildcard(t, var) == \E i \in 1..var.start_segment : Segments(t)[i] = kWildCardPathKey

-----------------------------------------------------------------------------
(* Properties *)

\* Of the templates that name the same node for the same method the first stays.
FirstStays ==
  \A c \in DOMAIN calls :
    Insertable(calls[c]) =>
      \E d \in DOMAIN methods :
        /\ methods[d].method <= c
        /\ RuleOf(d).http_method = calls[c].http_method
        /\ Keys[RuleOf(d).template] = Keys[calls[c].template]

\* The depth-first search finds the most specific registered template that
\* matches, in whatever order the templates and their verbs were registered, and
\* finds nothing only when none matches: it backtracks from a literal branch that
\* ends without a method, from "*" and from inside "**". Every template that parses
\* counts, or else an earlier one that names the same node.
LookupFindsBest ==
  /\ FirstStays
  /\ \A http_method \in Methods, path \in Requests :
       BestMatches(http_method, Parts(path)) = {Lookup(http_method, path)} \ {NoData}

\* The index arithmetic of the bindings (ends relative to the end of the path,
\* verbs, "**" for no segment) gives each variable exactly the parts that its
\* segments matched. A variable behind "**" is left out: PostProcessVariables
\* keeps its range counted from the front, and it is given other parts.
BindingsAreMatchedParts ==
  \A http_method \in Methods, path \in Requests :
    \A d \in {Lookup(http_method, path)} \ {NoData} :
      LET t == RuleOf(d).template
          variables == Parsed(t).variables
          bindings == ExtractBindingsFromPath(methods[d].variables, ExtractRequestParts(path))
      IN /\ DOMAIN bindings = DOMAIN variables
         /\ \A k \in DOMAIN variables :
              /\ bindings[k].field_path = variables[k].field_path
              /\ ~BehindWildcard(t, variables[k]) =>
                   bindings[k].value = MatchedParts(t, variables[k], Parts(path))

=============================================================================
