------------------------- MODULE PathMatcherProofs -------------------------
(***************************************************************************)
(* Proofs about the path matcher, for any rules, requests and number of    *)
(* registrations: what the parser leaves behind, what the trie holds, that *)
(* the search finds the best match, and what the variables are bound to.   *)
(***************************************************************************)
EXTENDS PathMatcher, TLAPS, WellFoundedInduction

\* A nonempty set of numbers has a least one.
LEMMA LeastNumber ==
  ASSUME NEW T \in SUBSET Nat, T # {}
  PROVE \E m \in T : \A k \in T : m <= k
<1>1. PICK m \in T : \A k \in T : <<k, m>> \notin OpToRel(<, Nat)
  BY Zenon, NatLessThanWellFounded, WFMin
<1>2. \A k \in T : ~(k < m)
  BY Zenon, <1>1 DEF OpToRel
<1> QED BY <1>2

\* A sequence of one element.
LEMMA OneElement ==
  ASSUME NEW S, NEW x \in S
  PROVE <<x>> \in Seq(S)
OBVIOUS

\* Sequences with the same elements are the same.
LEMMA SameElements ==
  ASSUME NEW A, NEW B, NEW a \in Seq(A), NEW b \in Seq(B), Len(a) = Len(b),
         \A j \in 1..Len(a) : a[j] = b[j]
  PROVE a = b
OBVIOUS

\* A sequence that is not empty.
LEMMA NotEmpty ==
  ASSUME NEW S, NEW a \in Seq(S), a # <<>>
  PROVE Len(a) > 1 \/ Len(a) = 1
<1>1. <<>> \in Seq(S) /\ Len(<<>>) = 0 /\ \A j \in 1..0 : FALSE
  OBVIOUS
<1>2. Len(a) # 0
  BY Zenon, <1>1, SameElements
<1>3. PICK n \in Nat : n = Len(a)
  OBVIOUS
<1>4. n # 0 => n > 1 \/ n = 1
  OBVIOUS
<1> QED BY Zenon, <1>2, <1>3, <1>4

-----------------------------------------------------------------------------
(* The parser *)

SegmentText == Seq(STRING) \ {kSingleParameterKey}
Key == SegmentText \cup Wildcards

\* The parser's state after item n, from its states g after the items before.
ParseStep(items, g, n) == IF n = 0 THEN NothingParsed ELSE ParseItem(g[n - 1], items[n])

ParsesTo(items, f, N) == f = [n \in 0..N |-> ParseStep(items, f, n)]

\* The parser gets to the end of the items.
LEMMA ParseLoop ==
  ASSUME NEW items, NEW N \in Nat
  PROVE \E g : ParsesTo(items, g, N)
<1> DEFINE Step(g, n) == ParseStep(items, g, n)
           T == {k \in Nat : ~\E g : g = [n \in 0..k |-> Step(g, n)]}
<1>1. SUFFICES T = {}
  BY Zenon DEF ParsesTo
<1>2. SUFFICES ASSUME T # {} PROVE FALSE
  BY Zenon
<1>3. PICK m \in T : \A k \in T : m <= k
  <2>1. T \in SUBSET Nat
    BY Zenon
  <2> HIDE DEF T
  <2> QED BY Zenon, <1>2, <2>1, LeastNumber
<1>4. ASSUME NEW g, NEW h, NEW n \in Nat, n # 0 => g[n - 1] = h[n - 1] PROVE Step(g, n) = Step(h, n)
  BY Zenon, <1>4 DEF ParseStep
<1>5. \A g : Step(g, 0) = NothingParsed
  BY Zenon DEF ParseStep
<1> HIDE DEF Step
<1>6. CASE m = 0
  <2>1. PICK g : g = [n \in 0..0 |-> NothingParsed]
    BY Zenon
  <2>2. g = [n \in 0..0 |-> Step(g, n)]
    BY <1>5, <2>1
  <2> QED BY Zenon, <1>6, <2>2
<1>7. CASE m # 0
  <2>1. m - 1 \in Nat /\ m - 1 \notin T
    BY <1>3, <1>7
  <2>2. PICK g : g = [n \in 0..(m - 1) |-> Step(g, n)]
    BY Zenon, <2>1
  <2>3. PICK h : h = [n \in 0..m |-> IF n < m THEN g[n] ELSE Step(g, m)]
    BY Zenon
  <2>4. ASSUME NEW n \in 0..m PROVE h[n] = Step(h, n)
    <3>1. n # 0 => g[n - 1] = h[n - 1]
      BY <2>3
    <3>2. Step(g, n) = Step(h, n)
      BY <1>4, <3>1
    <3>3. CASE n < m
      BY <2>2, <2>3, <3>2, <3>3
    <3>4. CASE n = m
      <4>1. h[m] = Step(g, m)
        BY <2>3
      <4> QED BY Zenon, <3>2, <3>4, <4>1
    <3> QED BY <3>3, <3>4
  <2>5. h = [n \in 0..m |-> Step(h, n)]
    BY Zenon, <2>3, <2>4
  <2> QED BY Zenon, <1>3, <2>5
<1> QED BY Zenon, <1>6, <1>7

\* The states the parser goes through.
LEMMA ParseUnfold ==
  ASSUME NEW items, NEW N \in Nat, N = Len(items)
  PROVE ParsesTo(items, ParsedItems(items), N)
<1> DEFINE F == CHOOSE g : ParsesTo(items, g, N)
<1>1. \E g : ParsesTo(items, g, N)
  BY Zenon, ParseLoop
<1>2. ParsesTo(items, F, N)
  BY Zenon, <1>1
<1>3. ParsedItems(items) = F
  BY Zenon DEF ParsedItems, ParseStep, ParsesTo
<1> QED BY Zenon, <1>2, <1>3

\* The range of a variable lies within the segments, and the variable is marked
\* exactly when there is a "**" in that range.
RangeIsRight(segments, var) ==
  /\ var.end_segment \in var.start_segment..Len(segments)
  /\ var.has_wildcard_path <=>
       \E i \in (var.start_segment + 1)..var.end_segment : segments[i] = kWildCardPathKey

Variable(F) ==
  [field_path : F, start_segment : Nat, end_segment : Nat, has_wildcard_path : BOOLEAN]

\* What is true of the parser's state at any time.
ParsedRight(F, parsed) ==
  /\ parsed.segments \in Seq(SegmentText)
  /\ parsed.variables \in Seq(Variable(F))
  /\ \A k \in 1..Len(parsed.variables) : RangeIsRight(parsed.segments, parsed.variables[k])

\* More segments leave the range of a variable alone.
LEMMA RangeStays ==
  ASSUME NEW segments \in Seq(SegmentText), NEW more \in Seq(SegmentText),
         NEW F, NEW var \in Variable(F), RangeIsRight(segments, var)
  PROVE RangeIsRight(segments \o more, var)
<1>1. PICK a \in Nat, b \in Nat : a = var.start_segment /\ b = var.end_segment
  BY DEF Variable
<1>2. b \in a..Len(segments)
  BY Zenon, <1>1 DEF RangeIsRight
<1>3. \A i \in (a + 1)..b : (segments \o more)[i] = segments[i]
  BY <1>2
<1>4. b \in a..Len(segments \o more)
  BY <1>2
<1> QED BY Zenon, <1>1, <1>3, <1>4 DEF RangeIsRight

\* An item is parsed right.
LEMMA ItemParsedRight ==
  ASSUME NEW F, NEW parsed, ParsedRight(F, parsed),
         NEW item, item.field \in F \cup {NoField}, item.segments \in Seq(SegmentText)
  PROVE ParsedRight(F, ParseItem(parsed, item))
<1>1. PICK s \in Seq(SegmentText), more \in Seq(SegmentText), vs \in Seq(Variable(F)) :
        s = parsed.segments /\ more = item.segments /\ vs = parsed.variables
  BY Zenon DEF ParsedRight
<1>2. PICK w \in BOOLEAN : w = \E i \in DOMAIN more : more[i] = kWildCardPathKey
  BY Zenon
<1>3. PICK var : var = [field_path |-> item.field, start_segment |-> Len(s),
                        end_segment |-> Len(s \o more), has_wildcard_path |-> w]
  BY Zenon
<1>4. ParseItem(parsed, item) =
        [segments |-> s \o more,
         variables |-> IF item.field = NoField THEN vs ELSE Append(vs, var)]
  BY Zenon, <1>1, <1>2, <1>3 DEF ParseItem
<1>5. s \o more \in Seq(SegmentText) /\ Len(s \o more) = Len(s) + Len(more)
  OBVIOUS
<1>6. ASSUME item.field # NoField PROVE var \in Variable(F)
  <2>1. item.field \in F
    BY Zenon, <1>6
  <2> QED BY <1>3, <1>5, <2>1 DEF Variable
<1>7. RangeIsRight(s \o more, var)
  <2>1. PICK a \in Nat, b \in Nat : a = Len(s) /\ b = Len(s \o more) /\ b = a + Len(more)
    BY <1>5
  <2>2. b \in a..b
    BY <2>1
  <2>3. \A i \in (a + 1)..b : (s \o more)[i] = more[i - a] /\ i - a \in DOMAIN more
    BY <2>1
  <2>4. \A i \in DOMAIN more : i + a \in (a + 1)..b /\ (s \o more)[i + a] = more[i]
    BY <2>1
  <2>5. w <=> \E i \in (a + 1)..b : (s \o more)[i] = kWildCardPathKey
    BY Zenon, <1>2, <2>3, <2>4
  <2>6. var.start_segment = a /\ var.end_segment = b /\ var.has_wildcard_path = w
    BY Zenon, <1>3, <2>1
  <2> QED BY Zenon, <2>1, <2>2, <2>5, <2>6 DEF RangeIsRight
<1>8. \A k \in 1..Len(vs) : RangeIsRight(s \o more, vs[k])
  <2>1. \A k \in 1..Len(vs) : vs[k] \in Variable(F)
    OBVIOUS
  <2> QED BY Zenon, <1>1, <2>1, RangeStays DEF ParsedRight
<1> DEFINE out == ParseItem(parsed, item)
<1>9. CASE item.field = NoField
  <2>1. out.segments = s \o more /\ out.variables = vs
    BY <1>4, <1>9
  <2> QED BY Zenon, <1>5, <1>8, <2>1 DEF ParsedRight
<1>10. CASE item.field # NoField
  <2>1. PICK V : V = Variable(F)
    BY Zenon
  <2>2. Append(vs, var) \in Seq(V)
    <3>1. vs \in Seq(V) /\ var \in V
      BY Zenon, <1>1, <1>6, <1>10, <2>1
    <3> QED BY <3>1
  <2>3. PICK all \in Seq(V) : all = Append(vs, var)
    BY Zenon, <2>2
  <2>4. \A k \in 1..Len(all) : (k \in 1..Len(vs) /\ all[k] = vs[k]) \/ all[k] = var
    BY <2>3
  <2>5. \A k \in 1..Len(all) : RangeIsRight(s \o more, all[k])
    BY Zenon, <1>7, <1>8, <2>4
  <2>6. out.segments = s \o more /\ out.variables = all
    BY <1>4, <1>10, <2>3
  <2> QED BY Zenon, <1>5, <2>1, <2>3, <2>5, <2>6 DEF ParsedRight
<1> QED BY Zenon, <1>9, <1>10

\* The fields of a template's variables.
Fields(t) == {t.items[i].field : i \in 1..Len(t.items)} \ {NoField}

\* A template is parsed right.
LEMMA TemplateParsedRight ==
  ASSUME NEW t, Len(t.items) \in Nat,
         \A i \in 1..Len(t.items) : t.items[i].segments \in Seq(SegmentText)
  PROVE ParsedRight(Fields(t), Parsed(t))
<1>0. PICK items : items = t.items
  BY Zenon
<1>1. PICK N \in Nat : N = Len(items) /\ items = t.items
  BY Zenon, <1>0
<1>2. PICK f : f = ParsedItems(items) /\ ParsesTo(items, f, N)
  BY <1>1, ParseUnfold
<1> DEFINE F == {items[i].field : i \in 1..N} \ {NoField}
           T == {n \in 0..N : ~ParsedRight(F, f[n])}
<1>3. CASE T = {}
  <2>1. N \in 0..N
    OBVIOUS
  <2>2. ParsedRight(F, f[N])
    BY Zenon, <1>3, <2>1
  <2> QED BY Zenon, <1>1, <1>2, <2>2 DEF Parsed, Fields
<1>4. CASE T # {}
  <2>1. T \in SUBSET Nat
    OBVIOUS
  <2>2. PICK m \in T : \A k \in T : m <= k
    <3> HIDE DEF T
    <3> QED BY Zenon, <1>4, <2>1, LeastNumber
  <2>3. m \in 0..N /\ ~ParsedRight(F, f[m]) /\ f[m] = ParseStep(items, f, m)
    BY Zenon, <1>2, <2>2 DEF ParsesTo
  <2>4. CASE m = 0
    <3>1. f[m] = NothingParsed
      BY Zenon, <2>3, <2>4 DEF ParseStep
    <3>2. NothingParsed.segments \in Seq(SegmentText) /\ NothingParsed.variables \in Seq(Variable(F))
             /\ \A k \in 1..Len(NothingParsed.variables) : FALSE
      BY DEF NothingParsed
    <3> QED BY Zenon, <2>3, <3>1, <3>2 DEF ParsedRight
  <2>5. CASE m # 0
    <3>1. m - 1 \in 0..N /\ m - 1 \notin T /\ m \in 1..N
      <4> HIDE DEF T
      <4> QED BY <2>2, <2>3, <2>5
    <3>2. ParsedRight(F, f[m - 1])
      BY Zenon, <3>1
    <3>3. f[m] = ParseItem(f[m - 1], items[m])
      BY Zenon, <2>3, <2>5 DEF ParseStep
    <3>4. items[m].field \in F \cup {NoField} /\ items[m].segments \in Seq(SegmentText)
      BY Zenon, <1>1, <3>1
    <3> QED BY Zenon, <2>3, <3>2, <3>3, <3>4, ItemParsedRight
  <2> QED BY Zenon, <2>4, <2>5
<1> QED BY Zenon, <1>3, <1>4

-----------------------------------------------------------------------------
(* The keys of a template *)

\* A path of keys that can be in the trie: only literals behind "**".
ValidKeys(keys) == keys \in Seq(SegmentText) /\ ValidateParts(keys)

\* The items of a rule's template.
LEMMA RuleItems ==
  ASSUME NEW rule \in Rules, NEW t, t = rule.template
  PROVE /\ Len(t.items) \in Nat /\ DOMAIN t.items = 1..Len(t.items)
        /\ \A i \in 1..Len(t.items) : t.items[i].segments \in Seq(SegmentText)
<1>1. t.items \in Seq({t.items[i] : i \in DOMAIN t.items})
  BY Zenon, RulesAssumption DEF IsSequence
<1>2. Len(t.items) \in Nat /\ DOMAIN t.items = 1..Len(t.items)
  BY <1>1
<1>3. \A i \in 1..Len(t.items) : t.items[i].segments \in Seq(SegmentText)
  BY Zenon, RulesAssumption DEF SegmentText
<1> QED BY Zenon, <1>2, <1>3

\* The keys of a rule that is inserted are such a path.
LEMMA RuleKeys ==
  ASSUME NEW rule \in Rules
  PROVE /\ Keys[rule.template] = PathInfo(rule.template)
        /\ PathInfo(rule.template) \in Seq(SegmentText)
        /\ Insertable(rule) => ValidKeys(PathInfo(rule.template))
<1>1. PICK t : t = rule.template
  BY Zenon
<1>2. /\ Len(t.items) \in Nat
      /\ \A i \in 1..Len(t.items) : t.items[i].segments \in Seq(SegmentText)
      /\ t.verb # NoVerb => t.verb \in STRING \ {"", "/."}
      /\ (\E i \in DOMAIN Segments(t) : Segments(t)[i] = kWildCardPathKey) => t.verb \notin {"*", "**"}
  BY Zenon, <1>1, RuleItems, RulesAssumption
<1>3. PICK segments \in Seq(SegmentText) : segments = Segments(t)
  BY Zenon, <1>2, TemplateParsedRight DEF ParsedRight, Segments
<1>4. Keys[t] = PathInfo(t)
  BY Zenon, <1>1 DEF Keys
<1>5. CASE t.verb = NoVerb
  <2>1. PathInfo(t) = segments
    BY <1>3, <1>5 DEF PathInfo
  <2> QED BY Zenon, <1>1, <1>3, <1>4, <2>1 DEF Insertable, ValidKeys
<1>6. CASE t.verb # NoVerb
  <2>1. PICK verb \in SegmentText : verb = <<t.verb>>
    <3>1. PICK x \in STRING : x = t.verb /\ x # "/."
      BY Zenon, <1>2, <1>6
    <3>2. <<x>> \in Seq(STRING)
      BY Zenon, OneElement
    <3>3. <<x>> # <<"/.">>
      BY <3>1
    <3> QED BY Zenon, <3>1, <3>2, <3>3 DEF SegmentText, kSingleParameterKey
  <2>2. PathInfo(t) = segments \o <<verb>>
    BY Zenon, <1>3, <1>6, <2>1 DEF PathInfo
  <2>3. segments \o <<verb>> \in Seq(SegmentText)
    OBVIOUS
  <2>4. ASSUME ValidateParts(segments) PROVE ValidateParts(segments \o <<verb>>)
    <3>1. PICK keys \in Seq(SegmentText), n \in Nat :
            /\ keys = segments \o <<verb>> /\ n = Len(segments)
            /\ DOMAIN segments = 1..n /\ DOMAIN keys = 1..(n + 1) /\ keys[n + 1] = verb
            /\ \A i \in 1..n : keys[i] = segments[i]
      <4>1. Len(segments) \in Nat /\ DOMAIN segments = 1..Len(segments)
        OBVIOUS
      <4>2. Len(segments \o <<verb>>) = Len(segments) + 1
        OBVIOUS
      <4>3. DOMAIN (segments \o <<verb>>) = 1..(Len(segments) + 1)
        BY <2>3, <4>2
      <4>4. (segments \o <<verb>>)[Len(segments) + 1] = verb
        BY <2>3, <4>2
      <4>5. \A i \in 1..Len(segments) : (segments \o <<verb>>)[i] = segments[i]
        BY <2>3, <4>2
      <4> QED BY Zenon, <2>3, <4>1, <4>3, <4>4, <4>5
    <3>2. SUFFICES ASSUME NEW i \in 1..(n + 1), NEW j \in 1..(n + 1), i < j, keys[i] = kWildCardPathKey
                   PROVE keys[j] \notin Wildcards
      BY Zenon, <3>1 DEF ValidateParts
    <3>3. i \in 1..n /\ segments[i] = kWildCardPathKey
      BY <3>1, <3>2
    <3>4. CASE j \in 1..n
      BY Zenon, <2>4, <3>1, <3>2, <3>3, <3>4 DEF ValidateParts
    <3>5. CASE j = n + 1
      <4>1. t.verb \notin {"*", "**"} /\ verb # kSingleParameterKey
        BY Zenon, <1>2, <1>3, <3>1, <3>3 DEF SegmentText
      <4>2. verb # kWildCardPathPartKey /\ verb # kWildCardPathKey
        BY <2>1, <4>1 DEF kWildCardPathPartKey, kWildCardPathKey
      <4> QED BY Zenon, <3>1, <3>5, <4>1, <4>2 DEF Wildcards
    <3> QED BY <3>4, <3>5
  <2> QED BY Zenon, <1>1, <1>3, <1>4, <2>2, <2>3, <2>4 DEF Insertable, ValidKeys
<1> QED BY Zenon, <1>5, <1>6

\* s is the one place of "**" among the keys, or 0.
IsStar(keys, s) ==
  /\ s \in 0..Len(keys)
  /\ s > 0 => keys[s] = kWildCardPathKey
  /\ \A i \in 1..Len(keys) : i # s => keys[i] # kWildCardPathKey
  /\ \A i \in 1..Len(keys) : s > 0 /\ i > s => keys[i] \notin Wildcards

\* Star finds it.
LEMMA StarFound ==
  ASSUME NEW keys, ValidKeys(keys)
  PROVE IsStar(keys, Star(keys))
<1>1. PICK L \in Nat : L = Len(keys) /\ DOMAIN keys = 1..L
  BY DEF ValidKeys
<1>2. CASE \E i \in 1..L : keys[i] = kWildCardPathKey
  <2>1. PICK s \in 1..L : s = Star(keys) /\ keys[s] = kWildCardPathKey
    BY Zenon, <1>1, <1>2 DEF Star
  <2>2. ASSUME NEW i \in 1..L, i > s PROVE keys[i] \notin Wildcards
    BY <1>1, <2>1, <2>2 DEF ValidKeys, ValidateParts
  <2>3. ASSUME NEW i \in 1..L, i < s PROVE keys[i] # kWildCardPathKey
    <3>1. kWildCardPathKey \in Wildcards
      BY Zenon DEF Wildcards
    <3> QED BY <1>1, <2>1, <2>3, <3>1 DEF ValidKeys, ValidateParts
  <2>4. ASSUME NEW i \in 1..L, i # s PROVE keys[i] # kWildCardPathKey
    <3>1. kWildCardPathKey \in Wildcards
      BY Zenon DEF Wildcards
    <3>2. i < s \/ i > s
      BY <2>4
    <3> QED BY Zenon, <2>2, <2>3, <3>1, <3>2
  <2>5. s \in 0..L
    OBVIOUS
  <2> QED BY Zenon, <1>1, <2>1, <2>2, <2>4, <2>5 DEF IsStar
<1>3. CASE ~\E i \in 1..L : keys[i] = kWildCardPathKey
  <2>1. Star(keys) = 0
    BY Zenon, <1>1, <1>3 DEF Star
  <2>2. 0 \in 0..L /\ ~(0 > 0)
    OBVIOUS
  <2> QED BY Zenon, <1>1, <1>3, <2>1, <2>2 DEF IsStar
<1> QED BY Zenon, <1>2, <1>3

-----------------------------------------------------------------------------
(* Where the search is *)

\* Keys of this length can be laid on N parts.
Lengths(keys, N) ==
  \/ N = Len(keys)
  \/ N > Len(keys) /\ Star(keys) > 0
  \/ N = Len(keys) - 1 /\ Star(keys) = Len(keys)

\* The node v is where the keys are after i of N parts.
Reaches(keys, N, i, v) ==
  /\ Position(keys, N, i) = Len(v)
  /\ Len(v) <= Len(keys)
  /\ \A j \in 1..Len(v) : v[j] = keys[j]

\* The node v can be reached with i parts: "**" alone takes more than one.
Reachable(v, i) ==
  /\ Len(v) <= i
  /\ Len(v) = i \/ \E j \in 1..Len(v) : v[j] = kWildCardPathKey

\* The step from v to a child: where the keys were before it.
LEMMA StepDown ==
  ASSUME NEW keys, ValidKeys(keys), NEW N \in Nat, Lengths(keys, N), NEW i \in Nat, i < N,
         NEW v \in Seq(Key), Reachable(v, i), NEW key \in Key,
         Reaches(keys, N, i + 1, Append(v, key))
  PROVE /\ Reaches(keys, N, i, v)
        /\ Position(keys, N, i + 1) = Len(v) + 1
        /\ Len(v) + 1 \in 1..Len(keys)
        /\ keys[Len(v) + 1] = key
<1>1. PICK s \in Nat, L \in Nat, c \in Nat :
        s = Star(keys) /\ L = Len(keys) /\ c = Len(v) /\ s <= L /\ IsStar(keys, s)
  <2>1. IsStar(keys, Star(keys))
    BY Zenon, StarFound
  <2>2. Len(keys) \in Nat /\ Len(v) \in Nat
    BY DEF ValidKeys
  <2>3. Star(keys) \in Nat /\ Star(keys) <= Len(keys)
    BY <2>1, <2>2 DEF IsStar
  <2> QED BY Zenon, <2>1, <2>2, <2>3
<1>2. /\ Len(Append(v, key)) = c + 1
      /\ Append(v, key)[c + 1] = key
      /\ \A j \in 1..c : Append(v, key)[j] = v[j]
  BY <1>1
<1>3. /\ Position(keys, N, i + 1) = c + 1
      /\ c + 1 <= L
      /\ \A j \in 1..(c + 1) : Append(v, key)[j] = keys[j]
  BY Zenon, <1>1, <1>2 DEF Reaches
<1>4. c + 1 \in 1..L /\ keys[c + 1] = key /\ \A j \in 1..c : v[j] = keys[j]
  BY <1>1, <1>2, <1>3
<1>5. c <= i /\ (c # i => \E j \in 1..c : keys[j] = kWildCardPathKey)
  BY Zenon, <1>1, <1>4 DEF Reachable
<1>6. c # i => s \in 1..c
  BY <1>1, <1>3, <1>5 DEF IsStar
<1>7. Position(keys, N, i) = c
  <2>1. \A j : Position(keys, N, j) = IF s = 0 \/ j < s THEN j ELSE IF j - N + L > s THEN j - N + L ELSE s
    BY Zenon, <1>1 DEF Position
  <2>2. N = L \/ (N > L /\ s > 0) \/ (N = L - 1 /\ s = L)
    BY Zenon, <1>1 DEF Lengths
  <2>3. c + 1 = IF s = 0 \/ i + 1 < s THEN i + 1 ELSE IF i + 1 - N + L > s THEN i + 1 - N + L ELSE s
    BY <1>3, <2>1
  <2>4. c = IF s = 0 \/ i < s THEN i ELSE IF i - N + L > s THEN i - N + L ELSE s
    BY <1>3, <1>5, <1>6, <2>2, <2>3
  <2> QED BY Zenon, <2>1, <2>4
<1>8. c <= L
  BY <1>3
<1> QED BY Zenon, <1>1, <1>3, <1>4, <1>7, <1>8 DEF Reaches

\* A node of "**" is a place of "**" among the keys that reach it.
LEMMA WildcardReached ==
  ASSUME NEW keys, ValidKeys(keys), NEW N \in Nat, NEW i \in Nat, NEW v \in Seq(Key),
         IsWildcard(v), Reaches(keys, N, i, v)
  PROVE Len(v) = Star(keys) /\ Len(v) \in 1..Len(keys)
<1>1. PICK c \in Nat, L \in Nat : c = Len(v) /\ L = Len(keys)
  BY DEF ValidKeys
<1>2. c \in 1..c /\ v[c] = kWildCardPathKey
  BY <1>1 DEF IsWildcard, Last
<1>3. c <= L /\ keys[c] = kWildCardPathKey
  BY Zenon, <1>1, <1>2 DEF Reaches
<1>4. c \in 1..L
  BY <1>2, <1>3
<1>5. c = Star(keys)
  BY Zenon, <1>1, <1>3, <1>4, StarFound DEF IsStar
<1> QED BY Zenon, <1>1, <1>4, <1>5

\* A step that stays at v, which is a node of "**".
LEMMA StepStay ==
  ASSUME NEW keys, ValidKeys(keys), NEW N \in Nat, Lengths(keys, N), NEW i \in Nat, i < N,
         NEW v \in Seq(Key), Reachable(v, i), IsWildcard(v), Reaches(keys, N, i + 1, v)
  PROVE /\ Reaches(keys, N, i, v)
        /\ Position(keys, N, i + 1) = Len(v)
        /\ keys[Len(v)] = kWildCardPathKey
        /\ i >= 1
<1>1. i + 1 \in Nat
  OBVIOUS
<1>2. PICK s \in Nat, L \in Nat :
        s = Star(keys) /\ L = Len(keys) /\ s = Len(v) /\ s \in 1..L /\ IsStar(keys, s)
  BY <1>1, WildcardReached, StarFound DEF ValidKeys
<1>3. Position(keys, N, i + 1) = s /\ s <= i
  BY Zenon, <1>2 DEF Reaches, Reachable
<1>4. Position(keys, N, i) = s
  BY <1>2, <1>3 DEF Position
<1>5. keys[s] = kWildCardPathKey /\ i >= 1
  BY <1>2, <1>3 DEF IsStar
<1> QED BY Zenon, <1>2, <1>3, <1>4, <1>5 DEF Reaches

\* From v the keys go down to a child, or stay if v is a node of "**".
LEMMA StepUp ==
  ASSUME NEW keys, ValidKeys(keys), NEW N \in Nat, Lengths(keys, N), NEW i \in Nat, i < N,
         NEW v \in Seq(Key), Reaches(keys, N, i, v)
  PROVE \/ /\ Len(v) + 1 \in 1..Len(keys)
           /\ Reaches(keys, N, i + 1, Append(v, keys[Len(v) + 1]))
           /\ IsWildcard(v) => keys[Len(v) + 1] \notin Wildcards
        \/ IsWildcard(v) /\ Reaches(keys, N, i + 1, v)
<1>1. PICK s \in Nat, L \in Nat, c \in Nat :
        s = Star(keys) /\ L = Len(keys) /\ c = Len(v) /\ s <= L /\ IsStar(keys, s)
  <2>1. IsStar(keys, Star(keys))
    BY Zenon, StarFound
  <2>2. Len(keys) \in Nat /\ Len(v) \in Nat
    BY DEF ValidKeys
  <2>3. Star(keys) \in Nat /\ Star(keys) <= Len(keys)
    BY <2>1, <2>2 DEF IsStar
  <2> QED BY Zenon, <2>1, <2>2, <2>3
<1>2. Position(keys, N, i) = c /\ c <= L /\ \A j \in 1..c : v[j] = keys[j]
  BY Zenon, <1>1 DEF Reaches
<1>3. \/ Position(keys, N, i + 1) = c + 1 /\ c + 1 <= L
      \/ Position(keys, N, i + 1) = c /\ c = s /\ s > 0
  BY <1>1, <1>2 DEF Position, Lengths
<1>4. CASE Position(keys, N, i + 1) = c + 1 /\ c + 1 <= L
  <2>1. c + 1 \in 1..L
    BY <1>4
  <2>2. PICK key \in Key : key = keys[c + 1]
    <3>1. keys[c + 1] \in SegmentText
      BY <1>1, <2>1 DEF ValidKeys
    <3> QED BY Zenon, <3>1 DEF Key
  <2>3. PICK w \in Seq(Key) : /\ w = Append(v, key) /\ Len(w) = c + 1 /\ w[c + 1] = key
                              /\ \A j \in 1..c : w[j] = v[j]
    <3>1. Append(v, key) \in Seq(Key)
      OBVIOUS
    <3>2. Len(Append(v, key)) = c + 1 /\ Append(v, key)[c + 1] = key
      BY <1>1
    <3>3. \A j \in 1..c : Append(v, key)[j] = v[j]
      BY <1>1
    <3> QED BY Zenon, <3>1, <3>2, <3>3
  <2>4. \A j \in 1..(c + 1) : w[j] = keys[j]
    BY <1>2, <2>2, <2>3
  <2>5. Reaches(keys, N, i + 1, w)
    BY Zenon, <1>1, <1>4, <2>3, <2>4 DEF Reaches
  <2>6. ASSUME IsWildcard(v) PROVE key \notin Wildcards
    <3>1. c = s /\ c \in 1..L
      BY Zenon, <1>1, <2>6, WildcardReached
    <3>2. s > 0 /\ c + 1 > s
      BY <3>1
    <3> QED BY Zenon, <1>1, <2>1, <2>2, <3>2 DEF IsStar
  <2> QED BY Zenon, <1>1, <2>1, <2>2, <2>3, <2>5, <2>6
<1>5. CASE Position(keys, N, i + 1) = c /\ c = s /\ s > 0
  <2>1. c \in 1..c /\ v # <<>>
    <3>1. c > 0
      BY <1>5
    <3>2. v = <<>> => Len(v) = 0
      OBVIOUS
    <3> QED BY <1>1, <3>1, <3>2
  <2>2. v[c] = kWildCardPathKey
    BY Zenon, <1>1, <1>2, <1>5, <2>1 DEF IsStar
  <2> QED BY Zenon, <1>1, <1>2, <1>5, <2>1, <2>2 DEF Reaches, IsWildcard, Last
<1> QED BY Zenon, <1>3, <1>4, <1>5

-----------------------------------------------------------------------------
(* What the trie holds *)

KeysOf(d) == Keys[RuleOf(d).template]

MethodData == [method : Nat, variables : {Variables(rule.template) : rule \in Rules}]
Result == [data : Nat, is_multiple : BOOLEAN]

\* Every method is registered by a rule that parses, and keeps its variables.
MethodsInv ==
  /\ methods \in Seq(MethodData)
  /\ calls \in Seq(Rules)
  /\ \A d \in DOMAIN methods :
       /\ methods[d].method \in DOMAIN calls
       /\ Insertable(RuleOf(d))
       /\ methods[d].variables = Variables(RuleOf(d).template)

\* Each method is at the node of its keys, which is there with the nodes above it;
\* a node holds nothing else. The verbs are those of the registered templates.
TrieInv ==
  /\ MethodsInv
  /\ custom_verbs = {RuleOf(d).template.verb : d \in DOMAIN methods} \ {NoVerb}
  /\ <<>> \in DOMAIN trie
  /\ DOMAIN trie \subseteq Seq(Key)
  /\ \A d \in DOMAIN methods :
       /\ NodesOf(KeysOf(d)) \subseteq DOMAIN trie
       /\ RuleOf(d).http_method \in DOMAIN trie[KeysOf(d)]
       /\ trie[KeysOf(d)][RuleOf(d).http_method].data = d
  /\ \A node \in DOMAIN trie : \A m \in DOMAIN trie[node] :
       /\ trie[node][m] \in Result
       /\ \E d \in DOMAIN methods :
            trie[node][m].data = d /\ KeysOf(d) = node /\ RuleOf(d).http_method = m

\* What is known of a registered method.
LEMMA MethodFacts ==
  ASSUME TrieInv, NEW d \in DOMAIN methods
  PROVE /\ RuleOf(d) \in Rules
        /\ d \in Nat /\ d # NoData
        /\ KeysOf(d) = PathInfo(RuleOf(d).template)
        /\ ValidKeys(KeysOf(d))
<1>1. methods \in Seq(MethodData) /\ calls \in Seq(Rules) /\ methods[d].method \in DOMAIN calls
  BY Zenon DEF TrieInv, MethodsInv
<1>2. calls[methods[d].method] \in Rules
  BY <1>1
<1>3. d \in Nat /\ d # NoData
  BY <1>1 DEF NoData
<1>4. RuleOf(d) \in Rules /\ Insertable(RuleOf(d))
  BY Zenon, <1>2 DEF RuleOf, TrieInv, MethodsInv
<1> QED BY Zenon, <1>3, <1>4, RuleKeys DEF KeysOf

-----------------------------------------------------------------------------
(* The methods the search can still find *)

KeysFor(part) == {part, kWildCardPathPartKey, kWildCardPathKey}

\* The parts after the first i fit the keys.
FitsFrom(keys, parts, i) ==
  /\ Lengths(keys, Len(parts))
  /\ \A j \in 1..Len(parts) :
       j > i => keys[Position(keys, Len(parts), j)] \in KeysFor(parts[j])

Candidates(http_method, parts, i, v) ==
  {d \in DOMAIN methods :
     /\ RuleOf(d).http_method \in {http_method, HttpMethod_WILD_CARD}
     /\ FitsFrom(KeysOf(d), parts, i)
     /\ Reaches(KeysOf(d), Len(parts), i, v)}

\* r is better than s among the places after i.
BetterFrom(r, s, i) ==
  \E j \in DOMAIN r : j > i /\ r[j] < s[j] /\ \A k \in 1..(j - 1) : k > i => r[k] = s[k]

\* The result of a search: the best candidate, or nothing if there is none.
Found(result, http_method, parts, i, v) ==
  LET candidates == Candidates(http_method, parts, i, v) IN
  \/ result = NoData /\ candidates = {}
  \/ /\ result \in candidates
     /\ \A e \in candidates \ {result} : BetterFrom(RanksOf(result, parts), RanksOf(e, parts), i)

\* The rank of a child's key.
KeyRank(key, part) == IF key = part THEN 0 ELSE IF key = kWildCardPathPartKey THEN 1 ELSE 2

\* What the ranks of a method are.
LEMMA RanksAre ==
  ASSUME NEW d, NEW parts \in Seq(Key), NEW N \in Nat, N = Len(parts)
  PROVE /\ DOMAIN RanksOf(d, parts) = 1..(N + 2)
        /\ \A i \in 1..N : RanksOf(d, parts)[i] = Rank(KeysOf(d), parts, i)
        /\ RanksOf(d, parts)[N + 1] = IF N < Len(KeysOf(d)) THEN 1 ELSE 0
        /\ RanksOf(d, parts)[N + 2] = IF RuleOf(d).http_method = HttpMethod_WILD_CARD THEN 1 ELSE 0
<1> DEFINE r(i) == IF i <= N THEN Rank(KeysOf(d), parts, i)
                   ELSE IF i = N + 1 THEN (IF N < Len(KeysOf(d)) THEN 1 ELSE 0)
                   ELSE IF RuleOf(d).http_method = HttpMethod_WILD_CARD THEN 1 ELSE 0
<1>1. RanksOf(d, parts) = [i \in 1..(N + 2) |-> r(i)]
  BY Zenon DEF RanksOf, Ranks, KeysOf
<1>2. /\ \A i \in 1..N : r(i) = Rank(KeysOf(d), parts, i)
      /\ r(N + 1) = IF N < Len(KeysOf(d)) THEN 1 ELSE 0
      /\ r(N + 2) = IF RuleOf(d).http_method = HttpMethod_WILD_CARD THEN 1 ELSE 0
  BY SMT
<1> HIDE DEF r
<1>3. DOMAIN RanksOf(d, parts) = 1..(N + 2) /\ \A i \in 1..(N + 2) : RanksOf(d, parts)[i] = r(i)
  BY Zenon, <1>1
<1>4. (\A i \in 1..N : i \in 1..(N + 2)) /\ N + 1 \in 1..(N + 2) /\ N + 2 \in 1..(N + 2)
  OBVIOUS
<1> QED BY Zenon, <1>2, <1>3, <1>4

\* A candidate of a child is one of the node.
LEMMA CandidateDown ==
  ASSUME TrieInv, NEW http_method, NEW parts \in Seq(Key), NEW i \in Nat, i < Len(parts),
         NEW v \in Seq(Key), Reachable(v, i),
         NEW key \in KeysFor(parts[i + 1]), key \in Key,
         NEW d, d \in Candidates(http_method, parts, i + 1, Append(v, key))
  PROVE /\ d \in Candidates(http_method, parts, i, v)
        /\ RanksOf(d, parts)[i + 1] = KeyRank(key, parts[i + 1])
<1>1. PICK N \in Nat : N = Len(parts) /\ i < N /\ i + 1 \in 1..N
  OBVIOUS
<1>2. PICK keys : keys = KeysOf(d) /\ ValidKeys(keys)
  BY Zenon, MethodFacts DEF Candidates
<1>3. FitsFrom(keys, parts, i + 1) /\ Reaches(keys, N, i + 1, Append(v, key)) /\ Lengths(keys, N)
  BY Zenon, <1>1, <1>2 DEF Candidates, FitsFrom
<1>4. PICK c \in Nat : /\ Reaches(keys, N, i, v) /\ Position(keys, N, i + 1) = c + 1
                       /\ keys[c + 1] = key /\ Position(keys, N, i) = c
  <2>1. /\ Reaches(keys, N, i, v)
        /\ Position(keys, N, i + 1) = Len(v) + 1
        /\ keys[Len(v) + 1] = key
    BY <1>1, <1>2, <1>3, StepDown
  <2>2. Len(v) \in Nat
    OBVIOUS
  <2> QED BY Zenon, <2>1, <2>2 DEF Reaches
<1>5. ASSUME NEW j \in 1..N, j > i
      PROVE keys[Position(keys, N, j)] \in KeysFor(parts[j])
  <2>1. j = i + 1 \/ j > i + 1
    BY <1>5
  <2> QED BY Zenon, <1>1, <1>3, <1>4, <2>1 DEF FitsFrom
<1>6. FitsFrom(keys, parts, i)
  BY Zenon, <1>1, <1>3, <1>5 DEF FitsFrom
<1>7. RanksOf(d, parts)[i + 1] = Rank(keys, parts, i + 1)
  BY Zenon, <1>1, <1>2, RanksAre
<1>8. Rank(keys, parts, i + 1) = KeyRank(key, parts[i + 1])
  <2>1. i + 1 - 1 = i /\ c # c + 1
    OBVIOUS
  <2>2. Rank(keys, parts, i + 1) =
          IF key = parts[i + 1] /\ (i + 1 = 1 \/ Position(keys, N, i + 1 - 1) # c + 1) THEN 0
          ELSE IF key = kWildCardPathPartKey THEN 1 ELSE 2
    BY <1>1, <1>4 DEF Rank
  <2>3. Position(keys, N, i + 1 - 1) # c + 1
    BY <1>4, <2>1
  <2> QED BY Zenon, <2>2, <2>3 DEF KeyRank
<1> QED BY Zenon, <1>1, <1>2, <1>4, <1>6, <1>7, <1>8 DEF Candidates

\* A candidate of a node of "**" after the part is one before it.
LEMMA CandidateStay ==
  ASSUME TrieInv, NEW http_method, NEW parts \in Seq(Key), NEW i \in Nat, i < Len(parts),
         NEW v \in Seq(Key), Reachable(v, i), IsWildcard(v),
         NEW d \in Candidates(http_method, parts, i + 1, v)
  PROVE d \in Candidates(http_method, parts, i, v) /\ RanksOf(d, parts)[i + 1] = 2
<1>1. PICK N \in Nat : N = Len(parts) /\ i < N /\ i + 1 \in 1..N
  OBVIOUS
<1>2. PICK keys : keys = KeysOf(d) /\ ValidKeys(keys)
  BY Zenon, MethodFacts DEF Candidates
<1>3. FitsFrom(keys, parts, i + 1) /\ Reaches(keys, N, i + 1, v) /\ Lengths(keys, N)
  BY Zenon, <1>1, <1>2 DEF Candidates, FitsFrom
<1>4. PICK c \in Nat : /\ Reaches(keys, N, i, v) /\ Position(keys, N, i + 1) = c /\ i >= 1
                       /\ keys[c] = kWildCardPathKey /\ Position(keys, N, i) = c
  <2>1. /\ Reaches(keys, N, i, v)
        /\ Position(keys, N, i + 1) = Len(v)
        /\ keys[Len(v)] = kWildCardPathKey
        /\ i >= 1
    BY <1>1, <1>2, <1>3, StepStay
  <2>2. Len(v) \in Nat
    OBVIOUS
  <2> QED BY Zenon, <2>1, <2>2 DEF Reaches
<1>5. ASSUME NEW j \in 1..N, j > i
      PROVE keys[Position(keys, N, j)] \in KeysFor(parts[j])
  <2>1. j = i + 1 \/ j > i + 1
    BY <1>5
  <2> QED BY Zenon, <1>1, <1>3, <1>4, <2>1 DEF FitsFrom, KeysFor
<1>6. FitsFrom(keys, parts, i)
  BY Zenon, <1>1, <1>3, <1>5 DEF FitsFrom
<1>7. RanksOf(d, parts)[i + 1] = Rank(keys, parts, i + 1)
  BY Zenon, <1>1, <1>2, RanksAre
<1>8. Rank(keys, parts, i + 1) = 2
  <2>1. Position(keys, N, i + 1 - 1) = c /\ i + 1 # 1
    BY <1>4
  <2>2. kWildCardPathKey # kWildCardPathPartKey
    BY DEF kWildCardPathKey, kWildCardPathPartKey
  <2> QED BY <1>1, <1>4, <2>1, <2>2 DEF Rank
<1> QED BY Zenon, <1>1, <1>2, <1>4, <1>6, <1>7, <1>8 DEF Candidates

\* The node of a prefix of a method's keys is in the trie.
LEMMA PrefixInTrie ==
  ASSUME TrieInv, NEW d \in DOMAIN methods, NEW w \in Seq(Key), Len(w) <= Len(KeysOf(d)),
         \A j \in 1..Len(w) : w[j] = KeysOf(d)[j]
  PROVE w \in DOMAIN trie
<1>1. PICK keys : keys = KeysOf(d) /\ keys \in Seq(SegmentText) /\ NodesOf(keys) \subseteq DOMAIN trie
  BY Zenon, MethodFacts DEF ValidKeys, TrieInv
<1>2. PICK n \in 0..Len(keys) : n = Len(w)
  BY <1>1
<1>3. w = SubSeq(keys, 1, n)
  BY <1>1, <1>2
<1> QED BY Zenon, <1>1, <1>2, <1>3 DEF NodesOf

\* A candidate of a node is one of a child with its next key, or stays at "**".
LEMMA CandidateUp ==
  ASSUME TrieInv, NEW http_method, NEW parts \in Seq(Key), NEW i \in Nat, i < Len(parts),
         NEW v \in Seq(Key), NEW d \in Candidates(http_method, parts, i, v)
  PROVE \/ \E key \in KeysFor(parts[i + 1]) :
             /\ d \in Candidates(http_method, parts, i + 1, Append(v, key))
             /\ IsWildcard(v) => key = parts[i + 1]
        \/ IsWildcard(v) /\ d \in Candidates(http_method, parts, i + 1, v)
<1>1. PICK N \in Nat : N = Len(parts) /\ i < N /\ i + 1 \in 1..N /\ i + 1 > i
  OBVIOUS
<1>2. PICK keys : keys = KeysOf(d) /\ ValidKeys(keys)
  BY Zenon, MethodFacts DEF Candidates
<1>3. FitsFrom(keys, parts, i) /\ Reaches(keys, N, i, v) /\ Lengths(keys, N)
  BY Zenon, <1>1, <1>2 DEF Candidates, FitsFrom
<1>4. \A j \in 1..N : j > i + 1 => j > i
  OBVIOUS
<1>5. FitsFrom(keys, parts, i + 1)
  BY Zenon, <1>1, <1>3, <1>4 DEF FitsFrom
<1>6. ASSUME NEW w, Reaches(keys, N, i + 1, w) PROVE d \in Candidates(http_method, parts, i + 1, w)
  BY Zenon, <1>1, <1>2, <1>5, <1>6 DEF Candidates
<1>7. \/ /\ Reaches(keys, N, i + 1, Append(v, keys[Len(v) + 1]))
         /\ IsWildcard(v) => keys[Len(v) + 1] \notin Wildcards
      \/ IsWildcard(v) /\ Reaches(keys, N, i + 1, v)
  BY <1>1, <1>2, <1>3, StepUp
<1>8. CASE IsWildcard(v) /\ Reaches(keys, N, i + 1, v)
  BY Zenon, <1>6, <1>8
<1>9. CASE /\ Reaches(keys, N, i + 1, Append(v, keys[Len(v) + 1]))
           /\ IsWildcard(v) => keys[Len(v) + 1] \notin Wildcards
  <2>1. PICK key : key = keys[Len(v) + 1]
    BY Zenon
  <2>2. d \in Candidates(http_method, parts, i + 1, Append(v, key))
    BY Zenon, <1>6, <1>9, <2>1
  <2>3. Position(keys, N, i + 1) = Len(v) + 1
    <3>1. Len(Append(v, key)) = Len(v) + 1
      OBVIOUS
    <3> QED BY Zenon, <1>9, <2>1, <3>1 DEF Reaches
  <2>4. key \in KeysFor(parts[i + 1])
    BY Zenon, <1>1, <1>3, <2>1, <2>3 DEF FitsFrom
  <2>5. IsWildcard(v) => key = parts[i + 1]
    BY Zenon, <1>9, <2>1, <2>4 DEF Wildcards, KeysFor
  <2> QED BY Zenon, <2>2, <2>4, <2>5
<1> QED BY Zenon, <1>7, <1>8, <1>9

\* One more place in front of a comparison.
LEMMA BetterStep ==
  ASSUME NEW r, NEW s, NEW M \in Nat, DOMAIN r = 1..M, NEW i \in Nat, i + 1 \in 1..M,
         r[i + 1] \in Nat, s[i + 1] \in Nat,
         \/ r[i + 1] < s[i + 1]
         \/ r[i + 1] = s[i + 1] /\ BetterFrom(r, s, i + 1)
  PROVE BetterFrom(r, s, i)
<1>1. CASE r[i + 1] < s[i + 1]
  <2>1. PICK n \in 1..M : n = i + 1 /\ n > i /\ \A k \in 1..(n - 1) : ~(k > i)
    OBVIOUS
  <2> QED BY Zenon, <1>1, <2>1 DEF BetterFrom
<1>2. CASE r[i + 1] = s[i + 1] /\ BetterFrom(r, s, i + 1)
  <2>1. PICK j \in 1..M : j > i + 1 /\ r[j] < s[j] /\ \A k \in 1..(j - 1) : k > i + 1 => r[k] = s[k]
    BY Zenon, <1>2 DEF BetterFrom
  <2>2. j > i /\ \A k \in 1..(j - 1) : k > i => k = i + 1 \/ k > i + 1
    BY <2>1
  <2>3. \A k \in 1..(j - 1) : k > i => r[k] = s[k]
    BY Zenon, <1>2, <2>1, <2>2
  <2> QED BY Zenon, <2>1, <2>2, <2>3 DEF BetterFrom
<1> QED BY <1>1, <1>2

-----------------------------------------------------------------------------
(* The search *)

\* Searching on from a child gives the best candidate of the child.
LEMMA FoundFromChild ==
  ASSUME TrieInv, NEW http_method, NEW parts \in Seq(Key), NEW i \in Nat, i < Len(parts),
         NEW found,
         \A w \in DOMAIN trie : Reachable(w, i + 1) => Found(found[w], http_method, parts, i + 1, w),
         NEW v \in DOMAIN trie, Reachable(v, i), NEW key \in Key
  PROVE Found(LookupPathFromChild(found, v, key), http_method, parts, i + 1, Append(v, key))
<1>1. PICK c \in Nat : c = Len(v) /\ v \in Seq(Key)
  BY DEF TrieInv
<1>2. PICK w \in Seq(Key) : w = Append(v, key)
  <2>1. Append(v, key) \in Seq(Key)
    BY <1>1
  <2> QED BY Zenon, <2>1
<1>3. Len(w) = c + 1 /\ \A j \in 1..c : w[j] = v[j] /\ j \in 1..(c + 1)
  BY <1>1, <1>2
<1>4. CASE w \in DOMAIN trie
  <2>1. c <= i /\ (c = i \/ \E j \in 1..c : v[j] = kWildCardPathKey)
    BY Zenon, <1>1 DEF Reachable
  <2>2. c + 1 <= i + 1 /\ (c = i => c + 1 = i + 1)
    BY <2>1
  <2>3. Reachable(w, i + 1)
    BY Zenon, <1>3, <2>1, <2>2 DEF Reachable
  <2> QED BY Zenon, <1>2, <1>4, <2>3 DEF LookupPathFromChild
<1>5. CASE w \notin DOMAIN trie
  <2>1. ASSUME NEW d \in Candidates(http_method, parts, i + 1, w) PROVE FALSE
    BY Zenon, <1>5, PrefixInTrie DEF Candidates, Reaches
  <2>2. LookupPathFromChild(found, v, key) = NoData
    BY Zenon, <1>2, <1>5 DEF LookupPathFromChild
  <2> QED BY Zenon, <1>2, <2>1, <2>2 DEF Found
<1> QED BY Zenon, <1>4, <1>5

\* No key of a template is "/.".
LEMMA NoSingleParameter ==
  ASSUME TrieInv, NEW http_method, NEW parts, NEW i, NEW v \in Seq(Key)
  PROVE Candidates(http_method, parts, i, Append(v, kSingleParameterKey)) = {}
<1>1. SUFFICES ASSUME NEW d \in Candidates(http_method, parts, i, Append(v, kSingleParameterKey))
               PROVE FALSE
  BY Zenon
<1>2. PICK keys : keys = KeysOf(d) /\ keys \in Seq(SegmentText)
  BY Zenon, MethodFacts DEF Candidates, ValidKeys
<1> DEFINE w == Append(v, kSingleParameterKey)
<1>3. PICK n \in Nat : n = Len(w) /\ n = Len(v) + 1
  <2>1. Len(w) = Len(v) + 1 /\ Len(v) + 1 \in Nat
    OBVIOUS
  <2> QED BY <2>1
<1>4. w[n] = kSingleParameterKey /\ n \in 1..n
  BY <1>3
<1>5. n <= Len(keys) /\ keys[n] = kSingleParameterKey
  BY Zenon, <1>2, <1>3, <1>4 DEF Candidates, Reaches
<1>6. keys[n] \in SegmentText
  BY <1>2, <1>3, <1>5
<1> QED BY Zenon, <1>5, <1>6 DEF SegmentText

\* The best of candidates of one rank, before all the others of the node, is the
\* best of the node.
LEMMA BestOfNode ==
  ASSUME NEW http_method, NEW parts \in Seq(Key), NEW i \in Nat, i < Len(parts), NEW v, NEW w,
         NEW d, NEW rank \in Nat, d # NoData,
         Found(d, http_method, parts, i + 1, w),
         \A e \in Candidates(http_method, parts, i + 1, w) :
           /\ e \in Candidates(http_method, parts, i, v)
           /\ RanksOf(e, parts)[i + 1] = rank,
         \A e \in Candidates(http_method, parts, i, v) :
           \/ e \in Candidates(http_method, parts, i + 1, w)
           \/ RanksOf(e, parts)[i + 1] \in Nat /\ rank < RanksOf(e, parts)[i + 1]
  PROVE Found(d, http_method, parts, i, v)
<1>1. /\ d \in Candidates(http_method, parts, i + 1, w)
      /\ \A e \in Candidates(http_method, parts, i + 1, w) \ {d} :
           BetterFrom(RanksOf(d, parts), RanksOf(e, parts), i + 1)
  BY Zenon DEF Found
<1>2. PICK M \in Nat : DOMAIN RanksOf(d, parts) = 1..M /\ i + 1 \in 1..M
  <2>1. PICK N \in Nat : N = Len(parts) /\ i < N
    OBVIOUS
  <2>2. DOMAIN RanksOf(d, parts) = 1..(N + 2)
    BY Zenon, <2>1, RanksAre
  <2>3. N + 2 \in Nat /\ i + 1 \in 1..(N + 2)
    BY <2>1
  <2> QED BY Zenon, <2>2, <2>3
<1>3. ASSUME NEW e \in Candidates(http_method, parts, i, v) \ {d}
      PROVE BetterFrom(RanksOf(d, parts), RanksOf(e, parts), i)
  <2>1. PICK r, s : r = RanksOf(d, parts) /\ s = RanksOf(e, parts)
    BY Zenon
  <2>2. r[i + 1] = rank /\ r[i + 1] \in Nat
    BY Zenon, <1>1, <2>1
  <2>3. \/ s[i + 1] = rank /\ BetterFrom(r, s, i + 1)
        \/ s[i + 1] \in Nat /\ rank < s[i + 1]
    BY Zenon, <1>1, <1>3, <2>1
  <2>4. s[i + 1] \in Nat /\ (r[i + 1] < s[i + 1] \/ (r[i + 1] = s[i + 1] /\ BetterFrom(r, s, i + 1)))
    BY Zenon, <2>2, <2>3
  <2> QED BY Zenon, <1>2, <2>1, <2>2, <2>4, BetterStep
<1> QED BY Zenon, <1>1, <1>3 DEF Found

\* There is a next part before the end.
LEMMA NextPart ==
  ASSUME NEW parts \in Seq(Key), NEW i \in Nat, i < Len(parts)
  PROVE parts[i + 1] \in Key
OBVIOUS

\* LookupPath on a node finds the best candidate of the node, when it does on all
\* nodes with one part less.
LEMMA SearchStep ==
  ASSUME TrieInv, NEW http_method, NEW parts \in Seq(Key), NEW i \in Nat, i < Len(parts),
         NEW found,
         \A w \in DOMAIN trie : Reachable(w, i + 1) => Found(found[w], http_method, parts, i + 1, w),
         NEW v \in DOMAIN trie, Reachable(v, i)
  PROVE Found(LookupPathOfNode(found, v, parts[i + 1]), http_method, parts, i, v)
<1> DEFINE Cand(w) == Candidates(http_method, parts, i + 1, w)
           Here == Candidates(http_method, parts, i, v)
           Child(key) == LookupPathFromChild(found, v, key)
           RankOf(e) == RanksOf(e, parts)[i + 1]
<1>1. PICK part \in Key : part = parts[i + 1]
  BY Zenon, NextPart
<1>2. v \in Seq(Key)
  BY Zenon DEF TrieInv
<1>3. /\ kSingleParameterKey \in Key /\ kWildCardPathPartKey \in Key /\ kWildCardPathKey \in Key
      /\ kWildCardPathPartKey # kWildCardPathKey
  <2>1. kWildCardPathPartKey # kWildCardPathKey
    BY DEF kWildCardPathPartKey, kWildCardPathKey
  <2> QED BY Zenon, <2>1 DEF Key, Wildcards
<1>4. ASSUME NEW key \in Key
      PROVE /\ Found(Child(key), http_method, parts, i + 1, Append(v, key))
            /\ Child(key) = NoData => Cand(Append(v, key)) = {}
            /\ Cand(Append(v, key)) = {} => Child(key) = NoData
  <2>1. Found(Child(key), http_method, parts, i + 1, Append(v, key))
    BY Zenon, FoundFromChild
  <2>2. NoData \notin Cand(Append(v, key))
    BY Zenon, MethodFacts DEF Candidates
  <2> QED BY Zenon, <2>1, <2>2 DEF Found
<1>5. ASSUME NEW key \in KeysFor(part), NEW e \in Cand(Append(v, key))
      PROVE e \in Here /\ RankOf(e) = KeyRank(key, part)
  <2>1. key \in KeysFor(parts[i + 1]) /\ key \in Key
    BY Zenon, <1>1, <1>3 DEF KeysFor
  <2>2. e \in Candidates(http_method, parts, i + 1, Append(v, key))
    BY Zenon
  <2>3. e \in Candidates(http_method, parts, i, v) /\ RanksOf(e, parts)[i + 1] = KeyRank(key, parts[i + 1])
    BY <1>2, <2>1, <2>2, CandidateDown
  <2> QED BY Zenon, <1>1, <2>3
<1>6. ASSUME NEW e \in Here
      PROVE \/ \E key \in KeysFor(part) :
                 e \in Cand(Append(v, key)) /\ (IsWildcard(v) => key = part)
            \/ IsWildcard(v) /\ e \in Cand(v)
  BY Zenon, <1>1, <1>2, CandidateUp
<1>7. ASSUME IsWildcard(v), NEW e \in Cand(v) PROVE e \in Here /\ RankOf(e) = 2
  BY <1>2, <1>7, CandidateStay
<1>8. \A key : /\ key = part => KeyRank(key, part) = 0
               /\ key # part => KeyRank(key, part) \in {1, 2}
  BY Zenon DEF KeyRank
<1>9. ASSUME NEW w, NEW d, NEW rank \in Nat, d # NoData,
             Found(d, http_method, parts, i + 1, w),
             \A e \in Cand(w) : e \in Here /\ RankOf(e) = rank,
             \A e \in Here : e \in Cand(w) \/ (RankOf(e) \in Nat /\ rank < RankOf(e))
      PROVE Found(d, http_method, parts, i, v)
  BY Zenon, <1>9, BestOfNode
<1>10. /\ 0 \in Nat /\ 1 \in Nat /\ 2 \in Nat /\ 1 < 2
       /\ \A n \in {1, 2} : n \in Nat /\ 0 < n
  OBVIOUS
<1> DEFINE result == LookupPathOfNode(found, v, part)
<1>11. /\ Child(part) # NoData => result = Child(part)
       /\ Child(part) = NoData /\ IsWildcard(v) => result = found[v]
       /\ Child(part) = NoData /\ ~IsWildcard(v) =>
            result = OrElse(Child(kSingleParameterKey),
                            OrElse(Child(kWildCardPathPartKey), Child(kWildCardPathKey)))
  <2>1. /\ WildcardKeys[1] = kSingleParameterKey /\ WildcardKeys[2] = kWildCardPathPartKey
        /\ WildcardKeys[3] = kWildCardPathKey
    BY DEF WildcardKeys
  <2> QED BY Zenon, <2>1 DEF LookupPathOfNode, OrElse
<1> HIDE DEF Cand, Here, Child, RankOf, result
<1>12. CASE Child(part) # NoData
  <2>1. \A e \in Cand(Append(v, part)) : e \in Here /\ RankOf(e) = 0
    BY Zenon, <1>5, <1>8 DEF KeysFor
  <2>2. ASSUME NEW e \in Here PROVE e \in Cand(Append(v, part)) \/ (RankOf(e) \in Nat /\ 0 < RankOf(e))
    BY Zenon, <1>5, <1>6, <1>7, <1>8, <1>10
  <2>3. Found(Child(part), http_method, parts, i + 1, Append(v, part))
    BY Zenon, <1>4
  <2>4. Found(Child(part), http_method, parts, i, v)
    BY Zenon, <1>9, <1>10, <1>12, <2>1, <2>2, <2>3
  <2> QED BY Zenon, <1>1, <1>11, <1>12, <2>4 DEF result
<1>13. CASE Child(part) = NoData /\ IsWildcard(v)
  <2>1. Cand(Append(v, part)) = {}
    BY Zenon, <1>4, <1>13
  <2>2. \A e \in Here : e \in Cand(v)
    BY Zenon, <1>6, <1>13, <2>1
  <2>3. Found(found[v], http_method, parts, i + 1, v)
    <3>1. PICK c \in Nat : c = Len(v)
      BY <1>2
    <3>2. c \in 1..c /\ v[c] = kWildCardPathKey
      BY <1>2, <1>13, <3>1 DEF IsWildcard, Last
    <3>3. c <= i + 1
      BY <3>1 DEF Reachable
    <3>4. Reachable(v, i + 1)
      BY Zenon, <3>1, <3>2, <3>3 DEF Reachable
    <3> QED BY Zenon, <3>4
  <2>4. CASE found[v] = NoData
    <3>1. Cand(v) = {}
      BY Zenon, <2>3, <2>4, MethodFacts DEF Found, Cand, Candidates
    <3>2. Here = {}
      BY Zenon, <2>2, <3>1
    <3> QED BY Zenon, <1>1, <1>11, <1>13, <2>4, <3>2 DEF Found, Here, result
  <2>5. CASE found[v] # NoData
    <3>1. Found(found[v], http_method, parts, i, v)
      BY Zenon, <1>7, <1>9, <1>10, <1>13, <2>2, <2>3, <2>5
    <3> QED BY Zenon, <1>1, <1>11, <1>13, <3>1 DEF result
  <2> QED BY Zenon, <2>4, <2>5
<1>14. CASE Child(part) = NoData /\ ~IsWildcard(v)
  <2>1. Cand(Append(v, part)) = {}
    BY Zenon, <1>4, <1>14
  <2>2. Child(kSingleParameterKey) = NoData
    <3>1. Cand(Append(v, kSingleParameterKey)) = {}
      BY Zenon, <1>2, NoSingleParameter DEF Cand
    <3> QED BY Zenon, <1>3, <1>4, <3>1
  <2>3. result = OrElse(Child(kWildCardPathPartKey), Child(kWildCardPathKey))
    BY Zenon, <1>11, <1>14, <2>2 DEF OrElse
  <2>4. \A e \in Here : \/ e \in Cand(Append(v, kWildCardPathPartKey))
                        \/ e \in Cand(Append(v, kWildCardPathKey))
    BY Zenon, <1>6, <1>14, <2>1 DEF KeysFor
  <2>5. /\ \A e \in Cand(Append(v, kWildCardPathPartKey)) : e \in Here /\ RankOf(e) = 1
        /\ \A e \in Cand(Append(v, kWildCardPathKey)) : e \in Here /\ RankOf(e) = 2
    BY Zenon, <1>3, <1>5, <2>1 DEF KeyRank, KeysFor
  <2>6. CASE Child(kWildCardPathPartKey) # NoData
    <3>1. Found(Child(kWildCardPathPartKey), http_method, parts, i, v)
      BY Zenon, <1>3, <1>4, <1>9, <1>10, <2>4, <2>5, <2>6
    <3> QED BY Zenon, <1>1, <2>3, <2>6, <3>1 DEF OrElse, result
  <2>7. CASE Child(kWildCardPathPartKey) = NoData
    <3>1. Cand(Append(v, kWildCardPathPartKey)) = {} /\ result = Child(kWildCardPathKey)
      BY Zenon, <1>3, <1>4, <2>3, <2>7 DEF OrElse
    <3>2. CASE Child(kWildCardPathKey) = NoData
      <4>1. Here = {}
        BY Zenon, <1>3, <1>4, <2>4, <3>1, <3>2
      <4> QED BY Zenon, <1>1, <3>1, <3>2, <4>1 DEF Found, Here, result
    <3>3. CASE Child(kWildCardPathKey) # NoData
      <4>1. Found(Child(kWildCardPathKey), http_method, parts, i, v)
        BY Zenon, <1>3, <1>4, <1>9, <1>10, <2>4, <2>5, <3>1, <3>3
      <4> QED BY Zenon, <1>1, <3>1, <4>1 DEF result
    <3> QED BY Zenon, <3>2, <3>3
  <2> QED BY Zenon, <2>6, <2>7
<1> QED BY Zenon, <1>12, <1>13, <1>14

\* The methods at the node w that answer to an HTTP method.
AtNode(http_method, w) ==
  {d \in DOMAIN methods : KeysOf(d) = w /\ RuleOf(d).http_method \in {http_method, HttpMethod_WILD_CARD}}

\* What a node has for an HTTP method, if it is in the trie.
ResultOf(w, http_method) == IF w \in DOMAIN trie THEN GetResultForHttpMethod(w, http_method) ELSE NoData

\* It is the method registered for just that HTTP method, or the one for "*".
LEMMA ResultIsBestAtNode ==
  ASSUME TrieInv, NEW w \in Seq(Key), NEW http_method, NEW result, result = ResultOf(w, http_method)
  PROVE \/ result = NoData /\ AtNode(http_method, w) = {}
        \/ /\ result \in AtNode(http_method, w)
           /\ \A e \in AtNode(http_method, w) \ {result} :
                /\ RuleOf(result).http_method # HttpMethod_WILD_CARD
                /\ RuleOf(e).http_method = HttpMethod_WILD_CARD
<1>1. ASSUME NEW d \in AtNode(http_method, w) PROVE w \in DOMAIN trie
  <2>1. ValidKeys(KeysOf(d)) /\ d \in DOMAIN methods /\ KeysOf(d) = w
    BY Zenon, MethodFacts DEF AtNode
  <2>2. Len(w) <= Len(KeysOf(d)) /\ \A j \in 1..Len(w) : w[j] = KeysOf(d)[j]
    BY <2>1
  <2> QED BY Zenon, <2>1, <2>2, PrefixInTrie
<1>2. ASSUME NEW d \in AtNode(http_method, w)
      PROVE RuleOf(d).http_method \in DOMAIN trie[w] /\ trie[w][RuleOf(d).http_method].data = d
  BY Zenon DEF TrieInv, AtNode
<1>3. CASE w \notin DOMAIN trie
  BY Zenon, <1>1, <1>3 DEF ResultOf
<1>4. CASE w \in DOMAIN trie
  <2>1. ASSUME NEW m \in {http_method, HttpMethod_WILD_CARD}, m \in DOMAIN trie[w]
        PROVE trie[w][m].data \in AtNode(http_method, w) /\ RuleOf(trie[w][m].data).http_method = m
    <3>1. PICK d \in DOMAIN methods :
            trie[w][m].data = d /\ KeysOf(d) = w /\ RuleOf(d).http_method = m
      BY Zenon, <1>4, <2>1 DEF TrieInv
    <3> QED BY <2>1, <3>1 DEF AtNode
  <2>2. CASE http_method \in DOMAIN trie[w]
    <3>1. result = trie[w][http_method].data
      BY Zenon, <1>4, <2>2 DEF ResultOf, GetResultForHttpMethod
    <3>2. result \in AtNode(http_method, w) /\ RuleOf(result).http_method = http_method
      BY Zenon, <2>1, <2>2, <3>1
    <3>3. ASSUME NEW e \in AtNode(http_method, w) \ {result}
          PROVE /\ RuleOf(result).http_method # HttpMethod_WILD_CARD
                /\ RuleOf(e).http_method = HttpMethod_WILD_CARD
      BY Zenon, <1>2, <3>1, <3>2, <3>3 DEF AtNode
    <3> QED BY Zenon, <3>2, <3>3
  <2>3. CASE http_method \notin DOMAIN trie[w] /\ HttpMethod_WILD_CARD \in DOMAIN trie[w]
    <3>1. result = trie[w][HttpMethod_WILD_CARD].data
      BY Zenon, <1>4, <2>3 DEF ResultOf, GetResultForHttpMethod
    <3>2. result \in AtNode(http_method, w)
      BY Zenon, <2>1, <2>3, <3>1
    <3>3. ASSUME NEW e \in AtNode(http_method, w) PROVE e = result
      BY Zenon, <1>2, <2>3, <3>1, <3>3 DEF AtNode
    <3> QED BY Zenon, <3>2, <3>3
  <2>4. CASE http_method \notin DOMAIN trie[w] /\ HttpMethod_WILD_CARD \notin DOMAIN trie[w]
    <3>1. result = NoData
      BY Zenon, <1>4, <2>4 DEF ResultOf, GetResultForHttpMethod
    <3>2. ASSUME NEW e \in AtNode(http_method, w) PROVE FALSE
      BY Zenon, <1>2, <2>4, <3>2 DEF AtNode
    <3> QED BY Zenon, <3>1, <3>2
  <2> QED BY Zenon, <2>2, <2>3, <2>4
<1> QED BY Zenon, <1>3, <1>4

\* After all the parts the keys end at v, or have only a "**" left.
LEMMA EndReached ==
  ASSUME NEW keys, ValidKeys(keys), NEW N \in Nat, NEW v \in Seq(Key),
         Lengths(keys, N), Reaches(keys, N, N, v)
  PROVE \/ keys = v /\ ~(N < Len(keys))
        \/ keys = Append(v, kWildCardPathKey) /\ N < Len(keys)
<1>1. PICK s \in Nat, L \in Nat, c \in Nat :
        s = Star(keys) /\ L = Len(keys) /\ c = Len(v) /\ s <= L /\ IsStar(keys, s)
  <2>1. IsStar(keys, Star(keys))
    BY Zenon, StarFound
  <2>2. Len(keys) \in Nat /\ Len(v) \in Nat
    BY DEF ValidKeys
  <2>3. Star(keys) \in Nat /\ Star(keys) <= Len(keys)
    BY <2>1, <2>2 DEF IsStar
  <2> QED BY Zenon, <2>1, <2>2, <2>3
<1>2. Position(keys, N, N) = c /\ c <= L /\ \A j \in 1..c : v[j] = keys[j]
  BY Zenon, <1>1 DEF Reaches
<1>3. (c = L /\ ~(N < L)) \/ (c + 1 = L /\ N < L /\ s = L)
  BY <1>1, <1>2 DEF Position, Lengths
<1>4. keys \in Seq(SegmentText)
  BY Zenon DEF ValidKeys
<1>5. CASE c = L /\ ~(N < L)
  <2>1. Len(v) = Len(keys) /\ \A j \in 1..Len(v) : v[j] = keys[j]
    BY Zenon, <1>1, <1>2, <1>5
  <2>2. keys = v
    BY Zenon, <1>4, <2>1, SameElements
  <2> QED BY Zenon, <1>1, <1>5, <2>2
<1>6. CASE c + 1 = L /\ N < L /\ s = L
  <2>1. keys[c + 1] = kWildCardPathKey
    BY <1>1, <1>6 DEF IsStar
  <2>3. keys = Append(v, kWildCardPathKey)
    BY <1>1, <1>2, <1>4, <1>6, <2>1
  <2> QED BY Zenon, <1>1, <1>6, <2>3
<1> QED BY Zenon, <1>3, <1>5, <1>6

\* Keys that end at a node that was reached fit all the parts.
LEMMA EndFits ==
  ASSUME NEW keys, ValidKeys(keys), NEW N \in Nat, NEW v \in Seq(Key), Reachable(v, N),
         keys = v \/ keys = Append(v, kWildCardPathKey)
  PROVE Lengths(keys, N) /\ Reaches(keys, N, N, v) /\ (keys = v <=> ~(N < Len(keys)))
<1>1. PICK s \in Nat, L \in Nat, c \in Nat :
        s = Star(keys) /\ L = Len(keys) /\ c = Len(v) /\ s <= L /\ IsStar(keys, s)
  <2>1. IsStar(keys, Star(keys))
    BY Zenon, StarFound
  <2>2. Len(keys) \in Nat /\ Len(v) \in Nat
    BY DEF ValidKeys
  <2>3. Star(keys) \in Nat /\ Star(keys) <= Len(keys)
    BY <2>1, <2>2 DEF IsStar
  <2> QED BY Zenon, <2>1, <2>2, <2>3
<1>2. c <= N /\ (c = N \/ \E j \in 1..c : v[j] = kWildCardPathKey)
  BY Zenon, <1>1 DEF Reachable
<1>3. CASE keys = v
  <2>1. L = c /\ \A j \in 1..c : keys[j] = v[j]
    BY Zenon, <1>1, <1>3
  <2>2. c # N => s > 0
    BY <1>1, <1>2, <2>1 DEF IsStar
  <2>3. Lengths(keys, N) /\ Position(keys, N, N) = c /\ ~(N < L) /\ c <= L
    BY <1>1, <1>2, <2>1, <2>2 DEF Lengths, Position
  <2> QED BY Zenon, <1>1, <1>3, <2>1, <2>3 DEF Reaches
<1>4. CASE keys = Append(v, kWildCardPathKey)
  <2>1. L = c + 1 /\ keys[L] = kWildCardPathKey /\ \A j \in 1..c : keys[j] = v[j]
    BY <1>1, <1>4
  <2>2. s = L
    BY <1>1, <2>1 DEF IsStar
  <2>3. c = N
    BY <1>1, <1>2, <2>1, <2>2 DEF IsStar
  <2>4. Lengths(keys, N) /\ Position(keys, N, N) = c /\ N < L /\ c <= L
    BY <1>1, <2>1, <2>2, <2>3 DEF Lengths, Position
  <2>5. keys # v
    <3>1. L # c
      BY <2>1
    <3> QED BY Zenon, <1>1, <3>1
  <2> QED BY Zenon, <1>1, <2>1, <2>4, <2>5 DEF Reaches
<1> QED BY Zenon, <1>3, <1>4

\* At the end of the path the search finds the best candidate of the node.
LEMMA SearchEnd ==
  ASSUME TrieInv, NEW http_method, NEW parts \in Seq(Key), NEW N \in Nat, N = Len(parts),
         NEW v \in DOMAIN trie, Reachable(v, N)
  PROVE Found(ResultAtEnd(v, http_method), http_method, parts, N, v)
<1> DEFINE child == Append(v, kWildCardPathKey)
           Here == Candidates(http_method, parts, N, v)
           At(w) == AtNode(http_method, w)
<1>1. v \in Seq(Key) /\ child \in Seq(Key) /\ child # v
  <2>1. v \in Seq(Key) /\ kWildCardPathKey \in Key
    BY Zenon DEF TrieInv, Key, Wildcards
  <2>2. child \in Seq(Key)
    BY <2>1
  <2>3. Len(child) # Len(v)
    BY <2>1
  <2> QED BY Zenon, <2>1, <2>2, <2>3
<1>2. ASSUME NEW e \in At(v) \cup At(child)
      PROVE e \in Here /\ (e \in At(v) <=> ~(N < Len(KeysOf(e))))
  <2>1. PICK keys : keys = KeysOf(e) /\ ValidKeys(keys) /\ keys \in {v, child} /\ (e \in At(v) <=> keys = v)
    BY Zenon, <1>1, <1>2, MethodFacts DEF AtNode
  <2>2. Lengths(keys, N) /\ Reaches(keys, N, N, v) /\ (keys = v <=> ~(N < Len(keys)))
    BY Zenon, <1>1, <2>1, EndFits
  <2>3. \A j \in 1..N : ~(j > N)
    OBVIOUS
  <2>4. FitsFrom(keys, parts, N)
    BY Zenon, <2>2, <2>3 DEF FitsFrom
  <2> QED BY Zenon, <2>1, <2>2, <2>4 DEF Candidates, AtNode
<1>3. ASSUME NEW e \in Here PROVE e \in At(v) \cup At(child)
  <2>1. PICK keys : /\ keys = KeysOf(e) /\ ValidKeys(keys) /\ Lengths(keys, N) /\ Reaches(keys, N, N, v)
    BY Zenon, MethodFacts DEF Candidates, FitsFrom
  <2>2. keys = v \/ keys = child
    BY Zenon, <1>1, <2>1, EndReached
  <2> QED BY Zenon, <2>1, <2>2 DEF Candidates, AtNode
<1>4. ASSUME NEW e
      PROVE /\ DOMAIN RanksOf(e, parts) = 1..(N + 2)
            /\ RanksOf(e, parts)[N + 1] = IF N < Len(KeysOf(e)) THEN 1 ELSE 0
            /\ RanksOf(e, parts)[N + 2] = IF RuleOf(e).http_method = HttpMethod_WILD_CARD THEN 1 ELSE 0
  BY Zenon, RanksAre
<1>5. ASSUME NEW d \in Here, NEW e \in Here, ~(N < Len(KeysOf(d))), N < Len(KeysOf(e))
      PROVE BetterFrom(RanksOf(d, parts), RanksOf(e, parts), N)
  <2>1. PICK n \in 1..(N + 2) : n = N + 1 /\ n > N /\ \A k \in 1..(n - 1) : ~(k > N)
    OBVIOUS
  <2>2. RanksOf(d, parts)[n] < RanksOf(e, parts)[n]
    <3>1. RanksOf(d, parts)[N + 1] = 0 /\ RanksOf(e, parts)[N + 1] = 1
      BY Zenon, <1>4, <1>5
    <3> QED BY <2>1, <3>1
  <2> QED BY Zenon, <1>4, <2>1, <2>2 DEF BetterFrom
<1>6. ASSUME NEW d \in Here, NEW e \in Here, N < Len(KeysOf(d)) <=> N < Len(KeysOf(e)),
             RuleOf(d).http_method # HttpMethod_WILD_CARD, RuleOf(e).http_method = HttpMethod_WILD_CARD
      PROVE BetterFrom(RanksOf(d, parts), RanksOf(e, parts), N)
  <2>1. PICK n \in 1..(N + 2) : n = N + 2 /\ n > N /\ \A k \in 1..(n - 1) : k > N => k = N + 1
    OBVIOUS
  <2>2. RanksOf(d, parts)[n] < RanksOf(e, parts)[n]
    <3>1. RanksOf(d, parts)[N + 2] = 0 /\ RanksOf(e, parts)[N + 2] = 1
      BY Zenon, <1>4, <1>6
    <3> QED BY <2>1, <3>1
  <2>3. RanksOf(d, parts)[N + 1] = RanksOf(e, parts)[N + 1]
    BY Zenon, <1>4, <1>6
  <2> QED BY Zenon, <1>4, <2>1, <2>2, <2>3 DEF BetterFrom
<1>7. PICK r1, r2 : r1 = ResultOf(v, http_method) /\ r2 = ResultOf(child, http_method)
  BY Zenon
<1>8. ResultAtEnd(v, http_method) = OrElse(r1, r2)
  BY Zenon, <1>7 DEF ResultAtEnd, ResultOf
<1>9. \/ r1 = NoData /\ At(v) = {}
      \/ /\ r1 \in At(v)
         /\ \A e \in At(v) \ {r1} : /\ RuleOf(r1).http_method # HttpMethod_WILD_CARD
                                    /\ RuleOf(e).http_method = HttpMethod_WILD_CARD
  BY Zenon, <1>1, <1>7, ResultIsBestAtNode
<1>10. \/ r2 = NoData /\ At(child) = {}
       \/ /\ r2 \in At(child)
          /\ \A e \in At(child) \ {r2} : /\ RuleOf(r2).http_method # HttpMethod_WILD_CARD
                                         /\ RuleOf(e).http_method = HttpMethod_WILD_CARD
  BY Zenon, <1>1, <1>7, ResultIsBestAtNode
<1>11. NoData \notin At(v)
  BY Zenon, MethodFacts DEF AtNode
<1> HIDE DEF At, Here
<1>12. CASE r1 \in At(v)
  <2>1. ResultAtEnd(v, http_method) = r1
    BY Zenon, <1>8, <1>11, <1>12 DEF OrElse
  <2>2. ASSUME NEW e \in Here \ {r1} PROVE BetterFrom(RanksOf(r1, parts), RanksOf(e, parts), N)
    <3>1. r1 \in Here /\ ~(N < Len(KeysOf(r1)))
      BY Zenon, <1>2, <1>12
    <3>2. CASE e \in At(v)
      <4>1. ~(N < Len(KeysOf(e)))
        BY Zenon, <1>2, <3>2
      <4>2. RuleOf(r1).http_method # HttpMethod_WILD_CARD /\ RuleOf(e).http_method = HttpMethod_WILD_CARD
        BY Zenon, <1>9, <1>12, <2>2, <3>2
      <4> QED BY Zenon, <1>6, <2>2, <3>1, <4>1, <4>2
    <3>3. CASE e \notin At(v)
      <4>1. N < Len(KeysOf(e))
        BY Zenon, <1>2, <1>3, <2>2, <3>3
      <4> QED BY Zenon, <1>5, <2>2, <3>1, <4>1
    <3> QED BY Zenon, <3>2, <3>3
  <2> QED BY Zenon, <1>2, <1>12, <2>1, <2>2 DEF Found, Here
<1>13. CASE r1 = NoData /\ At(v) = {}
  <2>1. ResultAtEnd(v, http_method) = r2
    BY Zenon, <1>8, <1>13 DEF OrElse
  <2>2. ASSUME NEW e \in Here PROVE e \in At(child) /\ N < Len(KeysOf(e))
    BY Zenon, <1>2, <1>3, <1>13
  <2>3. CASE r2 = NoData /\ At(child) = {}
    BY Zenon, <2>1, <2>2, <2>3 DEF Found, Here
  <2>4. CASE r2 \in At(child)
    <3>1. r2 \in Here
      BY Zenon, <1>2, <2>4
    <3>2. ASSUME NEW e \in Here \ {r2} PROVE BetterFrom(RanksOf(r2, parts), RanksOf(e, parts), N)
      <4>1. RuleOf(r2).http_method # HttpMethod_WILD_CARD /\ RuleOf(e).http_method = HttpMethod_WILD_CARD
        BY Zenon, <1>10, <2>2, <2>4, <3>2
      <4>2. N < Len(KeysOf(r2)) /\ N < Len(KeysOf(e))
        BY Zenon, <2>2, <3>1, <3>2
      <4> QED BY Zenon, <1>6, <3>1, <3>2, <4>1, <4>2
    <3> QED BY Zenon, <2>1, <3>1, <3>2 DEF Found, Here
  <2> QED BY Zenon, <1>10, <2>3, <2>4
<1> QED BY Zenon, <1>9, <1>12, <1>13

\* The results on all nodes with n parts left, from those g with fewer parts.
LookupStep(parts, http_method, g, n) ==
  [node \in DOMAIN trie |->
     IF n = 0 THEN ResultAtEnd(node, http_method)
     ELSE LookupPathOfNode(g[n - 1], node, parts[Len(parts) - n + 1])]

LooksUp(parts, http_method, f, N) == f = [n \in 0..N |-> LookupStep(parts, http_method, f, n)]

\* The search gets to the end of the path.
LEMMA LookupLoop ==
  ASSUME NEW parts, NEW http_method, NEW N \in Nat
  PROVE \E g : LooksUp(parts, http_method, g, N)
<1> DEFINE Step(g, n) == LookupStep(parts, http_method, g, n)
           T == {k \in Nat : ~\E g : g = [n \in 0..k |-> Step(g, n)]}
<1>1. SUFFICES T = {}
  BY Zenon DEF LooksUp
<1>2. SUFFICES ASSUME T # {} PROVE FALSE
  BY Zenon
<1>3. PICK m \in T : \A k \in T : m <= k
  <2>1. T \in SUBSET Nat
    BY Zenon
  <2> HIDE DEF T
  <2> QED BY Zenon, <1>2, <2>1, LeastNumber
<1>4. ASSUME NEW g, NEW h, NEW n \in Nat, n # 0 => g[n - 1] = h[n - 1] PROVE Step(g, n) = Step(h, n)
  BY Zenon, <1>4 DEF LookupStep
<1>5. \A g : Step(g, 0) = [node \in DOMAIN trie |-> ResultAtEnd(node, http_method)]
  BY Zenon DEF LookupStep
<1> HIDE DEF Step
<1>6. CASE m = 0
  <2>1. PICK g : g = [n \in 0..0 |-> [node \in DOMAIN trie |-> ResultAtEnd(node, http_method)]]
    BY Zenon
  <2>2. g = [n \in 0..0 |-> Step(g, n)]
    BY <1>5, <2>1
  <2> QED BY Zenon, <1>6, <2>2
<1>7. CASE m # 0
  <2>1. m - 1 \in Nat /\ m - 1 \notin T
    BY <1>3, <1>7
  <2>2. PICK g : g = [n \in 0..(m - 1) |-> Step(g, n)]
    BY Zenon, <2>1
  <2>3. PICK h : h = [n \in 0..m |-> IF n < m THEN g[n] ELSE Step(g, m)]
    BY Zenon
  <2>4. ASSUME NEW n \in 0..m PROVE h[n] = Step(h, n)
    <3>1. n # 0 => g[n - 1] = h[n - 1]
      BY <2>3
    <3>2. Step(g, n) = Step(h, n)
      BY <1>4, <3>1
    <3>3. CASE n < m
      BY <2>2, <2>3, <3>2, <3>3
    <3>4. CASE n = m
      <4>1. h[m] = Step(g, m)
        BY <2>3
      <4> QED BY Zenon, <3>2, <3>4, <4>1
    <3> QED BY <3>3, <3>4
  <2>5. h = [n \in 0..m |-> Step(h, n)]
    BY Zenon, <2>3, <2>4
  <2> QED BY Zenon, <1>3, <2>5
<1> QED BY Zenon, <1>6, <1>7

\* The results it goes through.
LEMMA LookupUnfold ==
  ASSUME NEW parts, NEW http_method, NEW N \in Nat, N = Len(parts)
  PROVE LooksUp(parts, http_method, LookupPath(parts, http_method), N)
<1> DEFINE F == CHOOSE g : LooksUp(parts, http_method, g, N)
<1>1. \E g : LooksUp(parts, http_method, g, N)
  BY Zenon, LookupLoop
<1>2. LooksUp(parts, http_method, F, N)
  BY Zenon, <1>1
<1>3. LookupPath(parts, http_method) = F
  BY Zenon DEF LookupPath, LookupStep, LooksUp
<1> QED BY Zenon, <1>2, <1>3

\* LookupPath finds the best candidate of every node, with any number of parts left.
LEMMA SearchFinds ==
  ASSUME TrieInv, NEW http_method, NEW parts \in Seq(Key), NEW N \in Nat, N = Len(parts)
  PROVE \A v \in DOMAIN trie :
          Reachable(v, 0) => Found(LookupPath(parts, http_method)[N][v], http_method, parts, 0, v)
<1>1. PICK f : f = LookupPath(parts, http_method) /\ LooksUp(parts, http_method, f, N)
  BY Zenon, LookupUnfold
<1> DEFINE Good(n) == \A v \in DOMAIN trie :
                        Reachable(v, N - n) => Found(f[n][v], http_method, parts, N - n, v)
           T == {n \in 0..N : ~Good(n)}
<1>2. CASE T = {}
  <2>1. N \in 0..N /\ N - N = 0
    OBVIOUS
  <2>2. Good(N)
    BY Zenon, <1>2, <2>1
  <2> QED BY <1>1, <2>1, <2>2
<1>3. CASE T # {}
  <2>1. T \in SUBSET Nat
    <3> HIDE DEF Good
    <3> QED OBVIOUS
  <2>2. PICK m \in T : \A k \in T : m <= k
    <3> HIDE DEF T
    <3> QED BY Zenon, <1>3, <2>1, LeastNumber
  <2>3. m \in 0..N /\ ~Good(m) /\ f[m] = LookupStep(parts, http_method, f, m)
    BY Zenon, <1>1, <2>2 DEF LooksUp
  <2>4. CASE m = 0
    <3>1. N - 0 = N
      OBVIOUS
    <3>2. \A v \in DOMAIN trie : f[0][v] = ResultAtEnd(v, http_method)
      BY Zenon, <2>3, <2>4 DEF LookupStep
    <3>3. \A v \in DOMAIN trie : Reachable(v, N) => Found(f[0][v], http_method, parts, N, v)
      BY Zenon, <3>2, SearchEnd
    <3>4. Good(0)
      BY <3>1, <3>3
    <3> HIDE DEF Good
    <3> QED BY Zenon, <2>3, <2>4, <3>4
  <2>5. CASE m # 0
    <3>1. m - 1 \in 0..N /\ m - 1 \notin T
      <4> HIDE DEF T
      <4> QED BY <2>2, <2>3, <2>5
    <3>2. Good(m - 1)
      <4> HIDE DEF Good
      <4> QED BY Zenon, <3>1
    <3>3. PICK i \in Nat : i = N - m /\ i < N /\ i + 1 = N - (m - 1) /\ i + 1 = N - m + 1
      BY <2>3, <2>5
    <3>4. \A w \in DOMAIN trie : Reachable(w, i + 1) => Found(f[m - 1][w], http_method, parts, i + 1, w)
      BY Zenon, <3>2, <3>3
    <3>5. ASSUME NEW v \in DOMAIN trie PROVE f[m][v] = LookupPathOfNode(f[m - 1], v, parts[i + 1])
      BY Zenon, <2>3, <2>5, <3>3 DEF LookupStep
    <3>6. ASSUME NEW v \in DOMAIN trie, Reachable(v, i) PROVE Found(f[m][v], http_method, parts, i, v)
      <4>1. PICK found : found = f[m - 1]
        BY Zenon
      <4>2. Found(LookupPathOfNode(found, v, parts[i + 1]), http_method, parts, i, v)
        BY Zenon, <3>3, <3>4, <3>6, <4>1, SearchStep
      <4> QED BY Zenon, <3>5, <4>1, <4>2
    <3>7. Good(m)
      BY Zenon, <3>3, <3>6
    <3> HIDE DEF Good
    <3> QED BY Zenon, <2>3, <3>7
  <2> QED BY Zenon, <2>4, <2>5
<1> QED BY Zenon, <1>2, <1>3

-----------------------------------------------------------------------------
(* The parts of a request path *)

\* One number before m.
LEMMA OneBefore ==
  ASSUME NEW L \in Nat, NEW m \in 0..L, m > 0
  PROVE m - 1 \in 0..L /\ \A i \in (m - 1 + 1)..L : i = m \/ i \in (m + 1)..L
OBVIOUS

\* The loop that removes empty parts at the end stops.
LEMMA KeptIs ==
  ASSUME NEW S, NEW parts \in Seq(S)
  PROVE /\ Kept(parts) \in 0..Len(parts)
        /\ \A i \in (Kept(parts) + 1)..Len(parts) : parts[i] = <<"">>
<1>1. PICK L \in Nat : L = Len(parts)
  OBVIOUS
<1> DEFINE T == {n \in 0..L : \A i \in (n + 1)..L : parts[i] = <<"">>}
<1>2. L \in T /\ T \in SUBSET Nat
  <2>1. L \in 0..L /\ \A i \in (L + 1)..L : FALSE
    OBVIOUS
  <2>2. \A n \in 0..L : n \in Nat
    OBVIOUS
  <2> QED BY Zenon, <2>1, <2>2
<1>3. PICK m \in T : \A k \in T : m <= k
  <2> HIDE DEF T
  <2>1. T # {}
    BY Zenon, <1>2
  <2> QED BY Zenon, <1>2, <2>1, LeastNumber
<1>a. m \in 0..L /\ \A i \in (m + 1)..L : parts[i] = <<"">>
  BY Zenon
<1>4. ASSUME m > 0 PROVE parts[m] # <<"">>
  <2>1. SUFFICES ASSUME parts[m] = <<"">> PROVE FALSE
    BY Zenon
  <2>2. \A i \in (m - 1 + 1)..L : i = m \/ i \in (m + 1)..L
    BY Zenon, <1>a, <1>4, OneBefore
  <2>3. \A i \in (m - 1 + 1)..L : parts[i] = <<"">>
    BY Zenon, <1>a, <2>1, <2>2
  <2>4. m - 1 \in 0..L
    BY Zenon, <1>a, <1>4, OneBefore
  <2>5. m - 1 \in T
    BY Zenon, <2>3, <2>4
  <2> HIDE DEF T
  <2> QED BY <1>2, <1>3, <2>5
<1>5. \E n \in 0..L : (n > 0 => parts[n] # <<"">>) /\ \A i \in (n + 1)..L : parts[i] = <<"">>
  BY Zenon, <1>a, <1>4
<1> QED BY Zenon, <1>1, <1>5 DEF Kept

\* What is left is a sequence, and all of the parts if the last one is not empty.
LEMMA TrimEmptyIs ==
  ASSUME NEW S, NEW parts \in Seq(S)
  PROVE /\ TrimEmpty(parts) \in Seq(S)
        /\ Len(parts) > 0 /\ parts[Len(parts)] # <<"">> => TrimEmpty(parts) = parts
<1>1. PICK n \in 0..Len(parts) : n = Kept(parts) /\ \A i \in (n + 1)..Len(parts) : parts[i] = <<"">>
  BY Zenon, KeptIs
<1>2. SubSeq(parts, 1, n) \in Seq(S)
  OBVIOUS
<1>3. ASSUME Len(parts) > 0, parts[Len(parts)] # <<"">> PROVE SubSeq(parts, 1, n) = parts
  <2>1. n < Len(parts) => Len(parts) \in (n + 1)..Len(parts)
    OBVIOUS
  <2>2. ~(n < Len(parts))
    BY Zenon, <1>1, <1>3, <2>1
  <2> QED BY <2>2
<1> QED BY Zenon, <1>1, <1>2, <1>3 DEF TrimEmpty

\* The verbs are those of registered templates: not empty.
LEMMA VerbIsText ==
  ASSUME TrieInv, NEW verb \in custom_verbs
  PROVE verb \in STRING /\ verb # ""
<1>1. PICK d \in DOMAIN methods : verb = RuleOf(d).template.verb /\ verb # NoVerb
  BY Zenon DEF TrieInv
<1>2. RuleOf(d) \in Rules
  BY Zenon, MethodFacts
<1> QED BY Zenon, <1>1, <1>2, RulesAssumption

\* The parser of request paths splits them as the reference does.
LEMMA PartsAgree ==
  ASSUME TrieInv, NEW path \in Requests
  PROVE ExtractRequestParts(path) = Parts(path) /\ Parts(path) \in Seq(Seq(STRING))
<1>1. PICK S : S = Seq(STRING)
  BY Zenon
<1>2. path \in Seq(S) /\ \A i \in 1..Len(path) : path[i] # <<>>
  <2>1. path \in Seq(Seq(STRING) \ {<<>>})
    BY Zenon, RequestsAssumption
  <2> QED BY <1>1, <2>1
<1>3. {RuleOf(d).template.verb : d \in DOMAIN methods} \ {NoVerb} = custom_verbs
  BY Zenon DEF TrieInv
<1>4. CASE path = <<>>
  <2>1. ExtractRequestParts(path) = TrimEmpty(path) /\ Parts(path) = TrimEmpty(path)
    BY Zenon, <1>4 DEF ExtractRequestParts, HasCustomVerb, Parts
  <2> QED BY Zenon, <1>1, <1>2, <2>1, TrimEmptyIs
<1>5. CASE path # <<>>
  <2>1. PICK text \in S : text = Last(path) /\ text # <<>>
    <3>1. Len(path) \in 1..Len(path)
      BY <1>2, <1>5
    <3>2. path[Len(path)] \in S
      BY <1>2, <3>1
    <3> QED BY Zenon, <1>2, <3>1, <3>2 DEF Last
  <2>2. Len(text) > 1 \/ Len(text) = 1
    <3>1. text \in Seq(STRING)
      BY Zenon, <1>1, <2>1
    <3> QED BY Zenon, <2>1, <3>1, NotEmpty
  <2>3. CASE ~(Len(text) > 1 /\ Last(text) \in custom_verbs)
    <3>1. ExtractRequestParts(path) = TrimEmpty(path) /\ Parts(path) = TrimEmpty(path)
      BY Zenon, <1>3, <2>1, <2>2, <2>3 DEF ExtractRequestParts, HasCustomVerb, Parts
    <3> QED BY Zenon, <1>1, <1>2, <3>1, TrimEmptyIs
  <2>4. CASE Len(text) > 1 /\ Last(text) \in custom_verbs
    <3>1. PICK verb \in STRING : verb = Last(text) /\ verb # ""
      BY Zenon, <2>4, VerbIsText
    <3>2. PICK q : q = Front(path) \o <<Front(text), <<verb>>>>
      BY Zenon
    <3>3. ExtractRequestParts(path) = TrimEmpty(q)
      BY Zenon, <1>5, <2>1, <2>4, <3>1, <3>2 DEF ExtractRequestParts, HasCustomVerb, SplitVerb
    <3>4. Parts(path) = q
      <4>1. ~(1 > 1)
        OBVIOUS
      <4> QED BY Zenon, <1>3, <1>5, <2>1, <2>4, <3>1, <3>2, <4>1 DEF Parts
    <3>5. Front(text) \in S /\ <<verb>> \in S
      <4>1. text \in Seq(STRING)
        BY Zenon, <1>1, <2>1
      <4>2. Front(text) \in Seq(STRING)
        BY <4>1, <2>4 DEF Front
      <4> QED BY Zenon, <1>1, <3>1, <4>2, OneElement
    <3>6. Front(path) \in Seq(S)
      BY <1>2, <1>5 DEF Front
    <3>7. q \in Seq(S) /\ Len(q) > 0 /\ q[Len(q)] = <<verb>>
      <4>1. PICK f \in Seq(S), a \in S, b \in S : f = Front(path) /\ a = Front(text) /\ b = <<verb>>
        BY Zenon, <3>5, <3>6
      <4>2. f \o <<a, b>> \in Seq(S) /\ Len(f \o <<a, b>>) = Len(f) + 2 /\ Len(f) \in Nat
        OBVIOUS
      <4>3. (f \o <<a, b>>)[Len(f) + 2] = b
        BY <4>2
      <4>4. Len(f) + 2 > 0
        BY <4>2
      <4> QED BY Zenon, <3>2, <4>1, <4>2, <4>3, <4>4
    <3>8. <<verb>> # <<"">>
      BY <3>1
    <3> QED BY Zenon, <1>1, <3>3, <3>4, <3>7, <3>8, TrimEmptyIs
  <2> QED BY Zenon, <2>3, <2>4
<1> QED BY Zenon, <1>4, <1>5

\* Before the first part the candidates of the root are the methods that match.
LEMMA CandidatesAtRoot ==
  ASSUME TrieInv, NEW http_method, NEW parts \in Seq(Key)
  PROVE Candidates(http_method, parts, 0, <<>>) = Matches(http_method, parts)
<1>1. PICK N \in Nat : N = Len(parts)
  OBVIOUS
<1>2. ASSUME NEW d \in DOMAIN methods
      PROVE /\ Reaches(KeysOf(d), N, 0, <<>>)
            /\ FitsFrom(KeysOf(d), parts, 0) <=> Fits(KeysOf(d), parts)
  <2>1. PICK keys : keys = KeysOf(d) /\ ValidKeys(keys)
    BY Zenon, MethodFacts
  <2>2. PICK s \in Nat, L \in Nat : s = Star(keys) /\ L = Len(keys)
    <3>1. Len(keys) \in Nat
      BY <2>1 DEF ValidKeys
    <3>2. Star(keys) \in 0..Len(keys)
      BY Zenon, <2>1, StarFound DEF IsStar
    <3> QED BY <3>1, <3>2
  <2>3. Position(keys, N, 0) = 0
    BY <2>2 DEF Position
  <2>4. Len(<<>>) = 0 /\ 0 <= L /\ \A j \in 1..0 : FALSE
    BY <2>2
  <2>5. Reaches(keys, N, 0, <<>>)
    BY Zenon, <2>2, <2>3, <2>4 DEF Reaches
  <2>6. \A j \in 1..N : j > 0
    OBVIOUS
  <2>7. FitsFrom(keys, parts, 0) <=> Fits(keys, parts)
    BY Zenon, <1>1, <2>6 DEF FitsFrom, Fits, Lengths, KeysFor
  <2> QED BY Zenon, <2>1, <2>5, <2>7
<1> QED BY Zenon, <1>1, <1>2 DEF Candidates, Matches, KeysOf

\* Of two methods only one is better.
LEMMA BetterOneWay ==
  ASSUME NEW r, NEW s, NEW M \in Nat, DOMAIN r = 1..M, DOMAIN s = 1..M,
         \A i \in 1..M : r[i] \in Nat /\ s[i] \in Nat, Better(r, s), Better(s, r)
  PROVE FALSE
<1>1. PICK i \in 1..M : r[i] < s[i] /\ \A k \in 1..(i - 1) : r[k] = s[k]
  BY Zenon DEF Better
<1>2. PICK j \in 1..M : s[j] < r[j] /\ \A k \in 1..(j - 1) : s[k] = r[k]
  BY Zenon DEF Better
<1>3. r[i] \in Nat /\ s[i] \in Nat /\ r[j] \in Nat /\ s[j] \in Nat
  BY Zenon
<1>4. i = j \/ i \in 1..(j - 1) \/ j \in 1..(i - 1)
  OBVIOUS
<1> QED BY <1>1, <1>2, <1>3, <1>4

\* Better compares all the places.
LEMMA BetterFromStart ==
  ASSUME NEW r, NEW s, NEW M \in Nat, DOMAIN r = 1..M, BetterFrom(r, s, 0)
  PROVE Better(r, s)
<1>1. PICK j \in 1..M : r[j] < s[j] /\ \A k \in 1..(j - 1) : k > 0 => r[k] = s[k]
  BY Zenon DEF BetterFrom
<1>2. \A k \in 1..(j - 1) : k > 0
  OBVIOUS
<1> QED BY Zenon, <1>1, <1>2 DEF Better

\* Ranks are numbers.
LEMMA RanksAreNumbers ==
  ASSUME NEW d, NEW parts \in Seq(Key), NEW M, M = Len(parts) + 2
  PROVE \A i \in 1..M : RanksOf(d, parts)[i] \in Nat
<1>1. PICK N \in Nat : N = Len(parts)
  OBVIOUS
<1>2. 0 \in Nat /\ 1 \in Nat /\ 2 \in Nat
  OBVIOUS
<1>3. SUFFICES ASSUME NEW i \in 1..(N + 2) PROVE RanksOf(d, parts)[i] \in Nat
  BY Zenon, <1>1
<1>4. i \in 1..N \/ i = N + 1 \/ i = N + 2
  OBVIOUS
<1>5. Rank(KeysOf(d), parts, i) \in Nat
  BY Zenon, <1>2 DEF Rank
<1>6. /\ i \in 1..N => RanksOf(d, parts)[i] = Rank(KeysOf(d), parts, i)
      /\ RanksOf(d, parts)[N + 1] = IF N < Len(KeysOf(d)) THEN 1 ELSE 0
      /\ RanksOf(d, parts)[N + 2] = IF RuleOf(d).http_method = HttpMethod_WILD_CARD THEN 1 ELSE 0
  BY Zenon, <1>1, RanksAre
<1>7. RanksOf(d, parts)[N + 1] \in Nat /\ RanksOf(d, parts)[N + 2] \in Nat
  BY Zenon, <1>2, <1>6
<1> QED BY Zenon, <1>4, <1>5, <1>6, <1>7

\* The parts of a path are keys that a trie could have.
LEMMA PartsAreKeys ==
  ASSUME TrieInv, NEW path \in Requests
  PROVE Parts(path) \in Seq(Key) /\ Parts(path) = ExtractRequestParts(path)
<1>1. Parts(path) \in Seq(Seq(STRING)) /\ Parts(path) = ExtractRequestParts(path)
  BY Zenon, PartsAgree
<1>2. \A x \in Seq(STRING) : x \in Key
  BY Zenon DEF Key, SegmentText, Wildcards
<1>3. ASSUME NEW A, NEW B, NEW q \in Seq(A), \A x \in A : x \in B PROVE q \in Seq(B)
  BY <1>3
<1> QED BY Zenon, <1>1, <1>2, <1>3

\* The search finds the best match of a path.
LEMMA LookupIsBest ==
  ASSUME TrieInv, NEW http_method, NEW path \in Requests
  PROVE BestMatches(http_method, Parts(path)) = {Lookup(http_method, path)} \ {NoData}
<1>1. PICK parts \in Seq(Key) : parts = Parts(path) /\ parts = ExtractRequestParts(path)
  BY Zenon, PartsAreKeys
<1>2. PICK N \in Nat : N = Len(parts)
  OBVIOUS
<1>3. PICK d : d = Lookup(http_method, path) /\ d = LookupPath(parts, http_method)[N][<<>>]
  BY Zenon, <1>1, <1>2 DEF Lookup
<1>4. Reachable(<<>>, 0) /\ <<>> \in DOMAIN trie
  <2>1. Len(<<>>) = 0 /\ 0 <= 0
    OBVIOUS
  <2> QED BY Zenon, <2>1 DEF Reachable, TrieInv
<1>5. Found(d, http_method, parts, 0, <<>>)
  BY Zenon, <1>2, <1>3, <1>4, SearchFinds
<1>6. PICK matches : matches = Matches(http_method, parts)
  BY Zenon
<1>7. \/ d = NoData /\ matches = {}
      \/ /\ d \in matches
         /\ \A e \in matches \ {d} : BetterFrom(RanksOf(d, parts), RanksOf(e, parts), 0)
  BY Zenon, <1>5, <1>6, CandidatesAtRoot DEF Found
<1>8. NoData \notin matches
  BY Zenon, <1>6, MethodFacts DEF Matches
<1>9. PICK M \in Nat : /\ \A e : DOMAIN RanksOf(e, parts) = 1..M
                       /\ \A e : \A i \in 1..M : RanksOf(e, parts)[i] \in Nat
  <2>1. N + 2 \in Nat
    OBVIOUS
  <2>2. \A e : DOMAIN RanksOf(e, parts) = 1..(N + 2)
    BY Zenon, <1>2, RanksAre
  <2>3. \A e : \A i \in 1..(N + 2) : RanksOf(e, parts)[i] \in Nat
    BY Zenon, <1>2, RanksAreNumbers
  <2> QED BY Zenon, <2>1, <2>2, <2>3
<1>10. BestMatches(http_method, parts) =
         {e \in matches : \A x \in matches \ {e} : Better(RanksOf(e, parts), RanksOf(x, parts))}
  BY Zenon, <1>6 DEF BestMatches
<1>11. CASE d = NoData /\ matches = {}
  BY Zenon, <1>1, <1>3, <1>10, <1>11
<1>12. CASE /\ d \in matches
            /\ \A e \in matches \ {d} : BetterFrom(RanksOf(d, parts), RanksOf(e, parts), 0)
  <2>1. \A e \in matches \ {d} : Better(RanksOf(d, parts), RanksOf(e, parts))
    BY Zenon, <1>9, <1>12, BetterFromStart
  <2>2. ASSUME NEW e \in matches, e # d, \A x \in matches \ {e} : Better(RanksOf(e, parts), RanksOf(x, parts))
        PROVE FALSE
    <3>1. Better(RanksOf(d, parts), RanksOf(e, parts)) /\ Better(RanksOf(e, parts), RanksOf(d, parts))
      BY Zenon, <1>12, <2>1, <2>2
    <3> QED BY Zenon, <1>9, <3>1, BetterOneWay
  <2>3. BestMatches(http_method, parts) = {d}
    BY Zenon, <1>10, <1>12, <2>1, <2>2
  <2>4. d # NoData
    BY Zenon, <1>8, <1>12
  <2> QED BY Zenon, <1>1, <1>3, <2>3, <2>4
<1> QED BY Zenon, <1>7, <1>11, <1>12

-----------------------------------------------------------------------------
(* Registration keeps the trie right *)

\* The trie of a new builder is right.
LEMMA InitTrie == Init => TrieInv
<1> SUFFICES ASSUME Init PROVE TrieInv
  OBVIOUS
<1>1. methods = <<>> /\ calls = <<>> /\ custom_verbs = {} /\ trie = [n \in {<<>>} |-> NoResults]
  BY Zenon DEF Init
<1>2. methods \in Seq(MethodData) /\ calls \in Seq(Rules) /\ DOMAIN methods = {}
  BY <1>1
<1>3. <<>> \in Seq(Key)
  OBVIOUS
<1>4. DOMAIN trie = {<<>>} /\ DOMAIN trie[<<>>] = {}
  BY Zenon, <1>1 DEF NoResults
<1> QED BY Zenon, <1>1, <1>2, <1>3, <1>4 DEF TrieInv, MethodsInv

\* A path is among its nodes, and they are paths too.
LEMMA NodesAre ==
  ASSUME NEW S, NEW path \in Seq(S)
  PROVE path \in NodesOf(path) /\ <<>> \in NodesOf(path) /\ NodesOf(path) \subseteq Seq(S)
<1>1. Len(path) \in 0..Len(path) /\ 0 \in 0..Len(path)
  OBVIOUS
<1>2. path = SubSeq(path, 1, Len(path)) /\ <<>> = SubSeq(path, 1, 0)
  OBVIOUS
<1>3. \A n \in 0..Len(path) : SubSeq(path, 1, n) \in Seq(S)
  OBVIOUS
<1> QED BY Zenon, <1>1, <1>2, <1>3 DEF NodesOf

\* The node of a method's keys is there.
LEMMA MethodNode ==
  ASSUME TrieInv, NEW d \in DOMAIN methods
  PROVE KeysOf(d) \in Seq(Key) /\ KeysOf(d) \in DOMAIN trie
<1>1. KeysOf(d) \in Seq(SegmentText)
  BY Zenon, MethodFacts, RuleKeys
<1>2. KeysOf(d) \in Seq(Key)
  BY <1>1 DEF Key
<1> QED BY Zenon, <1>2, NodesAre DEF TrieInv

\* A registered method is never overwritten.
LEMMA OldMethods ==
  ASSUME TrieInv, NEW rule \in Rules, calls' = Append(calls, rule),
         methods' = methods \/ \E x \in MethodData : methods' = Append(methods, x)
  PROVE /\ calls' \in Seq(Rules)
        /\ DOMAIN calls \subseteq DOMAIN calls'
        /\ Len(calls) + 1 \in DOMAIN calls' /\ calls'[Len(calls) + 1] = rule
        /\ \A d \in DOMAIN methods : /\ d \in DOMAIN methods' /\ methods'[d] = methods[d]
                                     /\ RuleOf(d)' = RuleOf(d) /\ KeysOf(d)' = KeysOf(d)
<1>1. methods \in Seq(MethodData) /\ calls \in Seq(Rules)
  BY Zenon DEF TrieInv, MethodsInv
<1>2. /\ calls' \in Seq(Rules) /\ DOMAIN calls \subseteq DOMAIN calls'
      /\ Len(calls) + 1 \in DOMAIN calls' /\ calls'[Len(calls) + 1] = rule
  BY <1>1
<1>3. \A c \in DOMAIN calls : calls'[c] = calls[c]
  BY <1>1
<1>4. \A d \in DOMAIN methods : d \in DOMAIN methods' /\ methods'[d] = methods[d]
  <2>1. CASE methods' = methods
    BY Zenon, <2>1
  <2>2. CASE \E x \in MethodData : methods' = Append(methods, x)
    <3>1. PICK x \in MethodData : methods' = Append(methods, x)
      BY Zenon, <2>2
    <3> QED BY <1>1, <3>1
  <2> QED BY Zenon, <2>1, <2>2
<1>5. ASSUME NEW d \in DOMAIN methods PROVE RuleOf(d)' = RuleOf(d)
  <2>1. methods[d].method \in DOMAIN calls
    BY Zenon DEF TrieInv, MethodsInv
  <2> QED BY Zenon, <1>3, <1>4, <2>1 DEF RuleOf
<1>6. \A d \in DOMAIN methods : KeysOf(d)' = KeysOf(d)
  BY Zenon, <1>5 DEF KeysOf
<1> QED BY Zenon, <1>2, <1>4, <1>5, <1>6

\* A rule that adds no method leaves the trie right, if it keeps its data.
LEMMA SameDataKeepsTrie ==
  ASSUME TrieInv, NEW rule \in Rules, calls' = Append(calls, rule), UNCHANGED <<methods, custom_verbs>>,
         DOMAIN trie' = DOMAIN trie,
         \A node \in DOMAIN trie :
           /\ DOMAIN trie'[node] = DOMAIN trie[node]
           /\ \A m \in DOMAIN trie[node] :
                trie'[node][m] \in Result /\ trie'[node][m].data = trie[node][m].data
  PROVE TrieInv'
<1>1. methods' = methods /\ custom_verbs' = custom_verbs
  OBVIOUS
<1>2. /\ calls' \in Seq(Rules) /\ DOMAIN calls \subseteq DOMAIN calls'
      /\ \A d \in DOMAIN methods : RuleOf(d)' = RuleOf(d) /\ KeysOf(d)' = KeysOf(d)
  BY Zenon, <1>1, OldMethods
<1>3. {RuleOf(d)'.template.verb : d \in DOMAIN methods} = {RuleOf(d).template.verb : d \in DOMAIN methods}
  BY Zenon, <1>2
<1>4. MethodsInv'
  <2>1. methods' \in Seq(MethodData) /\ calls' \in Seq(Rules)
    BY Zenon, <1>1, <1>2 DEF TrieInv, MethodsInv
  <2>2. ASSUME NEW d \in DOMAIN methods
        PROVE /\ methods[d].method \in DOMAIN calls /\ Insertable(RuleOf(d))
              /\ methods[d].variables = Variables(RuleOf(d).template)
    BY Zenon DEF TrieInv, MethodsInv
  <2>3. \A d \in DOMAIN methods :
          /\ methods[d].method \in DOMAIN calls' /\ Insertable(RuleOf(d)')
          /\ methods[d].variables = Variables(RuleOf(d)'.template)
    BY Zenon, <1>2, <2>2
  <2> QED BY Zenon, <1>1, <2>1, <2>3 DEF MethodsInv
<1>5. custom_verbs' = {RuleOf(d)'.template.verb : d \in DOMAIN methods'} \ {NoVerb}
  BY Zenon, <1>1, <1>3 DEF TrieInv
<1>6. ASSUME NEW d \in DOMAIN methods'
      PROVE /\ NodesOf(KeysOf(d)') \subseteq DOMAIN trie'
            /\ RuleOf(d)'.http_method \in DOMAIN trie'[KeysOf(d)']
            /\ trie'[KeysOf(d)'][RuleOf(d)'.http_method].data = d
  <2>1. d \in DOMAIN methods /\ RuleOf(d)' = RuleOf(d) /\ KeysOf(d)' = KeysOf(d)
    BY Zenon, <1>1, <1>2
  <2>2. /\ NodesOf(KeysOf(d)) \subseteq DOMAIN trie /\ KeysOf(d) \in DOMAIN trie
        /\ RuleOf(d).http_method \in DOMAIN trie[KeysOf(d)]
        /\ trie[KeysOf(d)][RuleOf(d).http_method].data = d
    BY Zenon, <2>1, MethodNode DEF TrieInv
  <2> QED BY Zenon, <2>1, <2>2
<1>7. ASSUME NEW node \in DOMAIN trie', NEW m \in DOMAIN trie'[node]
      PROVE /\ trie'[node][m] \in Result
            /\ \E d \in DOMAIN methods' :
                 trie'[node][m].data = d /\ KeysOf(d)' = node /\ RuleOf(d)'.http_method = m
  <2>1. node \in DOMAIN trie /\ m \in DOMAIN trie[node]
    BY Zenon
  <2>2. trie'[node][m] \in Result /\ trie'[node][m].data = trie[node][m].data
    BY Zenon, <2>1
  <2>3. PICK d \in DOMAIN methods : trie[node][m].data = d /\ KeysOf(d) = node /\ RuleOf(d).http_method = m
    BY Zenon, <2>1 DEF TrieInv
  <2>4. d \in DOMAIN methods' /\ RuleOf(d)' = RuleOf(d) /\ KeysOf(d)' = KeysOf(d)
    BY Zenon, <1>1, <1>2
  <2> QED BY Zenon, <2>2, <2>3, <2>4
<1>8. <<>> \in DOMAIN trie' /\ DOMAIN trie' \subseteq Seq(Key)
  BY Zenon DEF TrieInv
<1> QED BY Zenon, <1>4, <1>5, <1>6, <1>7, <1>8 DEF TrieInv

\* A rule that is refused leaves the trie right.
LEMMA InvalidKeepsTrie ==
  ASSUME TrieInv, NEW rule \in Rules, RegisterInvalid(rule), calls' = Append(calls, rule)
  PROVE TrieInv'
<1>1. UNCHANGED <<methods, custom_verbs>> /\ trie' = trie
  BY Zenon DEF RegisterInvalid
<1>2. \A node \in DOMAIN trie : \A m \in DOMAIN trie[node] : trie[node][m] \in Result
  BY Zenon DEF TrieInv
<1> QED BY Zenon, <1>1, <1>2, SameDataKeepsTrie

\* So does a duplicate, which marks the result that is there.
LEMMA DuplicateKeepsTrie ==
  ASSUME TrieInv, NEW rule \in Rules, RegisterDuplicate(rule), calls' = Append(calls, rule)
  PROVE TrieInv'
<1> DEFINE path == PathInfo(rule.template)
<1>1. /\ UNCHANGED <<methods, custom_verbs>> /\ path \in DOMAIN trie /\ rule.http_method \in DOMAIN trie[path]
      /\ trie' = [trie EXCEPT ![path] = [trie[path] EXCEPT ![rule.http_method] =
                                          [trie[path][rule.http_method] EXCEPT !.is_multiple = TRUE]]]
  BY Zenon DEF RegisterDuplicate
<1>2. \A node \in DOMAIN trie : \A m \in DOMAIN trie[node] : trie[node][m] \in Result
  BY Zenon DEF TrieInv
<1> HIDE DEF path
<1>3. DOMAIN trie' = DOMAIN trie
  BY Zenon, <1>1
<1>4. ASSUME NEW result \in Result
      PROVE /\ [result EXCEPT !.is_multiple = TRUE] \in Result
            /\ [result EXCEPT !.is_multiple = TRUE].data = result.data
  <2>1. [result EXCEPT !.is_multiple = TRUE] \in Result
    BY Zenon DEF Result
  <2>2. [result EXCEPT !.is_multiple = TRUE].data = result.data
    BY Zenon DEF Result
  <2> QED BY Zenon, <2>1, <2>2
<1>5. ASSUME NEW node \in DOMAIN trie
      PROVE /\ DOMAIN trie'[node] = DOMAIN trie[node]
            /\ \A m \in DOMAIN trie[node] :
                 trie'[node][m] \in Result /\ trie'[node][m].data = trie[node][m].data
  <2>1. CASE node # path
    <3>1. trie'[node] = trie[node]
      BY Zenon, <1>1, <2>1
    <3> QED BY Zenon, <1>2, <3>1
  <2>2. CASE node = path
    <3>1. trie'[node] = [trie[path] EXCEPT ![rule.http_method] =
                           [trie[path][rule.http_method] EXCEPT !.is_multiple = TRUE]]
      BY Zenon, <1>1, <2>2
    <3>2. DOMAIN trie'[node] = DOMAIN trie[node]
      BY Zenon, <2>2, <3>1
    <3>3. ASSUME NEW m \in DOMAIN trie[node]
          PROVE trie'[node][m] = trie[node][m] \/ trie'[node][m] = [trie[node][m] EXCEPT !.is_multiple = TRUE]
      BY Zenon, <2>2, <3>1
    <3>4. ASSUME NEW m \in DOMAIN trie[node]
          PROVE trie'[node][m] \in Result /\ trie'[node][m].data = trie[node][m].data
      <4>1. PICK result \in Result : result = trie[node][m]
        BY Zenon, <1>2
      <4>2. trie'[node][m] = result \/ trie'[node][m] = [result EXCEPT !.is_multiple = TRUE]
        BY Zenon, <3>3, <4>1
      <4> QED BY Zenon, <1>4, <4>1, <4>2
    <3> QED BY Zenon, <3>2, <3>4
  <2> QED BY Zenon, <2>1, <2>2
<1> QED BY Zenon, <1>1, <1>3, <1>5, SameDataKeepsTrie

\* A method that is registered is added at the node of its keys, and nothing else
\* changes.
LEMMA NewKeepsTrie ==
  ASSUME TrieInv, NEW rule \in Rules, RegisterNew(rule), calls' = Append(calls, rule)
  PROVE TrieInv'
<1>n. PICK n \in Nat : n = Len(methods) + 1
  BY DEF TrieInv, MethodsInv
<1> DEFINE path == PathInfo(rule.template)
           x == [method |-> Len(calls) + 1, variables |-> Variables(rule.template)]
           nodes == WithNodes(path)
           result == [data |-> n, is_multiple |-> FALSE]
<1>1. /\ Insertable(rule)
      /\ rule.http_method \notin DOMAIN nodes[path]
      /\ trie' = [nodes EXCEPT ![path] = SetResult(nodes[path], rule.http_method, result)]
      /\ methods' = Append(methods, x)
      /\ custom_verbs' = custom_verbs \cup ({rule.template.verb} \ {NoVerb})
  BY Zenon, <1>n DEF RegisterNew
<1>2. methods \in Seq(MethodData) /\ calls \in Seq(Rules)
  BY Zenon DEF TrieInv, MethodsInv
<1>3. x \in MethodData
  <2>1. Len(calls) + 1 \in Nat
    BY <1>2
  <2> QED BY Zenon, <2>1 DEF MethodData
<1>4. x.method = Len(calls) + 1 /\ x.variables = Variables(rule.template)
  BY Zenon
<1>5. result \in Result /\ result.data = n
  BY Zenon DEF Result
<1>6. path \in Seq(Key) /\ Keys[rule.template] = path
  <2>1. path \in Seq(SegmentText) /\ Keys[rule.template] = path
    BY Zenon, RuleKeys
  <2> QED BY <2>1 DEF Key
<1>7. path \in NodesOf(path) /\ NodesOf(path) \subseteq Seq(Key)
  BY Zenon, <1>6, NodesAre
<1>8. /\ DOMAIN nodes = DOMAIN trie \cup NodesOf(path)
      /\ \A node \in DOMAIN trie : nodes[node] = trie[node]
      /\ \A node \in DOMAIN nodes : node \notin DOMAIN trie => DOMAIN nodes[node] = {}
  BY Zenon DEF WithNodes, NoResults
<1> HIDE DEF path, x, nodes, result
<1>9. /\ methods' \in Seq(MethodData) /\ methods'[n] = x
      /\ DOMAIN methods' = DOMAIN methods \cup {n} /\ n \notin DOMAIN methods
  BY <1>n, <1>1, <1>2, <1>3
<1>10. /\ calls' \in Seq(Rules) /\ DOMAIN calls \subseteq DOMAIN calls'
       /\ Len(calls) + 1 \in DOMAIN calls' /\ calls'[Len(calls) + 1] = rule
       /\ \A d \in DOMAIN methods : /\ methods'[d] = methods[d]
                                    /\ RuleOf(d)' = RuleOf(d) /\ KeysOf(d)' = KeysOf(d)
  BY Zenon, <1>1, <1>3, OldMethods
<1>11. RuleOf(n)' = rule /\ KeysOf(n)' = path
  <2>1. RuleOf(n)' = rule
    BY Zenon, <1>4, <1>9, <1>10 DEF RuleOf
  <2> QED BY Zenon, <1>6, <2>1 DEF KeysOf
<1>12. /\ DOMAIN trie' = DOMAIN trie \cup NodesOf(path)
       /\ \A node \in DOMAIN nodes : node # path => trie'[node] = nodes[node]
       /\ trie'[path] = SetResult(nodes[path], rule.http_method, result)
  BY Zenon, <1>1, <1>7, <1>8
<1>13. /\ DOMAIN trie'[path] = DOMAIN nodes[path] \cup {rule.http_method}
       /\ trie'[path][rule.http_method] = result
       /\ \A m \in DOMAIN nodes[path] : trie'[path][m] = nodes[path][m]
  BY Zenon, <1>1, <1>12 DEF SetResult
<1>14. MethodsInv'
  <2>1. ASSUME NEW d \in DOMAIN methods'
        PROVE /\ methods'[d].method \in DOMAIN calls' /\ Insertable(RuleOf(d)')
              /\ methods'[d].variables = Variables(RuleOf(d)'.template)
    <3>1. CASE d \in DOMAIN methods
      <4>1. /\ methods[d].method \in DOMAIN calls /\ Insertable(RuleOf(d))
            /\ methods[d].variables = Variables(RuleOf(d).template)
        BY Zenon, <3>1 DEF TrieInv, MethodsInv
      <4> QED BY Zenon, <1>10, <3>1, <4>1
    <3>2. CASE d = n
      BY Zenon, <1>1, <1>4, <1>9, <1>10, <1>11, <3>2
    <3> QED BY Zenon, <1>9, <3>1, <3>2
  <2> QED BY Zenon, <1>9, <1>10, <2>1 DEF MethodsInv
<1>15. custom_verbs' = {RuleOf(d)'.template.verb : d \in DOMAIN methods'} \ {NoVerb}
  <2>1. {RuleOf(d)'.template.verb : d \in DOMAIN methods'}
           = {RuleOf(d).template.verb : d \in DOMAIN methods} \cup {rule.template.verb}
    <3>1. {RuleOf(d)'.template.verb : d \in DOMAIN methods} = {RuleOf(d).template.verb : d \in DOMAIN methods}
      BY Zenon, <1>10
    <3>2. {RuleOf(d)'.template.verb : d \in DOMAIN methods'}
             = {RuleOf(d)'.template.verb : d \in DOMAIN methods} \cup {RuleOf(n)'.template.verb}
      BY Zenon, <1>9
    <3> QED BY Zenon, <1>11, <3>1, <3>2
  <2>2. custom_verbs = {RuleOf(d).template.verb : d \in DOMAIN methods} \ {NoVerb}
    BY Zenon DEF TrieInv
  <2> QED BY Zenon, <1>1, <2>1, <2>2
<1>16. <<>> \in DOMAIN trie' /\ DOMAIN trie' \subseteq Seq(Key)
  BY Zenon, <1>7, <1>12 DEF TrieInv
<1>17. ASSUME NEW d \in DOMAIN methods'
       PROVE /\ NodesOf(KeysOf(d)') \subseteq DOMAIN trie'
             /\ RuleOf(d)'.http_method \in DOMAIN trie'[KeysOf(d)']
             /\ trie'[KeysOf(d)'][RuleOf(d)'.http_method].data = d
  <2>1. CASE d = n
    BY Zenon, <1>5, <1>11, <1>12, <1>13, <2>1
  <2>2. CASE d \in DOMAIN methods
    <3>1. PICK node : node = KeysOf(d)
      BY Zenon
    <3>2. PICK m : m = RuleOf(d).http_method
      BY Zenon
    <3>3. /\ NodesOf(node) \subseteq DOMAIN trie /\ node \in DOMAIN trie
          /\ m \in DOMAIN trie[node] /\ trie[node][m].data = d
      BY Zenon, <2>2, <3>1, <3>2, MethodNode DEF TrieInv
    <3>4. m \in DOMAIN trie'[node] /\ trie'[node][m] = trie[node][m]
      <4>1. CASE node = path
        BY Zenon, <1>8, <1>13, <3>3, <4>1
      <4>2. CASE node # path
        BY Zenon, <1>8, <1>12, <3>3, <4>2
      <4> QED BY Zenon, <4>1, <4>2
    <3>5. KeysOf(d)' = node /\ RuleOf(d)'.http_method = m
      BY Zenon, <1>10, <2>2, <3>1, <3>2
    <3> QED BY Zenon, <1>12, <3>3, <3>4, <3>5
  <2> QED BY Zenon, <1>9, <2>1, <2>2
<1>18. ASSUME NEW node \in DOMAIN trie', NEW m \in DOMAIN trie'[node]
       PROVE /\ trie'[node][m] \in Result
             /\ \E d \in DOMAIN methods' :
                  trie'[node][m].data = d /\ KeysOf(d)' = node /\ RuleOf(d)'.http_method = m
  <2>1. CASE node = path /\ m = rule.http_method
    BY Zenon, <1>5, <1>9, <1>11, <1>13, <2>1
  <2>2. CASE ~(node = path /\ m = rule.http_method)
    <3>1. node \in DOMAIN trie /\ m \in DOMAIN trie[node] /\ trie'[node][m] = trie[node][m]
      <4>1. CASE node = path
        BY Zenon, <1>8, <1>12, <1>13, <2>2, <4>1
      <4>2. CASE node # path
        BY Zenon, <1>8, <1>12, <2>2, <4>2
      <4> QED BY Zenon, <4>1, <4>2
    <3>2. trie[node][m] \in Result
      BY Zenon, <3>1 DEF TrieInv
    <3>3. PICK d \in DOMAIN methods : trie[node][m].data = d /\ KeysOf(d) = node /\ RuleOf(d).http_method = m
      BY Zenon, <3>1 DEF TrieInv
    <3>4. d \in DOMAIN methods' /\ KeysOf(d)' = node /\ RuleOf(d)'.http_method = m
      BY Zenon, <1>9, <1>10, <3>3
    <3> QED BY Zenon, <3>1, <3>2, <3>3, <3>4
  <2> QED BY Zenon, <2>1, <2>2
<1> QED BY Zenon, <1>14, <1>15, <1>16, <1>17, <1>18 DEF TrieInv

\* Lookups leave it alone.
LEMMA TrieStays == TrieInv /\ UNCHANGED vars => TrieInv'
<1> SUFFICES ASSUME TrieInv, UNCHANGED vars PROVE TrieInv'
  OBVIOUS
<1>1. trie' = trie /\ custom_verbs' = custom_verbs /\ methods' = methods /\ calls' = calls
  BY Zenon DEF vars
<1>2. \A d : RuleOf(d)' = RuleOf(d) /\ KeysOf(d)' = KeysOf(d)
  BY Zenon, <1>1 DEF RuleOf, KeysOf
<1>3. MethodsInv'
  BY <1>1, <1>2 DEF TrieInv, MethodsInv
<1> QED BY <1>1, <1>2, <1>3 DEF TrieInv

\* Whatever is registered, the trie holds each registered method at the node of
\* its template and nothing else, and the verbs of the templates (PathMatcherNode's
\* InsertPath and PathMatcherBuilder's Register).
THEOREM TrieIsRight == Spec => []TrieInv
<1>1. TrieInv /\ [Next]_vars => TrieInv'
  <2> SUFFICES ASSUME TrieInv, [Next]_vars PROVE TrieInv'
    OBVIOUS
  <2>1. CASE UNCHANGED vars
    BY Zenon, <2>1, TrieStays
  <2>2. ASSUME NEW rule \in Rules, Register(rule) PROVE TrieInv'
    BY Zenon, <2>2, NewKeepsTrie, DuplicateKeepsTrie, InvalidKeepsTrie DEF Register
  <2> QED BY Zenon, <2>1, <2>2 DEF Next, Built
<1> QED BY PTL, InitTrie, <1>1 DEF Spec

\* A registration never takes away what was registered before it.
LEMMA RegisteredFirst ==
  ASSUME TrieInv, FirstStays, NEW rule \in Rules, calls' = Append(calls, rule),
         RegisterNew(rule) \/ RegisterDuplicate(rule) \/ RegisterInvalid(rule)
  PROVE FirstStays'
<1>1. /\ methods \in Seq(MethodData) /\ calls \in Seq(Rules)
      /\ \A d \in DOMAIN methods : methods[d].method \in DOMAIN calls
  BY Zenon DEF TrieInv, MethodsInv
<1>2. PICK n \in Nat : /\ n = Len(calls) /\ DOMAIN calls = 1..n /\ DOMAIN calls' = 1..(n + 1)
                       /\ calls'[n + 1] = rule /\ \A c \in 1..n : calls'[c] = calls[c]
  BY <1>1
<1>3. \A d \in DOMAIN methods : d \in DOMAIN methods' /\ methods'[d] = methods[d]
  <2>1. CASE methods' = methods
    BY Zenon, <2>1
  <2>2. ASSUME NEW x, methods' = Append(methods, x)
        PROVE \A d \in DOMAIN methods : d \in DOMAIN methods' /\ methods'[d] = methods[d]
    BY <1>1, <2>2
  <2> QED BY Zenon, <2>1, <2>2 DEF RegisterNew, RegisterDuplicate, RegisterInvalid
<1>4. \A d \in DOMAIN methods : RuleOf(d)' = RuleOf(d)
  BY Zenon, <1>1, <1>2, <1>3 DEF RuleOf
<1>5. \A r \in Rules : Keys[r.template] = PathInfo(r.template)
  BY Zenon DEF Keys
<1>6. ASSUME NEW c \in 1..n, Insertable(calls[c])
      PROVE \E d \in DOMAIN methods' : /\ methods'[d].method <= c
                                       /\ RuleOf(d)'.http_method = calls'[c].http_method
                                       /\ Keys[RuleOf(d)'.template] = Keys[calls'[c].template]
  <2>1. PICK d \in DOMAIN methods : /\ methods[d].method <= c
                                    /\ RuleOf(d).http_method = calls[c].http_method
                                    /\ Keys[RuleOf(d).template] = Keys[calls[c].template]
    BY Zenon, <1>2, <1>6 DEF FirstStays
  <2>2. d \in DOMAIN methods' /\ methods'[d] = methods[d]
    BY Zenon, <1>3
  <2>3. RuleOf(d)' = RuleOf(d)
    BY Zenon, <1>4
  <2>4. calls'[c] = calls[c]
    BY Zenon, <1>2
  <2>5. /\ methods'[d].method <= c
        /\ RuleOf(d)'.http_method = calls'[c].http_method
        /\ Keys[RuleOf(d)'.template] = Keys[calls'[c].template]
    BY Zenon, <2>1, <2>2, <2>3, <2>4
  <2> QED BY Zenon, <2>2, <2>5
<1>7. ASSUME Insertable(rule)
      PROVE \E d \in DOMAIN methods' : /\ methods'[d].method <= n + 1
                                       /\ RuleOf(d)'.http_method = rule.http_method
                                       /\ Keys[RuleOf(d)'.template] = Keys[rule.template]
  <2>1. CASE RegisterNew(rule)
    <3>1. PICK x : methods' = Append(methods, x) /\ x = [method |-> n + 1, variables |-> Variables(rule.template)]
      BY Zenon, <1>2, <2>1 DEF RegisterNew
    <3>2. PICK d \in DOMAIN methods' : methods'[d] = x
      <4>1. Len(methods) + 1 \in DOMAIN methods' /\ methods'[Len(methods) + 1] = x
        BY <1>1, <3>1
      <4> QED BY Zenon, <4>1
    <3>3. x.method = n + 1 /\ n + 1 <= n + 1
      BY <3>1
    <3>4. RuleOf(d)' = rule
      BY Zenon, <1>2, <3>2, <3>3 DEF RuleOf
    <3> QED BY Zenon, <3>2, <3>3, <3>4
  <2>2. CASE RegisterDuplicate(rule)
    <3>1. PICK path : path = PathInfo(rule.template)
      BY Zenon
    <3>2. path \in DOMAIN trie /\ rule.http_method \in DOMAIN trie[path]
      BY Zenon, <2>2, <3>1 DEF RegisterDuplicate
    <3>3. PICK d \in DOMAIN methods : KeysOf(d) = path /\ RuleOf(d).http_method = rule.http_method
      BY Zenon, <3>2 DEF TrieInv
    <3>4. methods[d].method <= n + 1
      <4>1. methods[d].method \in 1..n
        BY Zenon, <1>1, <1>2
      <4> QED BY <4>1
    <3>5. d \in DOMAIN methods' /\ methods'[d].method <= n + 1 /\ RuleOf(d)' = RuleOf(d)
      BY Zenon, <1>3, <1>4, <3>4
    <3>6. Keys[RuleOf(d).template] = Keys[rule.template]
      BY Zenon, <1>5, <3>1, <3>3 DEF KeysOf
    <3> QED BY Zenon, <3>3, <3>5, <3>6
  <2> QED BY Zenon, <1>7, <2>1, <2>2 DEF RegisterInvalid
<1>8. \A c \in 1..(n + 1) : c \in 1..n \/ c = n + 1
  OBVIOUS
<1>9. ASSUME NEW c \in 1..(n + 1), Insertable(calls'[c])
      PROVE \E d \in DOMAIN methods' : /\ methods'[d].method <= c
                                       /\ RuleOf(d)'.http_method = calls'[c].http_method
                                       /\ Keys[RuleOf(d)'.template] = Keys[calls'[c].template]
  <2>1. CASE c \in 1..n
    <3>1. Insertable(calls[c])
      BY Zenon, <1>2, <1>9, <2>1
    <3> QED BY Zenon, <1>6, <2>1, <3>1
  <2>2. CASE c = n + 1
    BY Zenon, <1>2, <1>7, <1>9, <2>2
  <2> QED BY Zenon, <1>8, <2>1, <2>2
<1> QED BY Zenon, <1>2, <1>9 DEF FirstStays

\* The depth-first search of LookupPath, which backtracks, finds the most specific
\* template that matches, for every set of rules, registered in every order; of two
\* with the same node the first.
THEOREM LookupAlwaysFindsBest == Spec => []LookupFindsBest
<1>1. Init => FirstStays
  <2>1. DOMAIN <<>> = {}
    OBVIOUS
  <2> QED BY Zenon, <2>1 DEF Init, FirstStays
<1>2. TrieInv /\ FirstStays /\ [Next]_vars => FirstStays'
  <2> SUFFICES ASSUME TrieInv, FirstStays, [Next]_vars PROVE FirstStays'
    OBVIOUS
  <2>1. CASE UNCHANGED vars
    BY Zenon, <2>1 DEF vars, FirstStays, RuleOf
  <2>2. ASSUME NEW rule \in Rules, Register(rule) PROVE FirstStays'
    BY Zenon, <2>2, RegisteredFirst DEF Register
  <2> QED BY Zenon, <2>1, <2>2 DEF Next, Built
<1>3. TrieInv /\ FirstStays => LookupFindsBest
  BY Zenon, LookupIsBest DEF LookupFindsBest
<1> QED BY PTL, TrieIsRight, <1>1, <1>2, <1>3 DEF Spec

-----------------------------------------------------------------------------
(* Bindings *)

\* The parts laid on the keys behind a up to e are those behind a up to b.
MatchedUpTo(keys, N, a, e, b) ==
  /\ b <= N
  /\ \A i \in 1..N : Position(keys, N, i) \in (a + 1)..e <=> i \in (a + 1)..b

\* Where the parts for a range of keys end, if it has "**" or is before it.
EndsAt(keys, N, a, e, b) ==
  \/ (\E i \in (a + 1)..e : keys[i] = kWildCardPathKey) /\ b = N + e - Len(keys)
  \/ (\A i \in 1..e : keys[i] # kWildCardPathKey) /\ b = e

\* The parts laid on a range of keys that has "**", or that is before it, are a
\* range too: up to the same distance from the end, or to the same place.
LEMMA MatchedRange ==
  ASSUME NEW keys, ValidKeys(keys), NEW N \in Nat, Lengths(keys, N), NEW a \in Nat, NEW e \in Nat,
         NEW b \in Int, a <= e, e <= Len(keys), EndsAt(keys, N, a, e, b)
  PROVE MatchedUpTo(keys, N, a, e, b)
<1>1. PICK L \in Nat : L = Len(keys)
  BY DEF ValidKeys
<1>2. PICK s \in Nat : /\ s = Star(keys) /\ s <= L
                       /\ s > 0 => keys[s] = kWildCardPathKey
                       /\ \A i \in 1..L : i # s => keys[i] # kWildCardPathKey
  <2>1. Star(keys) \in Nat /\ Star(keys) <= L
    BY <1>1, StarFound DEF IsStar
  <2> QED BY Zenon, <1>1, <2>1, StarFound DEF IsStar
<1>3. N = L \/ (N > L /\ s > 0) \/ (N = L - 1 /\ s = L)
  BY Zenon, <1>1, <1>2 DEF Lengths
<1>4. \A i \in 1..N : Position(keys, N, i) = IF s = 0 \/ i < s THEN i
                                             ELSE IF i - N + L > s THEN i - N + L ELSE s
  BY Zenon, <1>1, <1>2 DEF Position
<1>5. CASE (\E i \in (a + 1)..e : keys[i] = kWildCardPathKey) /\ b = N + e - L
  <2>1. PICK i \in (a + 1)..e : keys[i] = kWildCardPathKey
    BY Zenon, <1>5
  <2>2. i \in 1..L
    BY <1>1, <2>1
  <2>3. s = i
    BY Zenon, <1>2, <2>1, <2>2
  <2>4. s \in (a + 1)..e /\ e <= L /\ b = N + e - L
    BY Zenon, <1>1, <1>5, <2>3
  <2>5. b <= N
    BY <2>4
  <2>6. ASSUME NEW j \in 1..N PROVE Position(keys, N, j) \in (a + 1)..e <=> j \in (a + 1)..b
    <3>1. Position(keys, N, j) = IF s = 0 \/ j < s THEN j ELSE IF j - N + L > s THEN j - N + L ELSE s
      BY Zenon, <1>4
    <3> QED BY <1>3, <2>4, <3>1
  <2> QED BY Zenon, <2>5, <2>6 DEF MatchedUpTo
<1>6. CASE (\A i \in 1..e : keys[i] # kWildCardPathKey) /\ b = e
  <2>1. s = 0 \/ s > e
    BY <1>2, <1>6
  <2>2. e <= L /\ b = e
    BY Zenon, <1>1, <1>6
  <2> QED BY <1>3, <1>4, <2>1, <2>2 DEF MatchedUpTo
<1> QED BY Zenon, <1>1, <1>5, <1>6 DEF EndsAt

\* The parts from the first to the last of a set.
PartsBetween(parts, matched) ==
  IF matched = {} THEN <<>>
  ELSE SubSeq(parts, CHOOSE n \in matched : \A m \in matched : n <= m,
                     CHOOSE n \in matched : \A m \in matched : m <= n)

\* They are all the parts of a range.
LEMMA RangeOfParts ==
  ASSUME NEW parts \in Seq(Key), NEW a \in Nat, NEW b \in Int, b <= Len(parts)
  PROVE PartsBetween(parts, {n \in 1..Len(parts) : n \in (a + 1)..b}) = SubSeq(parts, a + 1, b)
<1>0. PICK matched : matched = {n \in 1..Len(parts) : n \in (a + 1)..b}
  BY Zenon
<1> SUFFICES PartsBetween(parts, matched) = SubSeq(parts, a + 1, b)
  BY Zenon, <1>0
<1>1. \A n : n \in matched <=> n \in (a + 1)..b
  BY <1>0
<1>2. CASE b < a + 1
  <2>1. matched = {}
    BY <1>1, <1>2
  <2>2. SubSeq(parts, a + 1, b) = <<>>
    BY <1>2
  <2> QED BY Zenon, <2>1, <2>2 DEF PartsBetween
<1>3. CASE b >= a + 1
  <2>1. a + 1 \in matched /\ b \in matched
    BY <1>1, <1>3
  <2>2. \A m \in matched : a + 1 <= m /\ m <= b
    BY <1>1
  <2>3. \A n \in matched : (\A m \in matched : n <= m) => n = a + 1
    BY <1>1, <2>1
  <2>4. \A n \in matched : (\A m \in matched : m <= n) => n = b
    BY <1>1, <2>1
  <2>5. (CHOOSE n \in matched : \A m \in matched : n <= m) = a + 1
    BY Zenon, <2>1, <2>2, <2>3
  <2>6. (CHOOSE n \in matched : \A m \in matched : m <= n) = b
    BY Zenon, <2>1, <2>2, <2>4
  <2> QED BY Zenon, <2>1, <2>5, <2>6 DEF PartsBetween
<1>4. b < a + 1 \/ b >= a + 1
  OBVIOUS
<1> QED BY Zenon, <1>2, <1>3, <1>4


\* How many keys the verb has.
VerbKeys(t) == IF t.verb = NoVerb THEN 0 ELSE 1

\* The keys of a template and the range of one of its parsed variables.
VariableRight(t, keys, var) ==
  /\ \E F : var \in Variable(F)
  /\ var.start_segment <= var.end_segment /\ var.end_segment <= Len(Segments(t))
  /\ Len(Segments(t)) \in Nat
  /\ Len(keys) = Len(Segments(t)) + VerbKeys(t)
  /\ \A i \in 1..Len(Segments(t)) : keys[i] = Segments(t)[i]
  /\ var.has_wildcard_path <=>
       \E i \in (var.start_segment + 1)..var.end_segment : Segments(t)[i] = kWildCardPathKey

\* They are right for every rule.
LEMMA VariableFacts ==
  ASSUME NEW rule \in Rules, NEW k \in DOMAIN Parsed(rule.template).variables
  PROVE VariableRight(rule.template, PathInfo(rule.template), Parsed(rule.template).variables[k])
<1>t. PICK t, variables, keys, var :
        /\ t = rule.template /\ variables = Parsed(t).variables /\ keys = PathInfo(t)
        /\ k \in DOMAIN variables /\ var = variables[k]
  BY Zenon
<1>1. Len(t.items) \in Nat /\ \A i \in 1..Len(t.items) : t.items[i].segments \in Seq(SegmentText)
  BY Zenon, <1>t, RuleItems
<1>2. PICK F : ParsedRight(F, Parsed(t))
  BY Zenon, <1>1, TemplateParsedRight
<1>3. PICK segments \in Seq(SegmentText) : segments = Segments(t)
  BY Zenon, <1>2 DEF ParsedRight, Segments
<1>4. variables \in Seq(Variable(F))
  BY Zenon, <1>t, <1>2 DEF ParsedRight
<1>5. k \in 1..Len(variables) /\ var \in Variable(F)
  BY <1>t, <1>4
<1>6. RangeIsRight(segments, var)
  BY Zenon, <1>t, <1>2, <1>3, <1>5 DEF ParsedRight, Segments
<1>7. var.start_segment \in Nat
  BY Zenon, <1>5 DEF Variable
<1>8. Len(segments) \in Nat
  OBVIOUS
<1>9. var.end_segment \in var.start_segment..Len(segments)
  BY Zenon, <1>6 DEF RangeIsRight
<1>10. var.start_segment <= var.end_segment /\ var.end_segment <= Len(segments)
  BY <1>7, <1>8, <1>9
<1>11. /\ Len(keys) = Len(segments) + VerbKeys(t)
       /\ \A i \in 1..Len(segments) : keys[i] = segments[i]
  <2>1. CASE t.verb = NoVerb
    <3>1. keys = segments \o <<>>
      BY Zenon, <1>t, <1>3, <2>1 DEF PathInfo
    <3> QED BY <2>1, <3>1 DEF VerbKeys
  <2>2. CASE t.verb # NoVerb
    <3>1. PICK verb \in SegmentText : keys = segments \o <<verb>>
      <4>1. PICK x \in STRING : x = t.verb /\ x # "/."
        BY Zenon, <1>t, <2>2, RulesAssumption
      <4>2. <<x>> \in Seq(STRING)
        BY Zenon, OneElement
      <4>3. <<x>> # <<"/.">>
        BY <4>1
      <4>4. keys = segments \o <<<<x>>>>
        BY Zenon, <1>t, <1>3, <2>2, <4>1 DEF PathInfo
      <4> QED BY Zenon, <4>2, <4>3, <4>4 DEF SegmentText, kSingleParameterKey
    <3>2. Len(keys) = Len(segments) + 1
      BY <3>1
    <3>3. \A i \in 1..Len(segments) : keys[i] = segments[i]
      BY <3>1
    <3> QED BY Zenon, <2>2, <3>2, <3>3 DEF VerbKeys
  <2> QED BY Zenon, <2>1, <2>2
<1>12. VariableRight(t, keys, var)
  BY Zenon, <1>3, <1>5, <1>6, <1>8, <1>10, <1>11 DEF RangeIsRight, VariableRight
<1> QED BY Zenon, <1>t, <1>12

\* A variable of a method that matches is bound to the parts its segments match.
LEMMA BindingIsMatched ==
  ASSUME NEW rule \in Rules, Insertable(rule), NEW k \in DOMAIN Parsed(rule.template).variables,
         NEW parts \in Seq(Key), Fits(Keys[rule.template], parts),
         ~BehindWildcard(rule.template, Parsed(rule.template).variables[k])
  PROVE Binding(Variables(rule.template)[k], parts).value
          = MatchedParts(rule.template, Parsed(rule.template).variables[k], parts)
<1>t. PICK t, variables : t = rule.template /\ variables = Parsed(t).variables
  BY Zenon
<1> SUFFICES Binding(Variables(t)[k], parts).value = MatchedParts(t, variables[k], parts)
  BY Zenon, <1>t
<1>1. PICK keys : keys = PathInfo(t) /\ keys = Keys[t] /\ ValidKeys(keys)
  BY Zenon, <1>t, RuleKeys
<1>2. PICK var : var = variables[k]
  BY Zenon
<1>facts. VariableRight(t, keys, var)
  BY Zenon, <1>t, <1>1, <1>2, VariableFacts
<1>3. PICK F : var \in Variable(F)
  BY Zenon, <1>facts DEF VariableRight
<1>4. PICK a \in Nat, e \in Nat : a = var.start_segment /\ e = var.end_segment
  BY Zenon, <1>3 DEF Variable
<1>5. PICK n \in Nat : n = Len(Segments(t)) /\ a <= e /\ e <= n
  BY Zenon, <1>4, <1>facts DEF VariableRight
<1>6. PICK N \in Nat : N = Len(parts) /\ DOMAIN parts = 1..N
  OBVIOUS
<1>7. PICK L \in Nat : L = Len(keys) /\ L = n + VerbKeys(t) /\ e <= L
  <2>1. Len(keys) = n + VerbKeys(t)
    BY Zenon, <1>5, <1>facts DEF VariableRight
  <2> QED BY <1>5, <2>1 DEF VerbKeys
<1>8. \A i \in 1..n : keys[i] = Segments(t)[i]
  BY Zenon, <1>5, <1>facts DEF VariableRight
<1>9. var.has_wildcard_path <=> \E i \in (a + 1)..e : keys[i] = kWildCardPathKey
  <2>1. \A i \in (a + 1)..e : i \in 1..n
    BY <1>5
  <2>2. var.has_wildcard_path <=> \E i \in (a + 1)..e : Segments(t)[i] = kWildCardPathKey
    BY Zenon, <1>4, <1>facts DEF VariableRight
  <2> QED BY Zenon, <1>8, <2>1, <2>2
<1>10. Lengths(keys, N)
  BY Zenon, <1>t, <1>1, <1>6 DEF Fits, Lengths
<1>11. Variables(t)[k] = [var EXCEPT !.end_segment = EndSegment(t, var)]
  BY Zenon, <1>t, <1>2 DEF Variables
<1>12. PICK end \in Int : end = EndSegment(t, var) /\ end = IF var.has_wildcard_path THEN e - L - 1 ELSE e
  <2>1. EndSegment(t, var) = IF var.has_wildcard_path
                             THEN e - n - 1 - VerbKeys(t) ELSE e
    BY Zenon, <1>4, <1>5 DEF EndSegment, VerbKeys
  <2>2. var.has_wildcard_path => EndSegment(t, var) = e - L - 1
    BY <1>7, <2>1 DEF VerbKeys
  <2>3. ~var.has_wildcard_path => EndSegment(t, var) = e
    BY Zenon, <2>1
  <2>4. e - L - 1 \in Int /\ e \in Int
    OBVIOUS
  <2> QED BY Zenon, <2>2, <2>3, <2>4
<1>13. PICK b \in Int : b = IF end >= 0 THEN end ELSE N + end + 1
  OBVIOUS
<1>14. Binding(Variables(t)[k], parts).value = SubSeq(parts, a + 1, b)
  <2>1. PICK bound : bound = Variables(t)[k]
    BY Zenon
  <2>2. bound.end_segment = end /\ bound.start_segment = a
    BY Zenon, <1>3, <1>4, <1>11, <1>12, <2>1 DEF Variable
  <2> QED BY Zenon, <1>6, <1>13, <2>1, <2>2 DEF Binding
<1>15. EndsAt(keys, N, a, e, b)
  <2>1. CASE var.has_wildcard_path
    <3>1. b = N + e - L
      BY <1>7, <1>12, <1>13, <2>1
    <3> QED BY Zenon, <1>7, <1>9, <2>1, <3>1 DEF EndsAt
  <2>2. CASE ~var.has_wildcard_path
    <3>1. b = e
      BY <1>12, <1>13, <2>2
    <3>2. ASSUME NEW i \in 1..e, keys[i] = kWildCardPathKey PROVE FALSE
      <4>1. i \in 1..a \/ i \in (a + 1)..e
        OBVIOUS
      <4>2. i \in 1..n
        BY <1>5
      <4>3. i \notin 1..a
        BY Zenon, <1>2, <1>4, <1>8, <1>t, <3>2, <4>2 DEF BehindWildcard
      <4> QED BY Zenon, <1>9, <2>2, <3>2, <4>1, <4>3
    <3> QED BY Zenon, <3>1, <3>2 DEF EndsAt
  <2> QED BY Zenon, <2>1, <2>2
<1>16. MatchedUpTo(keys, N, a, e, b)
  BY Zenon, <1>1, <1>5, <1>7, <1>10, <1>15, MatchedRange
<1>17. MatchedParts(t, variables[k], parts) =
         PartsBetween(parts, {i \in DOMAIN parts : Position(Keys[t], Len(parts), i)
                                \in (variables[k].start_segment + 1)..variables[k].end_segment})
  BY Zenon DEF MatchedParts, PartsBetween
<1>18. MatchedParts(t, variables[k], parts) =
         PartsBetween(parts, {i \in 1..N : Position(keys, N, i) \in (a + 1)..e})
  BY Zenon, <1>1, <1>2, <1>4, <1>6, <1>17
<1>19. {i \in 1..N : Position(keys, N, i) \in (a + 1)..e} = {i \in 1..N : i \in (a + 1)..b} /\ b <= N
  BY Zenon, <1>16 DEF MatchedUpTo
<1>20. PartsBetween(parts, {i \in 1..N : i \in (a + 1)..b}) = SubSeq(parts, a + 1, b)
  BY Zenon, <1>6, <1>19, RangeOfParts
<1> QED BY Zenon, <1>14, <1>18, <1>19, <1>20

\* What the search finds is a registered method that matches.
LEMMA LookupMatches ==
  ASSUME TrieInv, NEW http_method, NEW path \in Requests, NEW d, d = Lookup(http_method, path), d # NoData
  PROVE /\ d \in DOMAIN methods
        /\ Fits(Keys[RuleOf(d).template], ExtractRequestParts(path))
<1>1. d \in BestMatches(http_method, Parts(path))
  BY Zenon, LookupIsBest
<1>2. Parts(path) = ExtractRequestParts(path)
  BY Zenon, PartsAgree
<1> QED BY Zenon, <1>1, <1>2 DEF BestMatches, Matches

\* The bindings of a request for the method d.
BindingsRight(d, path) ==
  LET t == RuleOf(d).template
      variables == Parsed(t).variables
      bindings == ExtractBindingsFromPath(methods[d].variables, ExtractRequestParts(path))
  IN /\ DOMAIN bindings = DOMAIN variables
     /\ \A k \in DOMAIN variables :
          /\ bindings[k].field_path = variables[k].field_path
          /\ ~BehindWildcard(t, variables[k]) =>
               bindings[k].value = MatchedParts(t, variables[k], Parts(path))

\* In a right trie the bindings of a request are the parts its template matched.
LEMMA BindingsOfRequest ==
  ASSUME TrieInv, NEW http_method, NEW path \in Requests, NEW d, d = Lookup(http_method, path), d # NoData
  PROVE BindingsRight(d, path)
<1>0. PICK t, variables, bindings :
        /\ t = RuleOf(d).template /\ variables = Parsed(t).variables
        /\ bindings = ExtractBindingsFromPath(methods[d].variables, ExtractRequestParts(path))
  BY Zenon
<1>1. PICK parts \in Seq(Key) : parts = Parts(path) /\ parts = ExtractRequestParts(path)
  BY Zenon, PartsAreKeys
<1>2. d \in DOMAIN methods /\ Fits(Keys[t], parts)
  BY Zenon, <1>0, <1>1, LookupMatches
<1>3. PICK rule \in Rules : rule = RuleOf(d) /\ t = rule.template /\ Insertable(rule)
  BY Zenon, <1>0, <1>2, MethodFacts DEF TrieInv, MethodsInv
<1>4. methods[d].variables = Variables(t)
  BY Zenon, <1>0, <1>2 DEF TrieInv, MethodsInv
<1>5. DOMAIN Variables(t) = DOMAIN variables
  BY Zenon, <1>0 DEF Variables
<1>6. /\ DOMAIN bindings = DOMAIN variables
      /\ \A k \in DOMAIN variables : bindings[k] = Binding(Variables(t)[k], parts)
  BY Zenon, <1>0, <1>1, <1>4, <1>5 DEF ExtractBindingsFromPath
<1>7. ASSUME NEW k \in DOMAIN variables
      PROVE /\ bindings[k].field_path = variables[k].field_path
            /\ ~BehindWildcard(t, variables[k]) =>
                 bindings[k].value = MatchedParts(t, variables[k], Parts(path))
  <2>1. PICK var : var = variables[k]
    BY Zenon
  <2>2. PICK F : var \in Variable(F)
    BY Zenon, <1>0, <1>3, <2>1, VariableFacts DEF VariableRight
  <2>3. Variables(t)[k] = [var EXCEPT !.end_segment = EndSegment(t, var)]
    BY Zenon, <1>0, <2>1 DEF Variables
  <2>4. Variables(t)[k].field_path = var.field_path
    BY Zenon, <2>2, <2>3 DEF Variable
  <2>5. bindings[k].field_path = variables[k].field_path
    <3>1. \A v, q : Binding(v, q).field_path = v.field_path
      BY DEF Binding
    <3>2. PICK bound : bound = Variables(t)[k] /\ bindings[k] = Binding(bound, parts)
      BY Zenon, <1>6
    <3>3. Binding(bound, parts).field_path = bound.field_path
      BY Zenon, <3>1
    <3> QED BY Zenon, <2>1, <2>4, <3>2, <3>3
  <2>6. ASSUME ~BehindWildcard(t, variables[k])
        PROVE bindings[k].value = MatchedParts(t, variables[k], parts)
    <3>1. /\ Fits(Keys[rule.template], parts) /\ k \in DOMAIN Parsed(rule.template).variables
          /\ ~BehindWildcard(rule.template, Parsed(rule.template).variables[k])
      BY Zenon, <1>0, <1>2, <1>3, <2>6
    <3>2. Binding(Variables(rule.template)[k], parts).value
            = MatchedParts(rule.template, Parsed(rule.template).variables[k], parts)
      BY Zenon, <1>3, <3>1, BindingIsMatched
    <3> QED BY Zenon, <1>0, <1>3, <1>6, <3>2
  <2> QED BY Zenon, <1>1, <2>5, <2>6
<1> QED BY Zenon, <1>0, <1>6, <1>7 DEF BindingsRight

\* ExtractBindingsFromPath, with the ranges that the parser computed once for the
\* template, gives every variable the parts that its segments matched, for every
\* set of rules and every request.
THEOREM BindingsAlwaysMatched == Spec => []BindingsAreMatchedParts
<1>1. TrieInv => BindingsAreMatchedParts
  <2>1. ASSUME TrieInv, NEW http_method \in Methods, NEW path \in Requests,
               NEW d \in {Lookup(http_method, path)} \ {NoData}
        PROVE BindingsRight(d, path)
    BY Zenon, <2>1, BindingsOfRequest
  <2> QED BY Zenon, <2>1 DEF BindingsAreMatchedParts, BindingsRight
<1> QED BY PTL, TrieIsRight, <1>1

=============================================================================
